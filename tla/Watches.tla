------------------------------ MODULE Watches ------------------------------
(***************************************************************************)
(* Watching the news about a topic, and the laptop's health                *)
(* (tools/watch.py).  A watch is a scheduled job that checks, and an entry *)
(* of watches.json that says what was seen; a request starts and ends both *)
(* in steps of their own, while checks that read the headlines, or the     *)
(* battery, a while ago are still to be judged by the entry.  What is new  *)
(* is marked in the entry first, under the file's lock, and told after it, *)
(* as a reminder due now, which is another file: in between a check may    *)
(* end without a word.                                                     *)
(***************************************************************************)
EXTENDS Naturals, FiniteSets

CONSTANTS
  Headlines,  \* what a feed may show about the topic
  Minders,    \* threads: requests, and the ticker with the checks it runs
  MaxWatches, \* bound: jobs ever added
  QuietFor,   \* between two warnings of a kind
  MaxHours    \* bound: the clock

ASSUME WatchesAssumption == MaxWatches \in Nat /\ QuietFor \in Nat /\ MaxHours \in Nat

\* Memory and disk are judged as the battery is.
Kinds == {"battery", "cpu"}
NotWarned == MaxHours + 1
WatchJobs == 1..MaxWatches

VARIABLES
  subject,      \* what this behaviour is about; the two share only the file's lock
  feed,         \* what the news services show now
  hour,
  watchJobs,    \* the scheduler's "watch check news <topic>" jobs
  everAdded,    \* how many were ever added
  news,         \* watches.json: news[topic]
  healthEntry,  \* watches.json: health
  minder,
  heard,        \* history: shown when the last watch began, or told since
  lost,         \* history: marked as seen since then, and never told
  lagging,      \* history: threads that are still to tell what an earlier watch found
  silent,       \* history: nothing was read since then
  crossed,      \* history: two requests to start or end the watch overlapped
  warnings      \* history: (kind, hour) to be warned of, since alerts were last turned off

watchvars ==
  <<subject, feed, hour, watchJobs, everAdded, news, healthEntry, minder, heard, lost, lagging,
    silent, crossed, warnings>>

MinderSteps ==
  {"idle", "starting", "seeding", "adding", "ending", "forgetting", "checking", "telling",
   "judging", "warning"}
Minder == [step: MinderSteps, titles: SUBSET Headlines, jobs: SUBSET WatchJobs,
           high: SUBSET Kinds, at: 0..MaxHours]

WatchesTypeOK ==
  /\ subject \in {"news", "health"}
  /\ feed \subseteq Headlines /\ heard \subseteq Headlines /\ lost \subseteq Headlines
  /\ hour \in 0..MaxHours
  /\ watchJobs \subseteq WatchJobs /\ everAdded \in 0..MaxWatches
  /\ news \in [there: BOOLEAN, seeded: BOOLEAN, seen: SUBSET Headlines]
  /\ healthEntry \in [cpuHigh: BOOLEAN, last: [Kinds -> 0..NotWarned]]
  /\ minder \in [Minders -> Minder]
  /\ lagging \subseteq {m \in Minders : minder[m].step = "telling"}
  /\ silent \in BOOLEAN /\ crossed \in BOOLEAN
  /\ warnings \subseteq Kinds \X (0..MaxHours)

AtRest == [step |-> "idle", titles |-> {}, jobs |-> {}, high |-> {}, at |-> 0]
NoNews == [there |-> FALSE, seeded |-> FALSE, seen |-> {}]
NoHealth == [cpuHigh |-> FALSE, last |-> [k \in Kinds |-> NotWarned]]

WatchesInit ==
  /\ subject \in {"news", "health"}
  /\ feed = {} /\ hour = 0
  /\ watchJobs = {} /\ everAdded = 0
  /\ news = NoNews /\ healthEntry = NoHealth
  /\ minder = [m \in Minders |-> AtRest]
  /\ heard = {} /\ lost = {} /\ lagging = {} /\ silent = TRUE /\ crossed = FALSE /\ warnings = {}
-----------------------------------------------------------------------------
Minds(m, step) == minder[m].step = step
GoesTo(m, state) == minder' = [minder EXCEPT ![m] = state]
Rests(m) == GoesTo(m, AtRest)

NewsHistory == <<heard, lost, lagging, silent, crossed>>
TheNews == <<watchJobs, everAdded, news, NewsHistory>>
TheHealth == <<healthEntry, warnings>>

World ==
  /\ \/ subject = "health" /\ hour < MaxHours /\ hour' = hour + 1 /\ UNCHANGED feed
     \/ subject = "news" /\ feed' \in SUBSET Headlines /\ UNCHANGED hour
  /\ UNCHANGED <<subject, TheNews, TheHealth, minder>>

\* A request to start or end the watch is under way.
Requesting(m) == minder[m].step \in {"starting", "seeding", "adding", "ending", "forgetting"}
Crosses(m) == crossed' = (crossed \/ \E o \in Minders \ {m} : Requesting(o))

\* No job of this topic yet: the headlines are read next.
WatchNews(m) ==
  /\ subject = "news" /\ Minds(m, "idle") /\ watchJobs = {}
  /\ GoesTo(m, [AtRest EXCEPT !.step = "starting"])
  /\ Crosses(m)
  /\ UNCHANGED <<subject, feed, hour, watchJobs, everAdded, news, heard, lost, lagging, silent, TheHealth>>

\* The feed may not be readable, which looks like an empty one.
Shown == {feed, {}}

ReadToStart(m, titles) ==
  /\ Minds(m, "starting")
  /\ GoesTo(m, [AtRest EXCEPT !.step = "seeding", !.titles = titles])
  /\ UNCHANGED <<subject, feed, hour, TheNews, TheHealth>>

SeedEntry(m) ==
  /\ Minds(m, "seeding")
  /\ news' = [there |-> TRUE, seeded |-> minder[m].titles # {}, seen |-> minder[m].titles]
  /\ heard' = minder[m].titles /\ silent' = (minder[m].titles = {})
  /\ lost' = {} /\ lagging' = {o \in Minders : Minds(o, "telling")}
  /\ GoesTo(m, [AtRest EXCEPT !.step = "adding"])
  /\ UNCHANGED <<subject, feed, hour, watchJobs, everAdded, crossed, TheHealth>>

AddWatchJob(m) ==
  /\ Minds(m, "adding") /\ everAdded < MaxWatches
  /\ everAdded' = everAdded + 1 /\ watchJobs' = watchJobs \cup {everAdded + 1}
  /\ Rests(m)
  /\ UNCHANGED <<subject, feed, hour, news, NewsHistory, TheHealth>>

\* unwatch lists the jobs, and removes each.
Unwatch(m) ==
  /\ Minds(m, "idle") /\ watchJobs # {}
  /\ GoesTo(m, [AtRest EXCEPT !.step = "ending", !.jobs = watchJobs])
  /\ Crosses(m)
  /\ UNCHANGED <<subject, feed, hour, watchJobs, everAdded, news, heard, lost, lagging, silent, TheHealth>>

RemoveWatchJob(m, j) ==
  /\ Minds(m, "ending") /\ j \in minder[m].jobs
  /\ watchJobs' = watchJobs \ {j}
  /\ LET left == minder[m].jobs \ {j} IN
     GoesTo(m, [minder[m] EXCEPT !.jobs = left, !.step = IF left = {} THEN "forgetting" ELSE "ending"])
  /\ UNCHANGED <<subject, feed, hour, everAdded, news, NewsHistory, TheHealth>>

ForgetNews(m) ==
  /\ Minds(m, "forgetting")
  /\ news' = NoNews
  /\ Rests(m)
  /\ UNCHANGED <<subject, feed, hour, watchJobs, everAdded, NewsHistory, TheHealth>>

\* The ticker runs a job, or somebody types the check; no headlines, no check.
CheckNews(m) ==
  /\ subject = "news" /\ Minds(m, "idle") /\ feed # {}
  /\ GoesTo(m, [AtRest EXCEPT !.step = "checking", !.titles = feed])
  /\ UNCHANGED <<subject, feed, hour, TheNews, TheHealth>>

\* Mutant of SeenAfter: only what is told is remembered.
SeenAfterTelling(m) == IF news.seeded THEN news.seen \cup minder[m].titles ELSE news.seen

\* SEEN_KEPT headlines are kept, far more than a watch meets here.
SeenAfter(m) == news.seen \cup minder[m].titles

Told(m) == IF news.seeded THEN minder[m].titles \ news.seen ELSE {}

\* Under the file's lock; what there is to tell is told after it.
JudgeNews(m) ==
  /\ Minds(m, "checking")
  /\ news' = [there |-> TRUE, seeded |-> TRUE, seen |-> SeenAfter(m)]
  /\ heard' = heard \cup (IF silent THEN minder[m].titles ELSE {})
  /\ silent' = FALSE
  /\ GoesTo(m, IF Told(m) = {} THEN AtRest ELSE [AtRest EXCEPT !.step = "telling", !.titles = Told(m)])
  /\ UNCHANGED <<subject, feed, hour, watchJobs, everAdded, lost, lagging, crossed, TheHealth>>

\* A reminder due now is written to its file.
NotifyNews(m) ==
  /\ Minds(m, "telling")
  /\ heard' = IF m \in lagging THEN heard ELSE heard \cup minder[m].titles
  /\ lagging' = lagging \ {m}
  /\ Rests(m)
  /\ UNCHANGED <<subject, feed, hour, watchJobs, everAdded, news, lost, silent, crossed, TheHealth>>

\* The step that is next fails, for its file cannot be written, or the process dies.
MinderEnds(m) ==
  /\ ~Minds(m, "idle")
  /\ lost' = lost \cup (IF Minds(m, "telling") /\ m \notin lagging THEN minder[m].titles ELSE {})
  /\ lagging' = lagging \ {m}
  /\ Rests(m)
  /\ UNCHANGED <<subject, feed, hour, watchJobs, everAdded, news, heard, silent, crossed, TheHealth>>

-----------------------------------------------------------------------------
(* Health.                                                                 *)

CheckHealth(m, high) ==
  /\ subject = "health" /\ Minds(m, "idle")
  /\ GoesTo(m, [AtRest EXCEPT !.step = "judging", !.high = high, !.at = hour])
  /\ UNCHANGED <<subject, feed, hour, TheNews, TheHealth>>

\* A busy processor counts when the check before saw it busy too.
Found(m) ==
  {k \in minder[m].high : k = "cpu" => healthEntry.cpuHigh}

QuietOver(m, k) ==
  healthEntry.last[k] = NotWarned \/ healthEntry.last[k] + QuietFor <= minder[m].at

WarnedOf(m) == {k \in Found(m) : QuietOver(m, k)}

JudgeHealth(m) ==
  /\ Minds(m, "judging")
  /\ healthEntry' = [cpuHigh |-> "cpu" \in minder[m].high,
                     last |-> [k \in Kinds |-> IF k \in WarnedOf(m) THEN minder[m].at
                                               ELSE healthEntry.last[k]]]
  /\ warnings' = warnings \cup {<<k, minder[m].at>> : k \in WarnedOf(m)}
  /\ GoesTo(m, IF WarnedOf(m) = {} THEN AtRest ELSE [AtRest EXCEPT !.step = "warning"])
  /\ UNCHANGED <<subject, feed, hour, TheNews>>

NotifyHealth(m) ==
  /\ Minds(m, "warning")
  /\ Rests(m)
  /\ UNCHANGED <<subject, feed, hour, TheNews, TheHealth>>

\* Alerts off; its job is removed as a topic's is.
ForgetHealth ==
  /\ subject = "health"
  /\ healthEntry' = NoHealth /\ warnings' = {}
  /\ UNCHANGED <<subject, feed, hour, TheNews, minder>>

WatchesNext ==
  \/ World \/ ForgetHealth
  \/ \E m \in Minders :
       \/ WatchNews(m) \/ SeedEntry(m) \/ AddWatchJob(m) \/ Unwatch(m) \/ ForgetNews(m)
       \/ CheckNews(m) \/ JudgeNews(m) \/ NotifyNews(m) \/ MinderEnds(m)
       \/ JudgeHealth(m) \/ NotifyHealth(m)
       \/ \E titles \in Shown : ReadToStart(m, titles)
       \/ \E j \in WatchJobs : RemoveWatchJob(m, j)
       \/ \E high \in SUBSET Kinds : CheckHealth(m, high)

WatchesSpec == WatchesInit /\ [][WatchesNext]_watchvars
-----------------------------------------------------------------------------
(* Properties.                                                             *)

\* What checks of this watch have marked and are still to tell.
Tellers == {m \in Minders \ lagging : Minds(m, "telling")}
Pending == UNION {minder[m].titles : m \in Tellers}

\* The watch is on, and no two requests that start or end it overlapped since the
\* program began: the end of one forgets what the other saw.
Watched == watchJobs # {} /\ ~crossed

\* While a topic is watched, what a check finds to tell is exactly what was not
\* shown when the watch began and was not found to be told since, however long ago
\* each check read the headlines and whatever checks, ends and beginnings of the
\* watch came in between; nothing, when nothing could be read yet.
FindsWhatIsNew ==
  [][\A m \in Minders :
       JudgeNews(m) /\ Watched =>
         Told(m) = IF silent THEN {} ELSE minder[m].titles \ (heard \cup lost \cup Pending)]_watchvars

\* And what it then tells was told by no other check and not shown when the watch
\* began ("so only what is new is told", tools/watch.py:6).  What an earlier watch
\* found is told late.
TellsNothingTwice ==
  [][\A m \in Minders : NotifyNews(m) /\ Watched /\ m \notin lagging => minder[m].titles \cap heard = {}]_watchvars

\* Two warnings of one kind are QuietFor apart in the time of their readings,
\* in whatever order two readings come to be judged.
WarnsAreApart ==
  \A w, v \in warnings : w[1] = v[1] /\ w[2] < v[2] => w[2] + QuietFor <= v[2]

WatchesKeepQuiet == FindsWhatIsNew /\ TellsNothingTwice /\ []WarnsAreApart
=============================================================================
