------------------------------ MODULE Replies ------------------------------
(***************************************************************************)
(* Two ways the assistant takes a few words for more.                      *)
(*                                                                         *)
(* Naming: which reminder, timer, alarm or repeating reminder a spoken     *)
(* command is about (orchestrator._find_reminder, _ringing, _reminder_stop *)
(* and their kind): the one that rings first, then by number, "last" or    *)
(* words; when several fit the assistant asks "Which one?", and the next   *)
(* thing said in that conversation may be the answer (_follow_up).  What a *)
(* command does once it has found its reminder, and races with, is in      *)
(* Reminders: here a command is one step.  Another window may give one     *)
(* between a question and its answer.                                      *)
(*                                                                         *)
(* Follow-ups: a short reply to what the assistant just said (_follow_up,  *)
(* _asked_again, _unclear_items_answer).  "Remind me" is answered with a   *)
(* question; the answer, which no tool could do anything with, is made     *)
(* into the request it completes from the two turns before it.  A computed *)
(* answer is asked again with one thing changed.  Of a text the model      *)
(* keeps what it asks for and what it says.                                *)
(***************************************************************************)
EXTENDS Naturals, Sequences, FiniteSets, SequencesExt, FiniteSetsExt

CONSTANTS
  Subjects,   \* what may be set: [words, kind], kind "timer", "alarm" or "reminder"
  Sayings,    \* the words a command may name one by, <<"last">> or <<>>
  MaxSet,     \* bound: reminders and repeating reminders ever set
  LastMoment  \* bound: the clock

ASSUME NamingAssumption ==
  /\ \A s \in Subjects : s.words # {} /\ s.kind \in {"timer", "alarm", "reminder"}
  /\ \A said \in Sayings : said \in Seq(STRING)
  /\ MaxSet \in Nat /\ LastMoment \in Nat

VARIABLES
  moment,   \* now
  set,      \* the active reminders: id -> what it is about, and when it is due
  repeats,  \* the repeating ones, jobs of the scheduler: id -> what it is about
  nextId,
  asked     \* the question asked last, if the last answer was one: the verb, the words, the ids listed

namingvars == <<moment, set, repeats, nextId, asked>>

Moments == 0..LastMoment
Numbers == 1..MaxSet
NoQuestion == [verb |-> "none", said |-> <<>>, ids |-> <<>>]
Said == [id : {0}, words : Sayings] \cup [id : Numbers, words : {<<>>}]

NamingTypeOK ==
  /\ moment \in Moments /\ nextId \in 1..(MaxSet + 1)
  /\ DOMAIN set \cup DOMAIN repeats \subseteq 1..(nextId - 1) /\ DOMAIN set \cap DOMAIN repeats = {}
  /\ \A i \in DOMAIN set : set[i].about \in Subjects /\ set[i].due \in Moments
  /\ \A j \in DOMAIN repeats : repeats[j] \in Subjects
  /\ asked.verb \in {"none", "delete", "done", "snooze"} /\ ToSet(asked.ids) \subseteq Numbers

NamingInit ==
  /\ moment = 0 /\ set = <<>> /\ repeats = <<>> /\ nextId = 1 /\ asked = NoQuestion
-----------------------------------------------------------------------------
Rings(i) == i \in DOMAIN set /\ set[i].due <= moment
Without(f, S) == [i \in DOMAIN f \ S |-> f[i]]
Also(f, new, what) == [i \in DOMAIN f \cup {new} |-> IF i = new THEN what ELSE f[i]]

\* list(): what is due soonest is first, and of those the one that was set first.
Before(i, j) == set[i].due < set[j].due \/ (set[i].due = set[j].due /\ i < j)
InOrder(S) == CHOOSE q \in [1..Cardinality(S) -> S] : \A n, m \in 1..Cardinality(S) : n < m => Before(q[n], q[m])

\* `all(word in message ...)`: "last", "it" and the like are not looked for.
Wanted(said) == ToSet(said.words) \ {"last"}
Bears(i, said) == Wanted(said) \subseteq set[i].about.words

\* _ringing: of those going off the one due soonest, unless a number was said.
Ringing(said) == IF said.id # 0 THEN {} ELSE {i \in DOMAIN set : Rings(i) /\ Bears(i, said)}
RingsFirst(said) == InOrder(Ringing(said))[1]

\* _find_reminder: {one}, or {} with the ids to ask about, if any.
Nothing == [found |-> {}, ids |-> <<>>]
One(i) == [found |-> {i}, ids |-> <<>>]
OrAsk(S) == [found |-> {}, ids |-> InOrder(S)]
FindReminder(said) ==
  LET active == DOMAIN set
      matches == {i \in active : Bears(i, said)}
      byKind == said.words # <<>> /\ said.words[1] \in {"timer", "alarm"}
      ringing == {i \in matches : Rings(i)} IN
    CASE said.id # 0 -> IF said.id \in active THEN One(said.id) ELSE Nothing
      [] said.id = 0 /\ active = {} -> Nothing
      [] said.id = 0 /\ active # {} /\ said.words = <<>> ->
           IF Cardinality(active) > 1 THEN OrAsk(active) ELSE One(Max(active))
      [] said.id = 0 /\ active # {} /\ said.words = <<"last">> -> One(Max(active))
      [] OTHER ->
           IF Cardinality(matches) > 1 /\ byKind /\ ringing # {} THEN One(InOrder(ringing)[1])
           ELSE IF Cardinality(matches) = 1 \/ (matches # {} /\ byKind) THEN One(Max(matches))
           ELSE OrAsk(matches)

\* The conversation's next answer: a question with numbers, or none.  A command of
\* another window leaves this one's question as it is.
Answers(verb, said, ids) ==
  \/ asked' = IF ids = <<>> \/ verb = "none" THEN NoQuestion ELSE [verb |-> verb, said |-> said.words, ids |-> ids]
  \/ UNCHANGED asked

MomentPasses ==
  /\ moment < LastMoment
  /\ moment' = moment + 1
  /\ UNCHANGED <<set, repeats, nextId, asked>>

\* _set_reminder, _timer, _alarm: once at `due`; or _repeating_reminder, unless the
\* same is set already (no two schedules of one subject here).
SetReminder(about, due) ==
  /\ nextId <= MaxSet
  /\ set' = Also(set, nextId, [about |-> about, due |-> due]) /\ nextId' = nextId + 1
  /\ Answers("none", <<>>, <<>>)
  /\ UNCHANGED <<moment, repeats>>

SetRepeating(about) ==
  /\ about.kind # "timer" /\ nextId <= MaxSet /\ \A j \in DOMAIN repeats : repeats[j] # about
  /\ repeats' = Also(repeats, nextId, about) /\ nextId' = nextId + 1
  /\ Answers("none", <<>>, <<>>)
  /\ UNCHANGED <<moment, set>>

\* The scheduler runs `reminder add now ...`.
RepeatFalls(j) ==
  /\ j \in DOMAIN repeats /\ nextId <= MaxSet
  /\ set' = Also(set, nextId, [about |-> repeats[j], due |-> moment]) /\ nextId' = nextId + 1
  /\ UNCHANGED <<moment, repeats, asked>>
-----------------------------------------------------------------------------
Ends(S) == set' = Without(set, S) /\ UNCHANGED <<moment, nextId>>
PutOffTo(i, due) == set' = [set EXCEPT ![i].due = due] /\ UNCHANGED <<moment, repeats, nextId>>
LeaveAll == UNCHANGED <<moment, set, repeats, nextId>>

\* complete, or nothing when there is none.
Completes(said) == Ends(FindReminder(said).found) /\ UNCHANGED repeats
ReminderDone(said) == Completes(said) /\ Answers("done", said, FindReminder(said).ids)

\* _reminder_remove: "the one going off now comes first", else a repeating one, else one
\* that is set.  Words of no meaning, like "the", are in every repeating one.
RepeatsFor(said) == {j \in DOMAIN repeats : said.id = 0 /\ ToSet(said.words) \subseteq repeats[j].words}

RemovesRinging(said) ==
  Ringing(said) # {} /\ Ends({RingsFirst(said)}) /\ UNCHANGED repeats
RemovesRepeating(said) ==
  /\ Ringing(said) = {} /\ RepeatsFor(said) # {}
  /\ repeats' = Without(repeats, {Min(RepeatsFor(said))}) /\ UNCHANGED <<moment, set, nextId>>
RemovesFound(said) ==
  /\ Ringing(said) = {} /\ (RepeatsFor(said) = {} \/ said.words = <<>>)
  /\ Ends(FindReminder(said).found) /\ UNCHANGED repeats
Removes(said) == RemovesRinging(said) \/ RemovesRepeating(said) \/ RemovesFound(said)

ReminderRemove(said) ==
  \/ (RemovesRinging(said) \/ RemovesRepeating(said)) /\ Answers("none", said, <<>>)
  \/ RemovesFound(said) /\ Answers("delete", said, FindReminder(said).ids)

\* _reminder_stop: what rings, else one with "timer" in its message; anything else
\* is only described.
ReminderStop(said) ==
  LET it == IF said = [id |-> 0, words |-> <<>>] THEN Nothing ELSE FindReminder(said) IN
    /\ IF Ringing(said) # {} THEN Ends({RingsFirst(said)})
       ELSE Ends({i \in it.found : "timer" \in set[i].about.words})
    /\ UNCHANGED repeats
    /\ Answers("none", said, <<>>)

\* _reminder_snooze: the one named, or of those going off the one due last.
ToSnooze(said) ==
  LET ringing == {i \in DOMAIN set : Rings(i)}
      latest == {i \in ringing : \A j \in ringing : set[j].due <= set[i].due} IN
    IF said # [id |-> 0, words |-> <<>>] THEN FindReminder(said)
    ELSE IF ringing = {} THEN Nothing ELSE One(Min(latest))
Snoozes(said) ==
  /\ moment < LastMoment
  /\ \/ ToSnooze(said).found = {} /\ LeaveAll
     \/ \E i \in ToSnooze(said).found : PutOffTo(i, moment + 1)
ReminderSnooze(said) == Snoozes(said) /\ Answers("snooze", said, ToSnooze(said).ids)

\* _reminder_move: to any time said.
ReminderMove(said) ==
  /\ \/ FindReminder(said).found = {} /\ LeaveAll
     \/ \E i \in FindReminder(said).found, due \in moment..LastMoment : PutOffTo(i, due)
  /\ Answers("none", said, <<>>)

\* _timer_extend: more time on the one timer that runs, or the one of that name.
IsTimer(i) == set[i].about.kind = "timer"
TimerExtend(said) ==
  LET running == {i \in DOMAIN set : IsTimer(i) /\ (said.words = <<>> \/ set[i].about.words = ToSet(said.words) \cup {"timer"})} IN
    /\ said.id = 0 /\ said.words # <<"last">>
    /\ \/ Cardinality(running) # 1 /\ LeaveAll
       \/ \E i \in running, due \in Moments :
            Cardinality(running) = 1 /\ due = Max({set[i].due, moment}) + 1 /\ PutOffTo(i, due)
    /\ Answers("none", said, <<>>)

\* _remove_all: all, or those with the kind in their words; more than one behind a card.
RemovesAll(kind) ==
  \/ /\ Ends({i \in DOMAIN set : kind = "all" \/ kind \in set[i].about.words})
     /\ repeats' = IF kind = "all" THEN <<>> ELSE repeats
  \/ Cardinality(DOMAIN set \cup DOMAIN repeats) > 1 /\ LeaveAll
RemoveAll(kind) == RemovesAll(kind) /\ Answers("none", <<>>, <<>>)
-----------------------------------------------------------------------------
\* _follow_up: an ordinal is counted in the list that was asked about.
Chosen(ordinal) == asked.ids[ordinal]

\* The answer is made into the command the question was about, which runs as any other; a
\* question it may ask in turn is about no command, so no answer is made into one again.
Does(said) ==
  \/ asked.verb = "delete" /\ Removes(said)
  \/ asked.verb = "done" /\ Completes(said)
  \/ asked.verb = "snooze" /\ Snoozes(said)

\* By its place in the list, or by a number that is in it.
PickWhichOne(ordinal) ==
  /\ ordinal \in 1..Len(asked.ids)
  /\ Does([id |-> Chosen(ordinal), words |-> <<>>]) /\ asked' = NoQuestion

\* `else spoken`: any words, or a number that is not in the list, are looked for among all.
NameWhichOne(said) ==
  /\ asked # NoQuestion /\ said.id \notin ToSet(asked.ids)
  /\ Does(said) /\ asked' = NoQuestion

\* "all" is what _reminder_remove takes it for.
AllOfThem(kind) == asked.verb = "delete" /\ RemovesAll(kind) /\ asked' = NoQuestion

\* An ordinal past the list raises, and is answered with an apology; or it is no answer.
NoneOfThem == asked # NoQuestion /\ LeaveAll /\ asked' = NoQuestion

Kinds == {"all", "timer", "alarm"}

NamingNext ==
  \/ MomentPasses \/ NoneOfThem
  \/ \E ordinal \in Numbers : PickWhichOne(ordinal)
  \/ \E about \in Subjects : SetRepeating(about) \/ \E due \in Moments : SetReminder(about, due)
  \/ \E j \in Numbers : RepeatFalls(j)
  \/ \E kind \in Kinds : RemoveAll(kind) \/ AllOfThem(kind)
  \/ \E said \in Said :
       \/ ReminderDone(said) \/ ReminderRemove(said) \/ ReminderStop(said)
       \/ ReminderSnooze(said) \/ ReminderMove(said) \/ TimerExtend(said)
       \/ NameWhichOne(said)

NamingSpec == NamingInit /\ [][NamingNext]_namingvars
-----------------------------------------------------------------------------
\* What a step ends or puts off: reminders and repeating reminders.
ActedOn ==
  {i \in DOMAIN set : i \notin DOMAIN set' \/ set'[i] # set[i]} \cup {j \in DOMAIN repeats : j \notin DOMAIN repeats'}
AboutOf(i) == IF i \in DOMAIN set THEN set[i].about ELSE repeats[i]

\* A command that names a reminder, or the answer to "Which one?" that names one, acts on
\* one, and that one bears the words; while something they name is going off, to stop or
\* cancel ends that and nothing that is set for later (_reminder_stop, _reminder_remove).
ActsOnTheNamed ==
  [][\A named \in [id : {0}, words : Sayings] :
       /\ \/ Cardinality(ActedOn) <= 1 /\ \A i \in ActedOn : Wanted(named) \subseteq AboutOf(i).words
          \/ ~(ReminderDone(named) \/ ReminderRemove(named) \/ ReminderStop(named)
               \/ ReminderSnooze(named) \/ ReminderMove(named) \/ NameWhichOne(named))
       /\ Ringing(named) # {} =>
            \/ ActedOn # {} /\ ActedOn \subseteq Ringing(named)
            \/ ~(ReminderRemove(named) \/ ReminderStop(named) \/ (asked.verb = "delete" /\ NameWhichOne(named)))]_namingvars

\* The answer to "Which one?" by its place acts on the one that stood there, and that is
\* still one the question was about, whatever another window set, ended or put off
\* meanwhile; by a number that was not listed, on the one of that number or none
\* (_follow_up).
AnswersTheQuestion ==
  [][\A n \in Numbers :
       /\ PickWhichOne(n) =>
            /\ ActedOn \subseteq {asked.ids[n]}
            /\ \A i \in ActedOn : ToSet(asked.said) \ {"last"} \subseteq AboutOf(i).words
       /\ ActedOn \subseteq {n} \/ ~NameWhichOne([id |-> n, words |-> <<>>])]_namingvars

TheRightOneIsNamed == ActsOnTheNamed /\ AnswersTheQuestion
-----------------------------------------------------------------------------
CONSTANTS MaxSaid  \* bound: turns

ASSUME FollowUpsAssumption == MaxSaid \in Nat

\* What each request must say before it can be done.
Wants == [reminder |-> {"what", "when"}, timer |-> {"when"}, alarm |-> {"when"},
          list |-> {"what"}, fact |-> {"what"}]
Asking == DOMAIN Wants
Pieces == {"what", "when", "day"}

\* asks "no": a refusal or a question; "yes"; "chat": small talk, or a request that is none
\* of these; "words": none of them.
Text == [asks : Asking \cup {"words", "yes", "no", "chat"}, has : SUBSET Pieces]
Texts ==
  {t \in Text :
     /\ t.asks \in {"yes", "no", "chat"} => t.has = {}
     /\ t.asks = "words" => t.has # {}
     /\ t.asks \in Asking => t.has \subseteq Wants[t.asks] \cup (IF t.asks = "alarm" THEN {"day"} ELSE {})}
NoText == [asks |-> "words", has |-> {}]

Questions == {"about", "time", "timer", "alarm", "day", "list", "unclear", "fact", "computed"}

VARIABLES
  before,   \* the user's last text, as it was sent
  question, \* what the last reply asked, or "computed" for one that can be asked again
  figures,  \* of a computed answer: the two things it was computed from
  spoken,   \* turns
  pending,  \* ghost: what the conversation has asked for, and all it said of it
  queries,   \* ghost: how many questions that took
  last,     \* ghost: the request done last, NoText if the last turn did none
  meant     \* ghost: the two things the user last asked about

followvars == <<before, question, figures, spoken, pending, queries, last, meant>>

Figures == (1..2) \X (1..2)

FollowUpsTypeOK ==
  /\ before \in Text /\ question \in Questions \cup {"none"} /\ figures \in Figures /\ meant \in Figures
  /\ spoken \in 0..MaxSaid /\ pending \in Text /\ queries \in 0..MaxSaid /\ last \in Text

FollowUpsInit ==
  /\ before = NoText /\ question = "none" /\ figures = <<1, 1>> /\ meant = <<1, 1>>
  /\ spoken = 0 /\ pending = NoText /\ queries = 0 /\ last = NoText
-----------------------------------------------------------------------------
\* _NOT_AN_ANSWER and the router: a refusal, a question or a request of its own answers
\* nothing.
AnswersNothing(t) == t.asks # "words"

\* _unclear_items_answer: "as 3 items?" may be answered yes, no, or with the items again.
AnswersUnclear(t) == t.asks \in {"yes", "no"} \/ (t.asks = "words" /\ "what" \in t.has)

\* The words are taken as what the question asks for, whatever they are.
Taken(t) == t.has \cup (IF question \in {"list", "fact"} THEN {"what"} ELSE {})

\* _follow_up: the request a reply completes, or the reply as it is.  Only the last text of
\* the user's is looked at: an answer that was itself one of two is all there is of it.
Completed(t) ==
  IF question = "unclear" /\ AnswersUnclear(t) THEN [asks |-> "list", has |-> {"what"}]
  ELSE IF AnswersNothing(t) THEN t
  ELSE CASE question = "timer" /\ "when" \in t.has -> [asks |-> "timer", has |-> {"when"}]
         [] question = "alarm" -> [asks |-> "alarm", has |-> t.has]
         [] question = "day" -> [asks |-> "alarm", has |-> t.has \cup {"day"}]
         [] question = "list" -> [asks |-> "list", has |-> Taken(t)]
         [] question = "about" /\ before # NoText -> [before EXCEPT !.has = @ \cup t.has]
         [] question = "time" /\ before # NoText /\ "when" \in t.has -> [before EXCEPT !.has = @ \cup t.has]
         [] question = "fact" -> [asks |-> "fact", has |-> Taken(t)]
         [] OTHER -> t

\* _set_reminder, _timer, _alarm and their kind: what is asked of a request that cannot be
\* done yet.
Lacks(r) ==
  CASE r.asks = "reminder" -> IF "what" \in r.has THEN "time" ELSE "about"
    [] r.asks = "alarm" -> IF "day" \in r.has THEN "day" ELSE "alarm"
    [] OTHER -> r.asks

CanBeDone(r) == r.asks \in Asking /\ Wants[r.asks] \subseteq r.has

\* The ghosts: a request begins anew, words go on with it, anything else leaves it.
GoesOn(t) == IF question = "unclear" THEN AnswersUnclear(t) ELSE question \notin {"none", "computed"} /\ t.asks = "words"
Pends(t) ==
  pending' = IF t.asks \in Asking THEN t
             ELSE IF GoesOn(t) THEN [pending EXCEPT !.has = @ \cup Taken(t)]
             ELSE NoText

Say(t) ==
  LET r == Completed(t) IN
  /\ spoken < MaxSaid /\ spoken' = spoken + 1
  /\ before' = t
  /\ Pends(t)
  /\ queries' = IF t.asks \in Asking THEN 0 ELSE queries + 1
  /\ \/ CanBeDone(r) /\ last' = r /\ question' = "none"
     \/ r.asks = "list" /\ CanBeDone(r) /\ question # "unclear" /\ question' = "unclear" /\ last' = NoText
     \/ r.asks \in Asking /\ ~CanBeDone(r) /\ question' = Lacks(r) /\ last' = NoText
     \/ r.asks \notin Asking /\ question' = "none" /\ last' = NoText
  /\ UNCHANGED <<figures, meant>>

\* A sum, a conversion, a time elsewhere, days until something.
Compute(f) ==
  /\ spoken < MaxSaid /\ spoken' = spoken + 1
  /\ figures' = f /\ meant' = f /\ question' = "computed"
  /\ before' = [NoText EXCEPT !.asks = "chat"] /\ pending' = NoText /\ queries' = 0 /\ last' = NoText

\* _asked_again reads both off the answer, which shows them.
AskedAgain(i, v) == [figures EXCEPT ![i] = v]

ComputeAgain(i, v) ==
  /\ question = "computed" /\ spoken < MaxSaid /\ spoken' = spoken + 1
  /\ figures' = AskedAgain(i, v) /\ meant' = [meant EXCEPT ![i] = v]
  /\ before' = [NoText EXCEPT !.asks = "chat"] /\ pending' = NoText /\ queries' = 0 /\ last' = NoText
  /\ UNCHANGED question

FollowUpsNext ==
  \/ \E t \in Texts : Say(t)
  \/ \E f \in Figures : Compute(f)
  \/ \E i \in 1..2, v \in 1..2 : ComputeAgain(i, v)

FollowUpsSpec == FollowUpsInit /\ [][FollowUpsNext]_followvars
-----------------------------------------------------------------------------
\* What is done was asked for in this conversation, by nobody else's words and of no other
\* kind: a reply is not made into a request it was not an answer to.
NothingIsPutInAMouth ==
  last # NoText => last.asks = pending.asks /\ last.has \subseteq pending.has

\* One question, answered with what it lacked, is enough: the request is done, and with all
\* that was said of it.
OneQuestionIsEnough ==
  (queries = 1 /\ pending.asks \in Asking /\ Wants[pending.asks] \subseteq pending.has /\ question # "unclear")
    => last.asks = pending.asks /\ Wants[last.asks] \subseteq last.has

\* Asked again, a computed answer keeps what was not changed, over any number of turns.
AskedAgainOfThisAnswer == question = "computed" => figures = meant

RepliesAreUnderstood == NothingIsPutInAMouth /\ OneQuestionIsEnough /\ AskedAgainOfThisAnswer
=============================================================================
