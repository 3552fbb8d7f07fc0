------------------------------- MODULE Records -------------------------------
(***************************************************************************)
(* What the assistant notes of itself: the failures it caught              *)
(* (failures.py), how long its turns took (tracing.py), and samples of the *)
(* machine's load (metrics.py).  The three have nothing in common.         *)
(*                                                                         *)
(* The failures are a ring in each process that is written as a whole;     *)
(* the timings are a log that every process appends to and cuts once a     *)
(* day, under the lock of its file, and that ends in a torn line when a    *)
(* process dies at it; a sample is shared by all who ask within its time.  *)
(***************************************************************************)
EXTENDS Integers, Sequences, FiniteSets, SequencesExt

CONSTANTS
  Recorders,     \* processes over one data directory
  KeptFailures,  \* MAX_RECORDS
  RollupDays,
  SampleAskers,  \* threads of one process that ask for a sample
  SampleTtl,     \* _CACHE_TTL_SECONDS, in ticks
  MaxNotes,      \* bounds: failures and timings recorded, torn lines in a log, days, ticks
  MaxTorn, MaxDays, MaxInstants

ASSUME RecordsAssumption ==
  /\ {KeptFailures, SampleTtl} \subseteq Nat \ {0} /\ {RollupDays, MaxNotes, MaxTorn, MaxDays, MaxInstants} \subseteq Nat

VARIABLES
  ring,      \* per process, its failures (or Down), and the file's
  file,
  noted,     \* history: how many failures there were
  saved,     \* history: those that were ever in the file
  blind,     \* history: a process knew not all it held: two had it open, or it could not be read
  log,       \* <name>_timings.jsonl: [id, day]; a line cut short, or such a one and the next
  pruned,    \* _pruned_on of each process
  logger,    \* who holds the log's lock, its timing, and how far it is
  timed,     \* history: the timings whose line was written, and not onto a torn one
  today,
  sample,    \* the cached metrics: when they were stored, or Never
  asking,    \* per asker, where it is in system_metrics, and whether it forces
  instant

failurevars == <<ring, file, noted, saved, blind>>
timingvars == <<log, pruned, logger, timed, today>>
samplevars == <<sample, asking, instant>>
recordvars == <<failurevars, timingvars, samplevars>>

Down == <<0>>
Never == -1
TornLine == [id |-> 0, day |-> 0]
GluedLine == [id |-> 0, day |-> 1]
Unreadable == {TornLine, GluedLine}
Timing == [id : 1..MaxNotes, day : 0..MaxDays]
NoLogger == [who |-> "", step |-> "", timing |-> TornLine]

RecordsTypeOK ==
  /\ \A p \in Recorders : ring[p] = Down \/ ring[p] \in Seq(1..MaxNotes)
  /\ noted \in 0..MaxNotes /\ file \in Seq(1..MaxNotes) /\ Len(file) <= KeptFailures
  /\ ToSet(log) \subseteq Timing \cup Unreadable /\ timed \subseteq Timing
  /\ sample \in {Never} \cup 0..MaxInstants
  /\ asking \in [SampleAskers -> [step : {"", "waiting", "sampling"}, force : BOOLEAN]]

RecordsInit ==
  /\ ring = [p \in Recorders |-> Down] /\ file = <<>> /\ noted = 0 /\ saved = {} /\ blind = FALSE
  /\ log = <<>> /\ pruned = [p \in Recorders |-> Never] /\ logger = NoLogger /\ timed = {} /\ today = 0
  /\ sample = Never /\ asking = [a \in SampleAskers |-> [step |-> "", force |-> FALSE]] /\ instant = 0
-----------------------------------------------------------------------------
Up(p) == ring[p] # Down

\* Those of q that are in S, in their order.
Keeping(q, S) ==
  LET kept[n \in 0..Len(q)] ==
        IF n = 0 THEN <<>> ELSE IF q[n] \in S THEN Append(kept[n - 1], q[n]) ELSE kept[n - 1] IN
    kept[Len(q)]
LastOf(q, n) == SubSeq(q, (IF Len(q) > n THEN Len(q) - n ELSE 0) + 1, Len(q))

\* attach: what the file holds, then what this process has noted and it does not.
Own(p) == IF Up(p) THEN ring[p] ELSE <<>>
Merged(p) == LastOf(file \o Keeping(Own(p), (1..MaxNotes) \ ToSet(file)), KeptFailures)

\* An orchestrator is made: the first one of a process, or another.  A file that cannot
\* be read is passed over, and the next record is written over it.
Attach(p) ==
  /\ \E legible \in BOOLEAN :
       /\ ring' = [ring EXCEPT ![p] = IF legible THEN Merged(p) ELSE Own(p)]
       /\ blind' = (blind \/ ~legible \/ \E q \in Recorders \ {p} : Up(q))
  /\ UNCHANGED <<file, noted, saved>>

\* record: noted, and written with all the others this process knows; a write that
\* fails is passed over.
RecordFailure(p) ==
  LET now == LastOf(Append(ring[p], noted + 1), KeptFailures) IN
    /\ Up(p) /\ noted < MaxNotes
    /\ noted' = noted + 1
    /\ ring' = [ring EXCEPT ![p] = now]
    /\ \/ file' = now /\ saved' = saved \cup ToSet(now)
       \/ UNCHANGED <<file, saved>>
    /\ UNCHANGED blind

\* A process ends: what it had not written is gone.
RecorderEnds(p) ==
  /\ Up(p)
  /\ ring' = [ring EXCEPT ![p] = Down]
  /\ UNCHANGED <<file, noted, saved, blind>>

FailuresNext == \E p \in Recorders : Attach(p) \/ RecordFailure(p) \/ RecorderEnds(p)
-----------------------------------------------------------------------------
DayEnds ==
  /\ today < MaxDays
  /\ today' = today + 1
  /\ UNCHANGED <<log, pruned, logger, timed>>

\* add, of a turn that began today or just before midnight; _pruned_on is set before
\* the prune it is for.
AddTiming(p) ==
  /\ logger = NoLogger
  /\ \E day \in {today, today - 1} \cap Nat, id \in 1..MaxNotes :
       /\ \A t \in timed \cup ToSet(log) : t.id < id
       /\ logger' = [who |-> p, step |-> IF day # pruned[p] THEN "prune" ELSE "append",
                     timing |-> [id |-> id, day |-> day]]
       /\ pruned' = [pruned EXCEPT ![p] = day]
  /\ UNCHANGED <<log, timed, today>>

\* Mutant of StillKept: the last of the days is not counted.
StillKeptOneLess(line) == line \notin Unreadable /\ line.day > logger.timing.day - RollupDays

\* _timings, without what cannot be read, and what is not too old.
StillKept(line) == line \notin Unreadable /\ line.day >= logger.timing.day - RollupDays

\* The log is replaced by what is kept of it; a write that fails gives up on the
\* timing too.
PruneLog(p) ==
  /\ logger.who = p /\ logger.step = "prune"
  /\ \/ log' = Keeping(log, {line \in ToSet(log) : StillKept(line)}) /\ logger' = [logger EXCEPT !.step = "append"]
     \/ logger' = NoLogger /\ UNCHANGED log
  /\ UNCHANGED <<pruned, timed, today>>

\* The line is appended: behind a torn one it is glued to it, cannot be read either, and
\* ends it for the next.
AppendTiming(p) ==
  /\ logger.who = p /\ logger.step = "append"
  /\ logger' = NoLogger
  /\ IF log # <<>> /\ Last(log) = TornLine THEN log' = [log EXCEPT ![Len(log)] = GluedLine] /\ UNCHANGED timed
     ELSE log' = Append(log, logger.timing) /\ timed' = timed \cup {logger.timing}
  /\ UNCHANGED <<pruned, today>>

\* The process ends, and the log's lock is free; its line may be half written.
LoggerEnds(p) ==
  /\ pruned' = [pruned EXCEPT ![p] = Never]
  /\ logger' = IF logger.who = p THEN NoLogger ELSE logger
  /\ \/ UNCHANGED log
     \/ /\ logger.who = p /\ logger.step = "append" /\ (log # <<>> => Last(log) # TornLine)
        /\ Cardinality({i \in 1..Len(log) : log[i] \in Unreadable}) < MaxTorn
        /\ log' = Append(log, TornLine)
  /\ UNCHANGED <<timed, today>>

TimingsNext ==
  \/ DayEnds
  \/ \E p \in Recorders : AddTiming(p) \/ PruneLog(p) \/ AppendTiming(p) \/ LoggerEnds(p)
-----------------------------------------------------------------------------
InstantPasses ==
  /\ instant < MaxInstants
  /\ instant' = instant + 1
  /\ UNCHANGED <<sample, asking>>

IsFresh == sample # Never /\ instant - sample < SampleTtl

\* system_metrics: the cached sample when it is fresh, or a new one behind the lock.
\* On Windows the one who waits is a thread of its own, one at a time.
AskSample(a) ==
  /\ asking[a].step = ""
  /\ \E force \in BOOLEAN :
       /\ force \/ ~IsFresh
       /\ asking' = [asking EXCEPT ![a] = [step |-> "waiting", force |-> force]]
  /\ UNCHANGED <<sample, instant>>

\* _refresh_metrics looks once more when it has the lock.
StillWanted(a) == asking[a].force \/ ~IsFresh

GetTheLock(a) ==
  /\ asking[a].step = "waiting" /\ \A b \in SampleAskers : asking[b].step # "sampling"
  /\ asking' = [asking EXCEPT ![a].step = IF StillWanted(a) THEN "sampling" ELSE ""]
  /\ UNCHANGED <<sample, instant>>

\* What was measured is stored, or when it was tried: an empty one the first time.
StoreSample(a) ==
  /\ asking[a].step = "sampling"
  /\ sample' = instant
  /\ asking' = [asking EXCEPT ![a].step = ""]
  /\ UNCHANGED instant

SamplesNext ==
  \/ InstantPasses
  \/ \E a \in SampleAskers : AskSample(a) \/ GetTheLock(a) \/ StoreSample(a)

RecordsNext ==
  \/ FailuresNext /\ UNCHANGED <<timingvars, samplevars>>
  \/ TimingsNext /\ UNCHANGED <<failurevars, samplevars>>
  \/ SamplesNext /\ UNCHANGED <<failurevars, timingvars>>

RecordsSpec == RecordsInit /\ [][RecordsNext]_recordvars
-----------------------------------------------------------------------------
\* A failure is there once, and outlives the process that caught it: the file is
\* the newest of all that were ever in it, unless two processes wrote it, or one that
\* could not read it.
FailuresOutliveTheProcess ==
  /\ \A p \in Recorders : Cardinality(ToSet(ring[p])) = Len(ring[p])
  /\ Cardinality(ToSet(file)) = Len(file)
  /\ ~blind =>
       ToSet(file) = {id \in saved : Cardinality({other \in saved : other > id}) < KeptFailures}

\* A turn's time is in the log once, for as many days as are kept, whichever process
\* wrote it, cut the log or died at it.
TimingsAreKept ==
  /\ \A t \in timed : t.day >= today - RollupDays => t \in ToSet(log)
  /\ \A i, j \in 1..Len(log) : log[i] = log[j] /\ log[i] \notin Unreadable => i = j

\* What is stored replaces no fresh sample, however long it was measured and whoever
\* waited, but by those who insist.
SamplesAreShared ==
  [][\A a \in SampleAskers : asking[a].step = "sampling" /\ asking'[a].step = "" /\ ~asking[a].force
       => ~IsFresh]_recordvars
=============================================================================
