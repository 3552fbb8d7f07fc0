------------------------------ MODULE Batches ------------------------------
(***************************************************************************)
(* Commands run together (multi), in order (workflow) or unattended        *)
(* (autopilot), the runs that are recorded of them, and the control room   *)
(* that shows which specialists work.  Each process keeps a copy of the    *)
(* recorded runs; a specialist is shared by every command it is named for. *)
(***************************************************************************)
EXTENDS Naturals, Sequences, FiniteSets

CONSTANTS
  Batch,        \* turns that run a batch of commands
  ProcessOf,    \* the process each runs in
  Specialists,  \* the control room's slots
  Planner,      \* the one for commands that name no other, a solve's
  Foreman,      \* the one for the batches themselves
  Width,        \* subtasks at once of a multi (4)
  MostRuns,     \* runs a tracker keeps
  Size,         \* bound: commands in a batch
  MaxRuns       \* bound: runs recorded

ASSUME BatchesAssumption ==
  /\ {Planner, Foreman} \subseteq Specialists
  /\ Width \in Nat \ {0} /\ MostRuns \in Nat \ {0} /\ Size \in Nat \ {0} /\ MaxRuns \in Nat
  /\ IsFiniteSet(Batch)

VARIABLES
  room,       \* each specialist's status
  left,       \* ghost: specialists that a solve left working
  batch,      \* each turn: where it is, what it runs
  sub,        \* the commands of each turn: where they are, their specialists
  stop,       \* turns that Stop was pressed for
  disk,       \* the tracker's file: its runs, and the next run's number
  memory,     \* each process's copy
  recorded    \* ghost: the runs that were recorded, in order

batchvars == <<room, left, batch, sub, stop, disk, memory, recorded>>

Hosts == {ProcessOf[b] : b \in Batch}
Kinds == {"multi", "workflow", "autopilot", "solve"}
Over == {"ok", "failed", "blocked", "stopped"}   \* a command that runs no more
Commands == 1..Size
NotBegun == [i \in Commands |-> [step |-> "waiting", desk |-> Planner]]
Tracker == [runs : Seq(1..MaxRuns), next : 1..(MaxRuns + 1)]

BatchesTypeOK ==
  /\ room \in [Specialists -> {"idle", "working"}] /\ left \subseteq Specialists
  /\ batch \in [Batch -> [step : {"new", "running", "ended", "done"}, kind : Kinds]]
  /\ sub \in [Batch -> [Commands -> [step : {"waiting", "running"} \cup Over, desk : Specialists]]]
  /\ stop \subseteq Batch
  /\ disk \in Tracker /\ memory \in [Hosts -> Tracker]
  /\ recorded \in Seq(1..MaxRuns)

BatchesInit ==
  /\ room = [s \in Specialists |-> "idle"] /\ left = {}
  /\ batch = [b \in Batch |-> [step |-> "new", kind |-> "multi"]]
  /\ sub = [b \in Batch |-> NotBegun]
  /\ stop = {}
  /\ disk = [runs |-> <<>>, next |-> 1] /\ memory = [p \in Hosts |-> disk] /\ recorded = <<>>
-----------------------------------------------------------------------------
Kind(b) == batch[b].kind
BatchAt(b, s) == batch[b].step = s
BatchGoes(b, s) == batch' = [batch EXCEPT ![b].step = s]
SubAt(b, i, s) == sub[b][i].step = s
SubGoes(b, i, s) == sub' = [sub EXCEPT ![b][i].step = s]

\* start and finish of the control room: a slot knows one task, the last one.
\* What a solve left behind is tidied up by the next task that ends there.
StartAt(s) == room' = [room EXCEPT ![s] = "working"] /\ UNCHANGED left
FinishAt(s) == room' = [room EXCEPT ![s] = "idle"] /\ left' = left \ {s}

DeskOf(kind) == IF kind = "solve" THEN Planner ELSE Foreman

\* A turn begins with its own specialist at work.
BatchStarts(b) ==
  /\ BatchAt(b, "new")
  /\ \E kind \in Kinds :
       /\ batch' = [batch EXCEPT ![b] = [step |-> "running", kind |-> kind]]
       /\ StartAt(DeskOf(kind))
  /\ UNCHANGED <<sub, stop, disk, memory, recorded>>

PressStopBatch(b) ==
  /\ BatchAt(b, "running") /\ b \notin stop
  /\ stop' = stop \cup {b}
  /\ UNCHANGED <<room, left, batch, sub, disk, memory, recorded>>

\* Which command may begin: any of a multi while slots are free, the next one
\* of the others, a workflow's only when those before it went well.
MayBegin(b, i) ==
  /\ SubAt(b, i, "waiting")
  /\ CASE Kind(b) = "multi"     -> Cardinality({j \in Commands : SubAt(b, j, "running")}) < Width
       [] Kind(b) = "workflow"  -> \A j \in 1..(i - 1) : SubAt(b, j, "ok")
       [] Kind(b) = "autopilot" -> \A j \in 1..(i - 1) : SubAt(b, j, "ok") \/ SubAt(b, j, "failed")
                                                         \/ SubAt(b, j, "blocked")
       [] Kind(b) = "solve"     -> i = 1

\* A command begins; an autopilot passes over one that is not safe, and a multi
\* that was stopped begins no more of them.
SubStarts(b, i) ==
  /\ BatchAt(b, "running") /\ MayBegin(b, i)
  /\ \/ \E s \in Specialists :
          /\ Kind(b) = "multi" => b \notin stop
          /\ Kind(b) = "solve" => s = Planner
          /\ sub' = [sub EXCEPT ![b][i] = [step |-> "running", desk |-> s]]
          /\ StartAt(s)
     \/ /\ Kind(b) = "autopilot"
        /\ SubGoes(b, i, "blocked") /\ UNCHANGED <<room, left>>
     \/ /\ Kind(b) = "multi" /\ b \in stop
        /\ SubGoes(b, i, "stopped") /\ UNCHANGED <<room, left>>
  /\ UNCHANGED <<batch, stop, disk, memory, recorded>>

SubEnds(b, i) ==
  /\ SubAt(b, i, "running")
  /\ \E how \in {"ok", "failed"} : SubGoes(b, i, how)
  /\ FinishAt(sub[b][i].desk)
  /\ UNCHANGED <<batch, stop, disk, memory, recorded>>

\* Mutant of SubLeaves: a stopped command's specialist is not put back.
SubLeavesWorking(b, i) ==
  /\ SubAt(b, i, "running") /\ b \in stop
  /\ SubGoes(b, i, "stopped")
  /\ IF Kind(b) = "solve" THEN left' = left \cup {sub[b][i].desk} ELSE UNCHANGED left
  /\ UNCHANGED <<room, batch, stop, disk, memory, recorded>>

\* OperationCancelled out of a command: its specialist is put back, except that
\* _solve has no handler and leaves its own working.
SubLeaves(b, i) ==
  /\ SubAt(b, i, "running") /\ b \in stop
  /\ SubGoes(b, i, "stopped")
  /\ IF Kind(b) = "solve"
     THEN left' = left \cup {sub[b][i].desk} /\ UNCHANGED room
     ELSE FinishAt(sub[b][i].desk)
  /\ UNCHANGED <<batch, stop, disk, memory, recorded>>

Finished(b) ==
  /\ \A i \in Commands : ~SubAt(b, i, "running")
  /\ CASE Kind(b) = "workflow" -> \/ \E i \in Commands : SubAt(b, i, "failed")
                                  \/ \A i \in Commands : SubAt(b, i, "ok")
       [] Kind(b) = "solve"    -> sub[b][1].step \in Over
       [] OTHER                -> \A i \in Commands : sub[b][i].step \in Over

\* A run that was stopped is not recorded.  A multi asks once more before it
\* records; the others were stopped only if one of their commands was.
IsStopped(b) ==
  \/ \E i \in Commands : SubAt(b, i, "stopped")
  \/ Kind(b) = "multi" /\ b \in stop /\ \A i \in Commands : sub[b][i].step \in Over

LeaveBatch(b) ==
  /\ BatchAt(b, "running") /\ \A i \in Commands : ~SubAt(b, i, "running")
  /\ IF Kind(b) = "solve" THEN Finished(b)
     ELSE IsStopped(b) /\ (Kind(b) = "multi" => Finished(b))
  /\ BatchGoes(b, "ended")
  /\ UNCHANGED <<room, left, sub, stop, disk, memory, recorded>>

Latest(runs) == SubSeq(runs, IF Len(runs) > MostRuns THEN Len(runs) - MostRuns + 1 ELSE 1, Len(runs))
WithRun(tracker) ==
  [runs |-> Latest(Append(tracker.runs, tracker.next)), next |-> tracker.next + 1]

\* record_run reads the file again, which another process may have written.
Refreshed(p) == disk

\* record_run: under the file's lock the runs are read, one is added, and they
\* are written; when the write fails, the process remembers the run all the same.
RecordRun(b) ==
  /\ BatchAt(b, "running") /\ Kind(b) # "solve" /\ Finished(b) /\ ~IsStopped(b)
  /\ LET p == ProcessOf[b]
         before == Refreshed(p)
     IN  /\ before.next <= MaxRuns
         /\ memory' = [memory EXCEPT ![p] = WithRun(before)]
         /\ \/ disk' = WithRun(before) /\ recorded' = Append(recorded, before.next)
            \/ UNCHANGED <<disk, recorded>>
  /\ BatchGoes(b, "ended")
  /\ UNCHANGED <<room, left, sub, stop>>

\* The turn's own specialist is put back however the turn ended.
BatchEnds(b) ==
  /\ BatchAt(b, "ended")
  /\ BatchGoes(b, "done")
  /\ FinishAt(DeskOf(Kind(b)))
  /\ sub' = [sub EXCEPT ![b] = NotBegun]
  /\ UNCHANGED <<stop, disk, memory, recorded>>

BatchesNext ==
  \E b \in Batch :
    \/ BatchStarts(b) \/ PressStopBatch(b) \/ LeaveBatch(b) \/ RecordRun(b) \/ BatchEnds(b)
    \/ \E i \in Commands : SubStarts(b, i) \/ SubEnds(b, i) \/ SubLeaves(b, i)

BatchesSpec == BatchesInit /\ [][BatchesNext]_batchvars
-----------------------------------------------------------------------------
\* Something runs at a specialist's desk.
AtWork(s) ==
  \E b \in Batch :
    \/ batch[b].step \in {"running", "ended"} /\ DeskOf(Kind(b)) = s
    \/ \E i \in Commands : SubAt(b, i, "running") /\ sub[b][i].desk = s

\* A specialist is shown working only while something runs there, or since a
\* solve was stopped there (control_room.py, webui.py's _handle_command).
IdleWhenNothingRuns == \A s \in Specialists \ left : room[s] = "working" => AtWork(s)

\* The file holds the latest of the runs that were recorded, each with a number
\* of its own, whichever of the processes recorded them.
RunsAreKept ==
  /\ disk.runs = Latest(recorded)
  /\ \A i, j \in 1..Len(recorded) : i < j => recorded[i] < recorded[j]

\* What runs at once, in whichever order it begins, ends, fails or is stopped,
\* is accounted for: nobody is left shown at work, and no run is lost or shares
\* its number with another.
BatchesAreAccountedFor == IdleWhenNothingRuns /\ RunsAreKept
=============================================================================
