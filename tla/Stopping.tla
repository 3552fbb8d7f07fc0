------------------------------ MODULE Stopping ------------------------------
(***************************************************************************)
(* Stop (cancellation.py): a page's stop names the request it is for, may  *)
(* arrive before that request, and must end it wherever it is, in a read   *)
(* from a model's socket too.  Work is done between two looks at the stop  *)
(* (check_cancelled); a read blocks until something comes, or until stop   *)
(* shuts the socket down.  A lookup (nvcf.py) instead reads on a thread of *)
(* its own, and the request polls.                                         *)
(***************************************************************************)
EXTENDS Naturals, FiniteSets

CONSTANTS
  Calls,        \* request ids; a page makes a new one for each request
  MaxAge,       \* how long a stop that came first is kept, in ticks
  MaxPending,   \* stops kept at once
  MaxMoments    \* bound: the clock

ASSUME StoppingAssumption ==
  MaxAge \in Nat \ {0} /\ MaxPending \in Nat /\ MaxMoments \in Nat

VARIABLES
  moment,   \* the monotonic clock
  pending,  \* _pending: until when each stop that came first is kept
  call,     \* each request's thread
  halted,   \* its operation's stopped flag is set
  sockets,  \* its sockets that stop would shut down
  shut,     \* its socket was shut down, or ended
  pressed,  \* ghost: when Stop was pressed for it, or Unpressed
  began,    \* ghost: when it began
  crowded   \* ghost: stops that came first and found no room

Ghosts == <<pressed, began, crowded>>
stopvars == <<moment, pending, call, halted, sockets, shut, pressed, began, crowded>>

Moments == 0..MaxMoments
Unpressed == MaxMoments + 1
CallSteps == {"new", "checking", "working", "opened", "listed", "reading", "polling", "leaving", "done"}

StoppingTypeOK ==
  /\ moment \in Moments
  /\ pending \in [Calls -> 0..(MaxMoments + MaxAge)]
  /\ Cardinality({c \in Calls : pending[c] > 0}) <= MaxPending
  /\ call \in [Calls -> CallSteps]
  /\ halted \subseteq Calls /\ sockets \subseteq Calls /\ shut \subseteq Calls
  /\ pressed \in [Calls -> 0..Unpressed] /\ began \in [Calls -> Moments]
  /\ crowded \subseteq Calls

StoppingInit ==
  /\ moment = 0
  /\ pending = [c \in Calls |-> 0]
  /\ call = [c \in Calls |-> "new"]
  /\ halted = {} /\ sockets = {} /\ shut = {}
  /\ pressed = [c \in Calls |-> Unpressed] /\ began = [c \in Calls |-> 0]
  /\ crowded = {}
-----------------------------------------------------------------------------
CallGoes(c, from, to) == call[c] = from /\ call' = [call EXCEPT ![c] = to]
Running == {c \in Calls : call[c] \notin {"new", "done"}}

StillKept(c) == pending[c] > moment

MomentPasses ==
  /\ moment < MaxMoments
  /\ moment' = moment + 1
  /\ UNCHANGED <<pending, call, halted, sockets, shut, Ghosts>>

\* Mutant of Room: the bound is not looked at.
RoomForAny(kept) == TRUE

Room(kept) == Cardinality(kept) < MaxPending

\* cancel: old stops are dropped; one for a request that is not running is kept
\* for a minute if there is room, one that runs is flagged and its sockets shut.
PressStop(c) ==
  /\ pressed[c] = Unpressed
  /\ pressed' = [pressed EXCEPT ![c] = moment]
  /\ LET kept == {d \in Calls : pending[d] >= moment /\ pending[d] > 0} IN
       IF c \in Running
       THEN /\ halted' = halted \cup {c}
            /\ shut' = shut \cup (sockets \cap {c})
            /\ pending' = [d \in Calls |-> IF d \in kept THEN pending[d] ELSE 0]
            /\ UNCHANGED crowded
       ELSE /\ pending' = [d \in Calls |->
                 IF d = c /\ Room(kept) THEN moment + MaxAge
                 ELSE IF d \in kept THEN pending[d] ELSE 0]
            /\ crowded' = IF Room(kept) THEN crowded ELSE crowded \cup {c}
            /\ UNCHANGED <<halted, shut>>
  /\ UNCHANGED <<moment, call, sockets, began>>

\* operation: the request begins, and takes the stop that came before it.
CallBegins(c) ==
  /\ CallGoes(c, "new", "checking")
  /\ halted' = IF StillKept(c) THEN halted \cup {c} ELSE halted
  /\ pending' = [pending EXCEPT ![c] = 0]
  /\ began' = [began EXCEPT ![c] = moment]
  /\ UNCHANGED <<moment, sockets, shut, pressed, crowded>>

\* check_cancelled: the request leaves, or does its next piece of work.
CheckStop(c) ==
  /\ IF c \in halted THEN CallGoes(c, "checking", "leaving") ELSE CallGoes(c, "checking", "working")
  /\ UNCHANGED <<moment, pending, halted, sockets, shut, Ghosts>>

\* A piece of work is done, be it an urlopen that ends with its timeout at the
\* latest: a look at the stop comes next, a response to read, a lookup to wait
\* for, or the request has its answer.
WorkDone(c) ==
  /\ \E next \in {"checking", "opened", "polling", "leaving"} : CallGoes(c, "working", next)
  /\ shut' = shut \ {c}
  /\ UNCHANGED <<moment, pending, halted, sockets, Ghosts>>

\* Mutant of ListSocket: the stop is not looked at once the socket is listed.
ListAndRead(c) ==
  /\ CallGoes(c, "opened", "reading")
  /\ sockets' = sockets \cup {c}
  /\ UNCHANGED <<moment, pending, halted, shut, Ghosts>>

\* interruptible_response: the socket is listed, and then the stop looked at.
ListSocket(c) ==
  /\ CallGoes(c, "opened", "listed")
  /\ sockets' = sockets \cup {c}
  /\ UNCHANGED <<moment, pending, halted, shut, Ghosts>>

ReadIfNotStopped(c) ==
  /\ IF c \in halted THEN CallGoes(c, "listed", "leaving") ELSE CallGoes(c, "listed", "reading")
  /\ sockets' = IF c \in halted THEN sockets \ {c} ELSE sockets
  /\ UNCHANGED <<moment, pending, halted, shut, Ghosts>>

\* A line comes: the loop looks at the stop before the next one.
LineComes(c) ==
  /\ CallGoes(c, "reading", "listed")
  /\ UNCHANGED <<moment, pending, halted, sockets, shut, Ghosts>>

\* The answer ends, or the socket was shut down.
ReadEnds(c) ==
  /\ CallGoes(c, "reading", "checking")
  /\ sockets' = sockets \ {c}
  /\ UNCHANGED <<moment, pending, halted, shut, Ghosts>>

\* _list_with_deadline: looks ten times a second, until the answer or the deadline.
PollEnds(c) ==
  /\ CallGoes(c, "polling", "checking")
  /\ UNCHANGED <<moment, pending, halted, sockets, shut, Ghosts>>

CallLeaves(c) ==
  /\ CallGoes(c, "leaving", "done")
  /\ UNCHANGED <<moment, pending, halted, sockets, shut, Ghosts>>

\* What the thread of a request does by itself, whatever a model's server does.
OwnStep(c) ==
  \/ CheckStop(c) \/ WorkDone(c) \/ ListSocket(c) \/ ReadIfNotStopped(c)
  \/ (c \in shut /\ ReadEnds(c)) \/ (c \in halted /\ PollEnds(c)) \/ CallLeaves(c)

StoppingNext ==
  \/ MomentPasses
  \/ \E c \in Calls :
       PressStop(c) \/ CallBegins(c) \/ OwnStep(c) \/ LineComes(c) \/ ReadEnds(c) \/ PollEnds(c)

StoppingFairness == \A c \in Calls : WF_stopvars(OwnStep(c))

StoppingSpec == StoppingInit /\ [][StoppingNext]_stopvars /\ StoppingFairness
-----------------------------------------------------------------------------
\* A request that works although Stop was pressed for it does so because the
\* stop came a minute or more before it, or found no room to be kept.
EarlyStopIsKept ==
  \A c \in Calls :
    call[c] \in {"working", "opened", "listed", "reading", "polling"} /\ c \notin halted =>
      pressed[c] = Unpressed \/ pressed[c] + MaxAge <= began[c] \/ c \in crowded

\* A request that is stopped while it runs leaves, though the model it waits
\* for never says another word.
StoppedCallLeaves == \A c \in Calls : (c \in halted) ~> (call[c] = "done")

\* Stop stops the request it was pressed for: one that has not begun, and one
\* that hangs.
StopIsObeyed == []EarlyStopIsKept /\ StoppedCallLeaves
=============================================================================
