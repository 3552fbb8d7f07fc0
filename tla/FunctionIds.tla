---------------------------- MODULE FunctionIds ----------------------------
(***************************************************************************)
(* The ids of NVIDIA's speech functions (nvcf.py).  The app pins one; when *)
(* the service replaces the function, the first call that is told so looks *)
(* the current id up, at most once in LookupEvery ticks, keeps it for the  *)
(* process, and tries again with it.  Turns of several people call at once.*)
(* An id from the environment is used as it is and changes nothing here.   *)
(***************************************************************************)
EXTENDS Naturals

CONSTANTS
  Callers,      \* threads with something to say or to hear
  LookupEvery,  \* LOOKUP_EVERY, in ticks; a listing takes less than that
  MaxFunctions, \* bound: ids the service gives the function, one after another
  MaxSeconds    \* bound: the monotonic clock

ASSUME FunctionIdsAssumption ==
  LookupEvery \in Nat \ {0} /\ MaxFunctions \in Nat \ {0} /\ MaxSeconds \in Nat

Functions == 1..MaxFunctions
Pinned == 1
NotLooked == MaxSeconds + 1

VARIABLES
  current,  \* the id the service knows
  monotonic,
  foundId,  \* _found, or Pinned
  lookedAt, \* _looked
  caller    \* each call

idvars == <<current, monotonic, foundId, lookedAt, caller>>

CallSteps == {"idle", "attempting", "gone", "listing", "listed", "lost"}
Caller == [step: CallSteps, used: Functions, fresh: Functions, since: 0..MaxSeconds]

FunctionIdsTypeOK ==
  /\ current \in Functions /\ monotonic \in 0..MaxSeconds
  /\ foundId \in Functions /\ lookedAt \in 0..NotLooked
  /\ caller \in [Callers -> Caller]

NotCalling == [step |-> "idle", used |-> Pinned, fresh |-> Pinned, since |-> 0]

FunctionIdsInit ==
  /\ current = Pinned /\ monotonic = 0
  /\ foundId = Pinned /\ lookedAt = NotLooked
  /\ caller = [c \in Callers |-> NotCalling]
-----------------------------------------------------------------------------
Calling(c, step) == caller[c].step = step
Becomes(c, call) == caller' = [caller EXCEPT ![c] = call]
CallEnds(c) == Becomes(c, NotCalling)

\* The function is published anew under another id, and the old one is gone.
Republish ==
  /\ current < MaxFunctions
  /\ current' = current + 1
  /\ UNCHANGED <<monotonic, foundId, lookedAt, caller>>

Listing(c) == caller[c].step \in {"listing", "listed"}

\* The listing's own timeout is a small part of LookupEvery.
SecondsPass ==
  /\ monotonic < MaxSeconds
  /\ \A c \in Callers : Listing(c) => monotonic + 1 < caller[c].since + LookupEvery
  /\ monotonic' = monotonic + 1
  /\ UNCHANGED <<current, foundId, lookedAt, caller>>

BeginCall(c) ==
  /\ caller[c].step \in {"idle", "lost"}
  /\ Becomes(c, [NotCalling EXCEPT !.step = "attempting", !.used = foundId])
  /\ UNCHANGED <<current, monotonic, foundId, lookedAt>>

\* It answered, or failed in a way that says nothing of the id.
AttemptEnds(c) ==
  /\ Calling(c, "attempting")
  /\ CallEnds(c)
  /\ UNCHANGED <<current, monotonic, foundId, lookedAt>>

\* NOT_FOUND; a second one, of the id just looked up, is the caller's to report.
ToldGone(c) ==
  /\ Calling(c, "attempting") /\ caller[c].used # current
  /\ IF caller[c].used = caller[c].fresh /\ caller[c].used # Pinned THEN CallEnds(c)
     ELSE Becomes(c, [caller[c] EXCEPT !.step = "gone"])
  /\ UNCHANGED <<current, monotonic, foundId, lookedAt>>

\* StaleFunctionError.
GivesUp(c) == Becomes(c, [caller[c] EXCEPT !.step = "lost"])

\* Mutant of LookedLately: only a lookup that found an id is counted.
LookedLatelyAndFound == foundId # Pinned /\ lookedAt # NotLooked /\ monotonic < lookedAt + LookupEvery

LookedLately == lookedAt # NotLooked /\ monotonic < lookedAt + LookupEvery

Lookup(c) ==
  /\ Calling(c, "gone")
  /\ IF LookedLately
     THEN GivesUp(c) /\ UNCHANGED lookedAt
     ELSE /\ lookedAt' = monotonic
          /\ Becomes(c, [caller[c] EXCEPT !.step = "listing", !.since = monotonic])
  /\ UNCHANGED <<current, monotonic, foundId>>

\* The newest of the listed ids is the current one.
Listed(c) ==
  /\ Calling(c, "listing")
  /\ IF caller[c].used = current THEN GivesUp(c)
     ELSE Becomes(c, [caller[c] EXCEPT !.step = "listed", !.fresh = current])
  /\ UNCHANGED <<current, monotonic, foundId, lookedAt>>

\* No list for this key, no network, none of that name.
LookupFails(c) ==
  /\ Calling(c, "listing")
  /\ GivesUp(c)
  /\ UNCHANGED <<current, monotonic, foundId, lookedAt>>

\* The speech deadline passes first, and the next lookup keeps its distance.
LookupTooLate(c) ==
  /\ Calling(c, "listing")
  /\ CallEnds(c)
  /\ UNCHANGED <<current, monotonic, foundId, lookedAt>>

\* Stop, which is not counted as a lookup.
LookupStopped(c) ==
  /\ Calling(c, "listing")
  /\ lookedAt' = NotLooked
  /\ CallEnds(c)
  /\ UNCHANGED <<current, monotonic, foundId>>

Adopt(c) ==
  /\ Calling(c, "listed")
  /\ foundId' = caller[c].fresh
  /\ Becomes(c, [caller[c] EXCEPT !.step = "attempting", !.used = caller[c].fresh])
  /\ UNCHANGED <<current, monotonic, lookedAt>>

FunctionIdsNext ==
  \/ Republish \/ SecondsPass
  \/ \E c \in Callers :
       \/ BeginCall(c) \/ AttemptEnds(c) \/ ToldGone(c) \/ Lookup(c) \/ Listed(c)
       \/ LookupFails(c) \/ LookupTooLate(c) \/ LookupStopped(c) \/ Adopt(c)

FunctionIdsSpec == FunctionIdsInit /\ [][FunctionIdsNext]_idvars
-----------------------------------------------------------------------------
(* Properties.                                                             *)

\* What the process has found is only ever replaced by what the service gave
\* out later, although two calls may find the old id gone at once and each
\* reads the list and stores what it read in two steps (nvcf.py:153): the
\* distance between lookups is what keeps a slow one from being second.
FoundIdsAreTheNewest == [][foundId' >= foundId]_idvars

\* A call is told that no current id could be found (nvcf.py:36) only when the
\* process knows of none: "one retry on a current id" (nvcf.py:155).
RetriesOnACurrentId ==
  [][\A c \in Callers :
       (caller[c].step # "lost" /\ caller'[c].step = "lost")
         => ~(foundId = current /\ foundId # caller[c].used)]_idvars
=============================================================================
