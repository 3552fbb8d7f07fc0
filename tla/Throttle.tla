------------------------------ MODULE Throttle ------------------------------
(***************************************************************************)
(* How fast a password can be tried: the limiter of failed sign-ins        *)
(* (webui._SignInLimit) and the hashing slots (accounts._scrypt), as a     *)
(* sign-in and a Google step-up use them.  A request asks the limiter,     *)
(* hashes, and tells the limiter what came out; other requests come        *)
(* between, so several guesses may pass before the first one is counted.   *)
(*                                                                         *)
(* A username is counted by where the client is, so an attempt from a      *)
(* phone counts against another key than one at the computer.              *)
(***************************************************************************)
EXTENDS Naturals, FiniteSets, Sequences, SequencesExt

CONSTANTS
  Requests,   \* request threads of the server
  Addresses, Usernames,
  Free,       \* FREE
  FirstWait,  \* FIRST_WAIT, in ticks
  Ceiling,    \* CEILING
  Tracked,    \* TRACKED
  HashSlots,  \* HASH_SLOTS
  MaxTicks    \* bound: the clock

ASSUME ThrottleAssumption ==
  /\ Free \in Nat \ {0} /\ FirstWait \in Nat /\ Ceiling \in Nat
  /\ Tracked \in Nat /\ HashSlots \in Nat \ {0} /\ MaxTicks \in Nat
  /\ FirstWait <= Ceiling
  /\ IsFiniteSet(Requests) /\ Addresses \cap Usernames = {}

VARIABLES
  ticks,     \* the monotonic clock
  failures,  \* _failures: the keys in order of their newest failure, with count and time
  attempt,   \* where each request is, for which keys
  guesses    \* ghost: when the failures of each key's present entry happened

throttlevars == <<ticks, failures, attempt, guesses>>

LimitKeys == Addresses \cup Usernames
Ticks == 0..MaxTicks
Failure == [key: LimitKeys, count: Nat, last: Ticks]

ThrottleTypeOK ==
  /\ ticks \in Ticks
  /\ failures \in Seq(Failure) /\ Len(failures) <= Tracked
  /\ attempt \in [Requests -> [step: {"idle", "waiting", "hashing"}, keys: SUBSET LimitKeys]]
  /\ guesses \in [LimitKeys -> Seq(Ticks)]

NoAttempt == [step |-> "idle", keys |-> {}]

ThrottleInit ==
  /\ ticks = 0
  /\ failures = <<>>
  /\ attempt = [r \in Requests |-> NoAttempt]
  /\ guesses = [k \in LimitKeys |-> <<>>]
-----------------------------------------------------------------------------
Known(k) == {i \in DOMAIN failures : failures[i].key = k}
CountOf(k) == IF Known(k) = {} THEN 0 ELSE failures[CHOOSE i \in Known(k) : TRUE].count

\* min(CEILING, FIRST_WAIT * 2 ** (count - FREE))
Delay(count) ==
  IF FirstWait * 2 ^ (count - Free) < Ceiling THEN FirstWait * 2 ^ (count - Free) ELSE Ceiling

\* wait(keys) is more than 0 on account of this key.
Blocked(k) ==
  \E i \in Known(k) : failures[i].count >= Free /\ ticks < failures[i].last + Delay(failures[i].count)

TickPasses ==
  /\ ticks < MaxTicks
  /\ ticks' = ticks + 1
  /\ UNCHANGED <<failures, attempt, guesses>>

\* _login and _google_step_up: 429 while any key waits.
Attempt(r, a, u) ==
  /\ attempt[r].step = "idle"
  /\ ~Blocked(a) /\ ~Blocked(u)
  /\ attempt' = [attempt EXCEPT ![r] = [step |-> "waiting", keys |-> {a, u}]]
  /\ UNCHANGED <<ticks, failures, guesses>>

Hashing == {r \in Requests : attempt[r].step = "hashing"}

TakeSlot(r) ==
  /\ attempt[r].step = "waiting"
  /\ Cardinality(Hashing) < HashSlots
  /\ attempt' = [attempt EXCEPT ![r].step = "hashing"]
  /\ UNCHANGED <<ticks, failures, guesses>>

\* HashingBusy: nothing was decided, so nothing is counted.
SlotTimesOut(r) ==
  /\ attempt[r].step = "waiting"
  /\ Cardinality(Hashing) = HashSlots
  /\ attempt' = [attempt EXCEPT ![r] = NoAttempt]
  /\ UNCHANGED <<ticks, failures, guesses>>

\* The entries without the one for k.
Without(fs, k) ==
  LET places == {i \in DOMAIN fs : fs[i].key = k}
  IN IF places = {} THEN fs ELSE RemoveAt(fs, CHOOSE i \in places : TRUE)

\* Mutant of Counted: the time of the first failure is kept.
CountedFromTheFirst(fs, k) ==
  Append(Without(fs, k), [key |-> k, count |-> CountOf(k) + 1,
                          last |-> IF Known(k) = {} THEN ticks ELSE failures[CHOOSE i \in Known(k) : TRUE].last])

\* One key's entry goes to the end with one failure more.
Counted(fs, k) == Append(Without(fs, k), [key |-> k, count |-> CountOf(k) + 1, last |-> ticks])

\* Mutant of Bounded: nothing is forgotten.
Unbounded(fs) == fs

\* What popitem(last=False) leaves.
Bounded(fs) == IF Len(fs) > Tracked THEN SubSeq(fs, Len(fs) - Tracked + 1, Len(fs)) ELSE fs
KeysIn(fs) == {fs[i].key : i \in DOMAIN fs}

\* fail(client, user), the client first.
Fails(r) ==
  /\ attempt[r].step = "hashing"
  /\ \E a \in Addresses \cap attempt[r].keys, u \in Usernames \cap attempt[r].keys :
       failures' = Bounded(Counted(Counted(failures, a), u))
  /\ guesses' = [k \in LimitKeys |->
       IF k \notin KeysIn(failures') THEN <<>>
       ELSE IF k \in attempt[r].keys THEN Append(guesses[k], ticks) ELSE guesses[k]]
  /\ attempt' = [attempt EXCEPT ![r] = NoAttempt]
  /\ UNCHANGED ticks

\* clear(client, user)
Succeeds(r) ==
  /\ attempt[r].step = "hashing"
  /\ \E a \in Addresses \cap attempt[r].keys, u \in Usernames \cap attempt[r].keys :
       failures' = Without(Without(failures, a), u)
  /\ guesses' = [k \in LimitKeys |-> IF k \in attempt[r].keys THEN <<>> ELSE guesses[k]]
  /\ attempt' = [attempt EXCEPT ![r] = NoAttempt]
  /\ UNCHANGED ticks

ThrottleNext ==
  \/ TickPasses
  \/ \E r \in Requests :
       \/ \E a \in Addresses, u \in Usernames : Attempt(r, a, u)
       \/ TakeSlot(r) \/ SlotTimesOut(r) \/ Fails(r) \/ Succeeds(r)

ThrottleSpec == ThrottleInit /\ [][ThrottleNext]_throttlevars
-----------------------------------------------------------------------------
\* The race between asking and telling costs no more than the other requests
\* in flight: once a key has failed Free times, and until it is cleared or
\* forgotten, only as many guesses as there are requests fall within the wait
\* that its failures have earned, which doubles with each up to the ceiling.
GuessesAreThrottled ==
  \A k \in LimitKeys : \A i \in DOMAIN guesses[k] :
    i >= Free /\ i + Cardinality(Requests) \in DOMAIN guesses[k] =>
      guesses[k][i + Cardinality(Requests)] >= guesses[k][i] + Delay(i)
=============================================================================
