---------------------------- MODULE ServiceProofs ----------------------------
(***************************************************************************)
(* Proofs about the parts MCService puts in one run, for every value of    *)
(* their constants: first each part's inductive invariant, then that the   *)
(* run's specification keeps all of them, and the run's properties.        *)
(***************************************************************************)
EXTENDS MCService, FiniteSetTheorems, SequenceTheorems, TLAPS

-----------------------------------------------------------------------------
\* The sign-in limiter (Throttle)

\* Requests that were let through for a key and have not been told of yet.
InFlight(k) == {r \in Requests : attempt[r].step # "idle" /\ k \in attempt[r].keys}

OneEntryEach(fs) == \A i, j \in DOMAIN fs : fs[i].key = fs[j].key => i = j
Entries(fs) == {fs[i] : i \in DOMAIN fs}

\* An entry has the count and the time of the failures it stands for.
EntriesCount ==
  /\ OneEntryEach(failures)
  /\ \A f \in Entries(failures) : Len(guesses[f.key]) = f.count /\ f.count > 0 /\ guesses[f.key][f.count] = f.last
  /\ \A k \in LimitKeys : guesses[k] # <<>> => \E f \in Entries(failures) : f.key = k

GuessesInOrder(k) ==
  \A i, j \in DOMAIN guesses[k] :
    /\ i <= j => guesses[k][i] <= guesses[k][j]
    /\ guesses[k][i] <= ticks

\* While a failure's wait has not passed, those that may still fail were let through before
\* it: each of them takes one of the places that the property leaves.
WaitIsHeld(k) ==
  \A i \in DOMAIN guesses[k] : i >= Free =>
    \/ ticks >= guesses[k][i] + Delay(i)
    \/ Cardinality(InFlight(k)) + Len(guesses[k]) - i < Cardinality(Requests)

IsThrottled(k) ==
  \A i \in DOMAIN guesses[k] :
    i >= Free /\ i + Cardinality(Requests) \in DOMAIN guesses[k] =>
      guesses[k][i + Cardinality(Requests)] >= guesses[k][i] + Delay(i)

KeyOK(k) == GuessesInOrder(k) /\ WaitIsHeld(k) /\ IsThrottled(k)

AttemptsHaveKeys ==
  \A r \in Requests : attempt[r].step # "idle" =>
    \E a \in Addresses, u \in Usernames : attempt[r].keys = {a, u}

ThrottleInv ==
  /\ ThrottleTypeOK /\ EntriesCount /\ AttemptsHaveKeys
  /\ \A k \in LimitKeys : KeyOK(k)

LEMMA PowersGrow ==
  ASSUME NEW m \in Nat, NEW n \in Nat, m <= n
  PROVE  2^m \in Nat /\ 2^n \in Nat /\ 2^m <= 2^n
<1>1. /\ IsFiniteSet(1..m) /\ Cardinality(1..m) = m
      /\ IsFiniteSet(1..n) /\ Cardinality(1..n) = n
  BY FS_Interval
<1>2. /\ IsFiniteSet(SUBSET (1..m)) /\ Cardinality(SUBSET (1..m)) = 2^m
      /\ IsFiniteSet(SUBSET (1..n)) /\ Cardinality(SUBSET (1..n)) = 2^n
  BY <1>1, FS_SUBSET
<1>3. SUBSET (1..m) \subseteq SUBSET (1..n)
  OBVIOUS
<1>4. Cardinality(SUBSET (1..m)) <= Cardinality(SUBSET (1..n))
  BY <1>2, <1>3, FS_Subset
<1>. QED  BY <1>2, <1>4, FS_CardinalityType

LEMMA DelayGrows ==
  ASSUME NEW i \in Nat, NEW j \in Nat, Free <= i, i <= j
  PROVE  Delay(i) \in Nat /\ Delay(j) \in Nat /\ Delay(i) <= Delay(j)
<1>. DEFINE p == 2 ^ (i - Free)
            q == 2 ^ (j - Free)
<1>1. Free \in Nat /\ FirstWait \in Nat /\ Ceiling \in Nat
  BY ThrottleAssumption
<1>2. p \in Nat /\ q \in Nat /\ p <= q
  <2>1. i - Free \in Nat /\ j - Free \in Nat /\ i - Free <= j - Free
    BY <1>1
  <2>. QED  BY <2>1, PowersGrow
<1>3. Delay(i) = IF FirstWait * p < Ceiling THEN FirstWait * p ELSE Ceiling
  BY DEF Delay
<1>4. Delay(j) = IF FirstWait * q < Ceiling THEN FirstWait * q ELSE Ceiling
  BY DEF Delay
<1>. HIDE DEF p, q
<1>5. FirstWait * p \in Nat /\ FirstWait * q \in Nat /\ FirstWait * p <= FirstWait * q
  BY <1>1, <1>2
<1>. QED  BY <1>1, <1>3, <1>4, <1>5

LEMMA WithoutOne ==
  ASSUME NEW S, NEW fs \in Seq(S), NEW k, OneEntryEach(fs)
  PROVE  /\ Without(fs, k) \in Seq(S) /\ Len(Without(fs, k)) <= Len(fs)
         /\ OneEntryEach(Without(fs, k))
         /\ Entries(Without(fs, k)) = {f \in Entries(fs) : f.key # k}
<1>. DEFINE places == {i \in DOMAIN fs : fs[i].key = k}
            p == CHOOSE i \in places : TRUE
<1>1. CASE places = {}
  BY <1>1 DEF Without, Entries
<1>2. CASE places # {}
  <2>1. p \in 1..Len(fs) /\ fs[p].key = k
    BY <1>2
  <2>2. Without(fs, k) = SubSeq(fs, 1, p - 1) \o SubSeq(fs, p + 1, Len(fs))
    BY <1>2 DEF Without, RemoveAt
  <2>. HIDE DEF p
  <2>3. /\ Without(fs, k) \in Seq(S) /\ Len(Without(fs, k)) = Len(fs) - 1
        /\ \A i \in 1..(Len(fs) - 1) : Without(fs, k)[i] = IF i < p THEN fs[i] ELSE fs[i + 1]
    <3>. DEFINE front == SubSeq(fs, 1, p - 1)
                back == SubSeq(fs, p + 1, Len(fs))
    <3>1. front \in Seq(S) /\ Len(front) = p - 1 /\ \A i \in 1..(p - 1) : front[i] = fs[i]
      BY <2>1
    <3>2. back \in Seq(S) /\ Len(back) = Len(fs) - p /\ \A i \in 1..(Len(fs) - p) : back[i] = fs[p + i]
      BY <2>1
    <3>. HIDE DEF front, back
    <3>3. /\ front \o back \in Seq(S) /\ Len(front \o back) = Len(fs) - 1
          /\ \A i \in 1..(Len(fs) - 1) : (front \o back)[i] = IF i <= p - 1 THEN front[i] ELSE back[i - (p - 1)]
      <4>1. /\ front \o back \in Seq(S) /\ Len(front \o back) = Len(front) + Len(back)
            /\ \A i \in 1..(Len(front) + Len(back)) :
                 (front \o back)[i] = IF i <= Len(front) THEN front[i] ELSE back[i - Len(front)]
        BY <3>1, <3>2, ConcatProperties
      <4>2. Len(fs) \in Nat /\ Len(front) + Len(back) = Len(fs) - 1
        BY <2>1, <3>1, <3>2
      <4>. QED  BY <3>1, <4>1, <4>2
    <3>4. ASSUME NEW i \in 1..(Len(fs) - 1) PROVE (front \o back)[i] = IF i < p THEN fs[i] ELSE fs[i + 1]
      <4>1. CASE i < p
        BY <2>1, <3>1, <3>3, <4>1
      <4>2. CASE i >= p
        <5>1. i - (p - 1) \in 1..(Len(fs) - p) /\ p + (i - (p - 1)) = i + 1 /\ ~(i <= p - 1)
          BY <2>1, <4>2
        <5>2. back[i - (p - 1)] = fs[p + (i - (p - 1))]
          BY <3>2, <5>1
        <5>3. (front \o back)[i] = back[i - (p - 1)]
          BY <3>3, <5>1
        <5>4. back[i - (p - 1)] = fs[i + 1]
          BY <5>1, <5>2
        <5>5. ~(i < p)
          BY <2>1, <4>2
        <5>. QED  BY <5>3, <5>4, <5>5
      <4>3. i < p \/ i >= p
        BY <2>1
      <4>. QED  BY <4>1, <4>2, <4>3
    <3>. QED  BY <2>2, <3>3, <3>4 DEF front, back
  <2>4. OneEntryEach(Without(fs, k))
    <3>. SUFFICES ASSUME NEW i \in 1..(Len(fs) - 1), NEW j \in 1..(Len(fs) - 1),
                         Without(fs, k)[i].key = Without(fs, k)[j].key
                  PROVE  i = j
      BY <2>3 DEF OneEntryEach
    <3>. DEFINE from(h) == IF h < p THEN h ELSE h + 1
    <3>1. from(i) \in DOMAIN fs /\ from(j) \in DOMAIN fs /\ (from(i) = from(j) => i = j)
      BY <2>1
    <3>2. Without(fs, k)[i] = fs[from(i)] /\ Without(fs, k)[j] = fs[from(j)]
      BY <2>3
    <3>. QED  BY <3>1, <3>2 DEF OneEntryEach
  <2>5. ASSUME NEW f \in Entries(Without(fs, k)) PROVE f \in Entries(fs) /\ f.key # k
    BY <2>1, <2>3 DEF Entries, OneEntryEach
  <2>6. ASSUME NEW f \in Entries(fs), f.key # k PROVE f \in Entries(Without(fs, k))
    <3>1. PICK i \in 1..Len(fs) : f = fs[i]
      BY DEF Entries
    <3>2. CASE i < p
      BY <2>1, <2>3, <3>1, <3>2 DEF Entries
    <3>3. CASE i > p
      <4>1. i - 1 \in 1..(Len(fs) - 1) /\ ~(i - 1 < p) /\ (i - 1) + 1 = i
        BY <2>1, <3>3
      <4>2. Without(fs, k)[i - 1] = fs[i]
        BY <2>3, <4>1
      <4>. QED  BY <2>3, <3>1, <4>1, <4>2 DEF Entries
    <3>. QED  BY <2>1, <2>6, <3>1, <3>2, <3>3
  <2>. QED  BY <2>3, <2>4, <2>5, <2>6
<1>. QED  BY <1>1, <1>2

LEMMA AppendOne ==
  ASSUME NEW S, NEW fs \in Seq(S), NEW e \in S, \A f \in Entries(fs) : f.key # e.key, OneEntryEach(fs)
  PROVE  /\ Append(fs, e) \in Seq(S) /\ Len(Append(fs, e)) = Len(fs) + 1
         /\ OneEntryEach(Append(fs, e))
         /\ Entries(Append(fs, e)) = Entries(fs) \cup {e}
<1>1. /\ Append(fs, e) \in Seq(S) /\ Len(Append(fs, e)) = Len(fs) + 1
      /\ \A i \in 1..Len(fs) : Append(fs, e)[i] = fs[i]
      /\ Append(fs, e)[Len(fs) + 1] = e /\ Len(fs) \in Nat
  BY AppendProperties, LenProperties
<1>2. \A i \in 1..(Len(fs) + 1) : i \in 1..Len(fs) \/ i = Len(fs) + 1
  BY <1>1
<1>3. \A i \in 1..Len(fs) : fs[i] \in Entries(fs)
  BY DEF Entries
<1>4. OneEntryEach(Append(fs, e))
  BY <1>1, <1>2, <1>3 DEF OneEntryEach
<1>5. Entries(Append(fs, e)) = Entries(fs) \cup {e}
  BY <1>1, <1>2 DEF Entries
<1>. QED  BY <1>1, <1>4, <1>5

LEMMA BoundedOnes ==
  ASSUME NEW S, NEW fs \in Seq(S), OneEntryEach(fs)
  PROVE  /\ Bounded(fs) \in Seq(S) /\ Len(Bounded(fs)) <= Tracked
         /\ OneEntryEach(Bounded(fs))
         /\ Entries(Bounded(fs)) \subseteq Entries(fs)
<1>1. Len(fs) \in Nat /\ Tracked \in Nat /\ \A i \in 1..Len(fs) : fs[i] \in S
  BY LenProperties, ElementOfSeq, ThrottleAssumption
<1>2. CASE Len(fs) <= Tracked
  BY <1>1, <1>2 DEF Bounded
<1>3. CASE Len(fs) > Tracked
  <2>. DEFINE m == Len(fs) - Tracked
              last == SubSeq(fs, m + 1, Len(fs))
  <2>1. m \in 1..Len(fs) /\ Len(fs) - (m + 1) + 1 = Tracked /\ \A i \in (m + 1)..Len(fs) : fs[i] \in S
    BY <1>1, <1>3
  <2>2. Bounded(fs) = last
    BY <1>3 DEF Bounded
  <2>3. last \in Seq(S) /\ Len(last) = Tracked /\ \A i \in 1..Tracked : last[i] = fs[m + i]
    BY <1>1, <2>1
  <2>4. \A i \in 1..Tracked : m + i \in 1..Len(fs)
    BY <1>1, <1>3
  <2>. HIDE DEF last
  <2>5. OneEntryEach(last)
    <3>. SUFFICES ASSUME NEW i \in 1..Tracked, NEW j \in 1..Tracked, last[i].key = last[j].key PROVE i = j
      BY <2>3 DEF OneEntryEach
    <3>1. m + i \in DOMAIN fs /\ m + j \in DOMAIN fs /\ fs[m + i].key = fs[m + j].key
      BY <2>3, <2>4
    <3>2. m + i = m + j
      BY <3>1 DEF OneEntryEach
    <3>. QED  BY <2>1, <3>2
  <2>6. Entries(last) \subseteq Entries(fs)
    BY <2>3, <2>4 DEF Entries
  <2>. QED  BY <1>1, <2>2, <2>3, <2>5, <2>6
<1>. QED  BY <1>1, <1>2, <1>3

LEMMA InFlightCounted ==
  ASSUME NEW k
  PROVE  /\ IsFiniteSet(Requests) /\ Cardinality(Requests) \in Nat
         /\ IsFiniteSet(InFlight(k)) /\ Cardinality(InFlight(k)) \in Nat
         /\ IsFiniteSet(InFlight(k)') /\ Cardinality(InFlight(k)') \in Nat
<1>1. IsFiniteSet(Requests) /\ Cardinality(Requests) \in Nat
  BY ThrottleAssumption, FS_CardinalityType
<1>2. InFlight(k) \subseteq Requests /\ InFlight(k)' \subseteq Requests
  BY DEF InFlight
<1>. QED  BY <1>1, <1>2, FS_Subset, FS_CardinalityType

\* What a step that counts no failure of k leaves of it.
LEMMA KeyKept ==
  ASSUME ThrottleTypeOK, ticks' \in Nat, NEW k \in LimitKeys, KeyOK(k), ticks' >= ticks, guesses'[k] = guesses[k],
         InFlight(k)' \subseteq InFlight(k)
  PROVE  KeyOK(k)'
<1>1. Cardinality(InFlight(k)') <= Cardinality(InFlight(k))
  BY InFlightCounted, FS_Subset
<1>2. guesses[k] \in Seq(Nat) /\ ticks \in Nat
  BY ThrottleAssumption DEF ThrottleTypeOK, Ticks
<1>3. GuessesInOrder(k)'
  BY <1>2 DEF KeyOK, GuessesInOrder
<1>4. WaitIsHeld(k)'
  <2>. SUFFICES ASSUME NEW i \in 1..Len(guesses[k]), i >= Free
                PROVE  \/ ticks' >= guesses[k][i] + Delay(i)
                       \/ Cardinality(InFlight(k)') + Len(guesses[k]) - i < Cardinality(Requests)
    BY <1>2 DEF WaitIsHeld
  <2>1. Delay(i) \in Nat
    BY <1>2, DelayGrows
  <2>2. \/ ticks >= guesses[k][i] + Delay(i)
        \/ Cardinality(InFlight(k)) + Len(guesses[k]) - i < Cardinality(Requests)
    BY <1>2 DEF KeyOK, WaitIsHeld
  <2>3. guesses[k][i] \in Nat /\ Len(guesses[k]) \in Nat
    BY <1>2
  <2>. QED  BY <1>1, <1>2, <2>1, <2>2, <2>3, InFlightCounted
<1>5. IsThrottled(k)'
  BY DEF KeyOK, IsThrottled
<1>. QED  BY <1>3, <1>4, <1>5 DEF KeyOK

LEMMA KeyForgotten ==
  ASSUME NEW k \in LimitKeys, guesses'[k] = <<>>
  PROVE  KeyOK(k)'
BY DEF KeyOK, GuessesInOrder, WaitIsHeld, IsThrottled

\* A failure of k is counted, of a request that was let through for it.
LEMMA KeyCounted ==
  ASSUME ThrottleTypeOK, UNCHANGED ticks, NEW k \in LimitKeys, KeyOK(k),
         guesses'[k] = Append(guesses[k], ticks),
         NEW r \in InFlight(k), InFlight(k)' = InFlight(k) \ {r}
  PROVE  KeyOK(k)'
<1>. DEFINE g == guesses[k]
            n == Cardinality(Requests)
            m == Cardinality(InFlight(k))
<1>1. g \in Seq(Nat) /\ Len(g) \in Nat /\ ticks \in Nat /\ n \in Nat /\ m \in Nat /\ Free \in Nat
  BY ThrottleAssumption, InFlightCounted DEF ThrottleTypeOK, Ticks
<1>2. /\ Len(guesses'[k]) = Len(g) + 1 /\ DOMAIN guesses'[k] = 1..(Len(g) + 1)
      /\ \A i \in 1..Len(g) : guesses'[k][i] = g[i] /\ g[i] \in Nat
      /\ guesses'[k][Len(g) + 1] = ticks
  BY <1>1, AppendProperties
<1>3. Cardinality(InFlight(k)') = m - 1 /\ m >= 1 /\ m <= n
  <2>1. Cardinality(InFlight(k) \ {r}) = m - 1
    BY InFlightCounted, FS_RemoveElement
  <2>2. Cardinality(InFlight(k) \ {r}) \in Nat
    BY InFlightCounted, FS_RemoveElement, FS_CardinalityType
  <2>3. m <= n
    BY InFlightCounted, FS_Subset DEF InFlight
  <2>. QED  BY <1>1, <2>1, <2>2, <2>3
<1>4. \A i \in 1..(Len(g) + 1) : i \in 1..Len(g) \/ i = Len(g) + 1
  BY <1>1
<1>5. \A i \in 1..(Len(g) + 1) : guesses'[k][i] \in Nat /\ guesses'[k][i] <= ticks
  BY <1>1, <1>2, <1>4 DEF KeyOK, GuessesInOrder
<1>6. GuessesInOrder(k)'
  <2>. SUFFICES ASSUME NEW i \in 1..(Len(g) + 1), NEW j \in 1..(Len(g) + 1), i <= j
                PROVE  guesses'[k][i] <= guesses'[k][j]
    BY <1>2, <1>5 DEF GuessesInOrder
  <2>1. CASE j = Len(g) + 1
    BY <1>2, <1>5, <2>1
  <2>2. CASE j \in 1..Len(g)
    <3>1. i \in 1..Len(g)
      BY <1>1, <2>2
    <3>. QED  BY <1>1, <1>2, <2>2, <3>1 DEF KeyOK, GuessesInOrder
  <2>. QED  BY <1>4, <2>1, <2>2
<1>7. ASSUME NEW i \in 1..Len(g), i >= Free
      PROVE  Delay(i) \in Nat /\ (ticks >= g[i] + Delay(i) \/ m + Len(g) - i < n)
  <2>1. i \in Nat
    BY <1>1
  <2>2. Delay(i) \in Nat
    <3>1. Free \in Nat /\ Free <= i
      BY <1>1, <1>7, <2>1
    <3>. QED  BY <2>1, <3>1, DelayGrows
  <2>3. i \in DOMAIN guesses[k]
    BY <1>1
  <2>4. \/ ticks >= guesses[k][i] + Delay(i)
        \/ Cardinality(InFlight(k)) + Len(guesses[k]) - i < Cardinality(Requests)
    BY <1>7, <2>3 DEF KeyOK, WaitIsHeld
  <2>. QED  BY <2>2, <2>4
<1>8. WaitIsHeld(k)'
  <2>. SUFFICES ASSUME NEW i \in 1..(Len(g) + 1), i >= Free
                PROVE  \/ ticks >= guesses'[k][i] + Delay(i)
                       \/ (m - 1) + (Len(g) + 1) - i < n
    BY <1>2, <1>3 DEF WaitIsHeld, Delay
  <2>1. CASE i = Len(g) + 1
    BY <1>1, <1>3, <2>1
  <2>2. CASE i \in 1..Len(g)
    <3>1. ticks >= g[i] + Delay(i) \/ m + Len(g) - i < n
      BY <1>7, <2>2
    <3>2. guesses'[k][i] = g[i] /\ i \in Nat
      BY <1>2, <2>2
    <3>. HIDE DEF g, m, n
    <3>3. (m - 1) + (Len(g) + 1) - i = m + Len(g) - i
      BY <1>1, <3>2
    <3>. QED  BY <3>1, <3>2, <3>3
  <2>. QED  BY <1>4, <2>1, <2>2
<1>9. IsThrottled(k)'
  <2>. SUFFICES ASSUME NEW i \in 1..(Len(g) + 1), i >= Free, i + n \in 1..(Len(g) + 1)
                PROVE  guesses'[k][i + n] >= guesses'[k][i] + Delay(i)
    BY <1>2 DEF IsThrottled, Delay
  <2>1. i \in 1..Len(g)
    BY <1>1, <1>3
  <2>2. CASE i + n \in 1..Len(g)
    <3>1. g[i + n] >= g[i] + Delay(i)
      BY <1>1, <2>1, <2>2 DEF KeyOK, IsThrottled
    <3>2. guesses'[k][i + n] = g[i + n] /\ guesses'[k][i] = g[i]
      BY <1>2, <2>1, <2>2
    <3>. QED  BY <3>1, <3>2
  <2>3. CASE i + n = Len(g) + 1
    <3>1. ~(m + Len(g) - i < n)
      BY <1>1, <1>3, <2>3
    <3>. QED  BY <1>2, <1>7, <2>1, <2>3, <3>1
  <2>. QED  BY <1>4, <2>2, <2>3
<1>. QED  BY <1>6, <1>8, <1>9 DEF KeyOK

-----------------------------------------------------------------------------
LEMMA ThrottleStarts == ThrottleInit => ThrottleInv
<1>. SUFFICES ASSUME ThrottleInit PROVE ThrottleInv
  OBVIOUS
<1>1. ThrottleTypeOK
  BY ThrottleAssumption DEF ThrottleInit, ThrottleTypeOK, Ticks, NoAttempt
<1>2. EntriesCount /\ AttemptsHaveKeys
  BY DEF ThrottleInit, EntriesCount, OneEntryEach, Entries, AttemptsHaveKeys, NoAttempt
<1>3. \A k \in LimitKeys : KeyOK(k)
  BY DEF ThrottleInit, KeyOK, GuessesInOrder, WaitIsHeld, IsThrottled
<1>. QED  BY <1>1, <1>2, <1>3 DEF ThrottleInv

\* What the limiter says of a key is what its failures say.
LEMMA BlockedMeansHeld ==
  ASSUME ThrottleInv, NEW k \in LimitKeys, ~Blocked(k), NEW i \in DOMAIN guesses[k], i >= Free
  PROVE  ticks >= guesses[k][i] + Delay(i)
<1>1. /\ guesses[k] \in Seq(Nat) /\ ticks \in Nat /\ Free \in Nat /\ Len(guesses[k]) \in Nat /\ guesses[k] # <<>>
      /\ i \in 1..Len(guesses[k])
  BY ThrottleAssumption DEF ThrottleInv, ThrottleTypeOK, Ticks
<1>2. PICK f \in Entries(failures) : f.key = k
  BY <1>1 DEF ThrottleInv, EntriesCount
<1>3. Len(guesses[k]) = f.count /\ guesses[k][f.count] = f.last
  BY <1>2 DEF ThrottleInv, EntriesCount
<1>4. PICK x \in Known(k) : failures[x] = f
  BY <1>2 DEF Known, Entries
<1>5. f.count >= Free /\ Free <= i /\ i <= f.count
  BY <1>1, <1>3
<1>6. Delay(i) \in Nat /\ Delay(f.count) \in Nat /\ Delay(i) <= Delay(f.count)
  BY <1>1, <1>3, <1>5, DelayGrows
<1>7. guesses[k][i] <= f.last /\ guesses[k][i] \in Nat /\ f.last \in Nat
  BY <1>1, <1>3, <1>5 DEF ThrottleInv, KeyOK, GuessesInOrder
<1>8. ~(ticks < f.last + Delay(f.count))
  BY <1>4, <1>5 DEF Blocked
<1>. QED  BY <1>1, <1>6, <1>7, <1>8

LEMMA TickKeeps ==
  ASSUME ThrottleInv, TickPasses
  PROVE  ThrottleInv'
<1>1. ThrottleTypeOK' /\ ticks' \in Nat /\ ticks' >= ticks
  BY ThrottleAssumption DEF ThrottleInv, ThrottleTypeOK, Ticks, TickPasses
<1>2. EntriesCount' /\ AttemptsHaveKeys'
  BY DEF ThrottleInv, EntriesCount, AttemptsHaveKeys, TickPasses
<1>3. ASSUME NEW k \in LimitKeys PROVE KeyOK(k)'
  <2>1. InFlight(k)' \subseteq InFlight(k)
    BY DEF InFlight, TickPasses
  <2>. QED  BY <1>1, <2>1, KeyKept DEF ThrottleInv, TickPasses
<1>. QED  BY <1>1, <1>2, <1>3 DEF ThrottleInv

\* A request takes a hashing slot, or is turned away.
LEMMA WaitingKeeps ==
  ASSUME ThrottleInv, NEW r \in Requests, TakeSlot(r) \/ SlotTimesOut(r)
  PROVE  ThrottleInv'
<1>1. UNCHANGED <<ticks, failures, guesses>> /\ ticks \in Nat
  BY ThrottleAssumption DEF ThrottleInv, ThrottleTypeOK, Ticks, TakeSlot, SlotTimesOut
<1>2. /\ attempt' \in [Requests -> [step: {"idle", "waiting", "hashing"}, keys: SUBSET LimitKeys]]
      /\ \A q \in Requests : attempt'[q].step # "idle" => attempt[q].step # "idle" /\ attempt'[q].keys = attempt[q].keys
  <2>1. CASE TakeSlot(r)
    BY <2>1 DEF ThrottleInv, ThrottleTypeOK, TakeSlot
  <2>2. CASE SlotTimesOut(r)
    BY <2>2 DEF ThrottleInv, ThrottleTypeOK, SlotTimesOut, NoAttempt
  <2>. QED  BY <2>1, <2>2
<1>3. ThrottleTypeOK' /\ EntriesCount' /\ AttemptsHaveKeys'
  <2>1. ThrottleTypeOK'
    BY <1>1, <1>2 DEF ThrottleInv, ThrottleTypeOK
  <2>2. EntriesCount'
    BY <1>1 DEF ThrottleInv, EntriesCount
  <2>3. AttemptsHaveKeys'
    BY <1>2 DEF ThrottleInv, AttemptsHaveKeys
  <2>. QED  BY <2>1, <2>2, <2>3
<1>4. ASSUME NEW k \in LimitKeys PROVE KeyOK(k)'
  <2>1. InFlight(k)' \subseteq InFlight(k)
    BY <1>2 DEF InFlight
  <2>. QED  BY <1>1, <2>1, KeyKept DEF ThrottleInv
<1>. QED  BY <1>3, <1>4 DEF ThrottleInv

LEMMA AttemptKeeps ==
  ASSUME ThrottleInv, NEW r \in Requests, NEW a \in Addresses, NEW u \in Usernames, Attempt(r, a, u)
  PROVE  ThrottleInv'
<1>1. UNCHANGED <<ticks, failures, guesses>> /\ ticks \in Nat
  BY ThrottleAssumption DEF ThrottleInv, ThrottleTypeOK, Ticks, Attempt
<1>2. /\ attempt' \in [Requests -> [step: {"idle", "waiting", "hashing"}, keys: SUBSET LimitKeys]]
      /\ attempt'[r].keys = {a, u}
      /\ \A q \in Requests : q # r => attempt'[q] = attempt[q]
  BY DEF ThrottleInv, ThrottleTypeOK, Attempt, LimitKeys
<1>3. ThrottleTypeOK' /\ EntriesCount' /\ AttemptsHaveKeys'
  <2>1. ThrottleTypeOK'
    BY <1>1, <1>2 DEF ThrottleInv, ThrottleTypeOK
  <2>2. EntriesCount'
    BY <1>1 DEF ThrottleInv, EntriesCount
  <2>3. AttemptsHaveKeys'
    BY <1>2 DEF ThrottleInv, AttemptsHaveKeys
  <2>. QED  BY <2>1, <2>2, <2>3
<1>4. ASSUME NEW k \in LimitKeys, k \notin {a, u} PROVE KeyOK(k)'
  <2>1. InFlight(k)' \subseteq InFlight(k)
    BY <1>2, <1>4 DEF InFlight
  <2>. QED  BY <1>1, <2>1, KeyKept DEF ThrottleInv
<1>5. ASSUME NEW k \in {a, u} PROVE KeyOK(k)'
  <2>1. k \in LimitKeys /\ ~Blocked(k)
    BY DEF Attempt, LimitKeys
  <2>2. WaitIsHeld(k)'
    BY <1>1, <2>1, BlockedMeansHeld DEF WaitIsHeld, Delay
  <2>. QED  BY <1>1, <2>1, <2>2 DEF ThrottleInv, KeyOK, GuessesInOrder, IsThrottled, Delay
<1>. QED  BY <1>3, <1>4, <1>5 DEF ThrottleInv

LEMMA CountsAreGuesses ==
  ASSUME ThrottleInv, NEW k \in LimitKeys
  PROVE  CountOf(k) = Len(guesses[k]) /\ CountOf(k) \in Nat
<1>1. guesses[k] \in Seq(Nat)
  BY ThrottleAssumption DEF ThrottleInv, ThrottleTypeOK, Ticks
<1>2. CASE Known(k) = {}
  <2>1. guesses[k] = <<>>
    BY <1>2 DEF ThrottleInv, EntriesCount, Entries, Known
  <2>. QED  BY <1>2, <2>1 DEF CountOf
<1>3. CASE Known(k) # {}
  <2>. DEFINE x == CHOOSE i \in Known(k) : TRUE
  <2>1. x \in DOMAIN failures /\ failures[x].key = k
    BY <1>3 DEF Known
  <2>2. CountOf(k) = failures[x].count
    BY <1>3 DEF CountOf
  <2>. HIDE DEF x
  <2>3. Len(guesses[k]) = failures[x].count
    BY <2>1 DEF ThrottleInv, EntriesCount, Entries
  <2>. QED  BY <1>1, <2>2, <2>3
<1>. QED  BY <1>2, <1>3

LEMMA CountedOnes ==
  ASSUME ThrottleInv, NEW fs \in Seq(Failure), OneEntryEach(fs), NEW k \in LimitKeys
  PROVE  /\ Counted(fs, k) \in Seq(Failure) /\ OneEntryEach(Counted(fs, k))
         /\ \A f \in Entries(Counted(fs, k)) :
              \/ f \in Entries(fs) /\ f.key # k
              \/ f.key = k /\ f.count = CountOf(k) + 1 /\ f.last = ticks
<1>. DEFINE e == [key |-> k, count |-> CountOf(k) + 1, last |-> ticks]
<1>1. e \in Failure
  BY CountsAreGuesses DEF ThrottleInv, ThrottleTypeOK, Failure
<1>2. /\ Without(fs, k) \in Seq(Failure) /\ OneEntryEach(Without(fs, k))
      /\ Entries(Without(fs, k)) = {f \in Entries(fs) : f.key # k}
  BY WithoutOne
<1>3. \A f \in Entries(Without(fs, k)) : f.key # e.key
  BY <1>2
<1>4. Counted(fs, k) = Append(Without(fs, k), e)
  BY DEF Counted
<1>5. e.key = k /\ e.count = CountOf(k) + 1 /\ e.last = ticks
  OBVIOUS
<1>. HIDE DEF e
<1>6. /\ Append(Without(fs, k), e) \in Seq(Failure) /\ OneEntryEach(Append(Without(fs, k), e))
      /\ Entries(Append(Without(fs, k), e)) = Entries(Without(fs, k)) \cup {e}
  BY <1>1, <1>2, <1>3, AppendOne
<1>. QED  BY <1>2, <1>4, <1>5, <1>6

LEMMA FailsKeeps ==
  ASSUME ThrottleInv, NEW r \in Requests, Fails(r)
  PROVE  ThrottleInv'
<1>1. PICK a \in Addresses \cap attempt[r].keys, u \in Usernames \cap attempt[r].keys :
        failures' = Bounded(Counted(Counted(failures, a), u))
  BY DEF Fails
<1>2. attempt[r].keys = {a, u} /\ a # u /\ a \in LimitKeys /\ u \in LimitKeys
  BY <1>1, ThrottleAssumption DEF ThrottleInv, AttemptsHaveKeys, Fails, LimitKeys
<1>3. /\ failures' \in Seq(Failure) /\ Len(failures') <= Tracked /\ OneEntryEach(failures')
      /\ \A f \in Entries(failures') :
           IF f.key \in {a, u} THEN f.count = CountOf(f.key) + 1 /\ f.last = ticks ELSE f \in Entries(failures)
  <2>. DEFINE one == Counted(failures, a)
              two == Counted(one, u)
  <2>1. /\ one \in Seq(Failure) /\ OneEntryEach(one)
        /\ \A f \in Entries(one) :
             \/ f \in Entries(failures) /\ f.key # a
             \/ f.key = a /\ f.count = CountOf(a) + 1 /\ f.last = ticks
    BY <1>2, CountedOnes DEF ThrottleInv, ThrottleTypeOK, EntriesCount
  <2>. HIDE DEF one
  <2>2. /\ two \in Seq(Failure) /\ OneEntryEach(two)
        /\ \A f \in Entries(two) :
             \/ f \in Entries(one) /\ f.key # u
             \/ f.key = u /\ f.count = CountOf(u) + 1 /\ f.last = ticks
    BY <1>2, <2>1, CountedOnes
  <2>. HIDE DEF two
  <2>3. /\ Bounded(two) \in Seq(Failure) /\ Len(Bounded(two)) <= Tracked /\ OneEntryEach(Bounded(two))
        /\ Entries(Bounded(two)) \subseteq Entries(two)
    BY <2>2, BoundedOnes
  <2>4. failures' = Bounded(two)
    BY <1>1 DEF one, two
  <2>. QED  BY <2>1, <2>2, <2>3, <2>4
<1>4. /\ UNCHANGED ticks /\ ticks \in Ticks
      /\ \A k \in LimitKeys : guesses[k] \in Seq(Ticks)
      /\ \A k \in LimitKeys : guesses'[k] =
           IF k \notin KeysIn(failures') THEN <<>>
           ELSE IF k \in {a, u} THEN Append(guesses[k], ticks) ELSE guesses[k]
      /\ guesses' = [k \in LimitKeys |-> guesses'[k]]
  BY <1>2 DEF ThrottleInv, ThrottleTypeOK, Fails
<1>5. /\ attempt' \in [Requests -> [step: {"idle", "waiting", "hashing"}, keys: SUBSET LimitKeys]]
      /\ attempt'[r].step = "idle" /\ attempt[r].step # "idle"
      /\ \A q \in Requests : q # r => attempt'[q] = attempt[q]
  BY DEF ThrottleInv, ThrottleTypeOK, Fails, NoAttempt
<1>6. ThrottleTypeOK'
  <2>1. ASSUME NEW k \in LimitKeys PROVE guesses'[k] \in Seq(Ticks)
    <3>1. Append(guesses[k], ticks) \in Seq(Ticks) /\ guesses[k] \in Seq(Ticks) /\ <<>> \in Seq(Ticks)
      BY <1>4, AppendProperties
    <3>2. guesses'[k] \in {<<>>, Append(guesses[k], ticks), guesses[k]}
      BY <1>4
    <3>. QED  BY <3>1, <3>2
  <2>2. guesses' \in [LimitKeys -> Seq(Ticks)]
    BY <1>4, <2>1
  <2>. QED  BY <1>3, <1>4, <1>5, <2>2 DEF ThrottleTypeOK
<1>7. AttemptsHaveKeys'
  BY <1>5 DEF ThrottleInv, AttemptsHaveKeys
<1>8. EntriesCount'
  <2>1. ASSUME NEW f \in Entries(failures')
        PROVE  Len(guesses'[f.key]) = f.count /\ f.count > 0 /\ guesses'[f.key][f.count] = f.last
    <3>1. f.key \in KeysIn(failures') /\ f.key \in LimitKeys
      <4>1. PICK i \in DOMAIN failures' : f = failures'[i]
        BY DEF Entries
      <4>2. f \in Failure
        BY <1>3, <4>1
      <4>. QED  BY <4>1, <4>2 DEF KeysIn, Failure
    <3>2. CASE f.key \in {a, u}
      <4>1. f.count = CountOf(f.key) + 1 /\ f.last = ticks
        BY <1>3, <3>2
      <4>2. guesses'[f.key] = Append(guesses[f.key], ticks)
        BY <1>4, <3>1, <3>2
      <4>3. CountOf(f.key) = Len(guesses[f.key]) /\ CountOf(f.key) \in Nat
        BY <3>1, CountsAreGuesses
      <4>4. /\ Len(Append(guesses[f.key], ticks)) = Len(guesses[f.key]) + 1
            /\ Append(guesses[f.key], ticks)[Len(guesses[f.key]) + 1] = ticks
        BY <1>4, <3>1, AppendProperties
      <4>. QED  BY <4>1, <4>2, <4>3, <4>4
    <3>3. CASE f.key \notin {a, u}
      <4>1. f \in Entries(failures) /\ guesses'[f.key] = guesses[f.key]
        BY <1>3, <1>4, <3>1, <3>3
      <4>. QED  BY <4>1 DEF ThrottleInv, EntriesCount
    <3>. QED  BY <3>2, <3>3
  <2>2. ASSUME NEW k \in LimitKeys, guesses'[k] # <<>> PROVE \E f \in Entries(failures') : f.key = k
    BY <1>4, <2>2 DEF KeysIn, Entries
  <2>. QED  BY <1>3, <2>1, <2>2 DEF EntriesCount
<1>9. ASSUME NEW k \in LimitKeys PROVE KeyOK(k)'
  <2>1. CASE k \notin KeysIn(failures')
    BY <1>4, <2>1, KeyForgotten
  <2>2. CASE k \in KeysIn(failures') /\ k \in {a, u}
    <3>1. r \in InFlight(k) /\ InFlight(k)' = InFlight(k) \ {r}
      BY <1>2, <1>5, <2>2 DEF InFlight
    <3>2. guesses'[k] = Append(guesses[k], ticks)
      BY <1>4, <2>2
    <3>. QED  BY <1>4, <3>1, <3>2, KeyCounted DEF ThrottleInv
  <2>3. CASE k \in KeysIn(failures') /\ k \notin {a, u}
    <3>1. InFlight(k)' \subseteq InFlight(k)
      BY <1>5 DEF InFlight
    <3>2. guesses'[k] = guesses[k] /\ ticks' \in Nat /\ ticks' >= ticks
      BY <1>4, <2>3, ThrottleAssumption DEF Ticks
    <3>. QED  BY <3>1, <3>2, KeyKept DEF ThrottleInv
  <2>. QED  BY <2>1, <2>2, <2>3
<1>. QED  BY <1>6, <1>7, <1>8, <1>9 DEF ThrottleInv

LEMMA SucceedsKeeps ==
  ASSUME ThrottleInv, NEW r \in Requests, Succeeds(r)
  PROVE  ThrottleInv'
<1>1. PICK a \in Addresses \cap attempt[r].keys, u \in Usernames \cap attempt[r].keys :
        failures' = Without(Without(failures, a), u)
  BY DEF Succeeds
<1>2. attempt[r].keys = {a, u} /\ a \in LimitKeys /\ u \in LimitKeys
  BY <1>1, ThrottleAssumption DEF ThrottleInv, AttemptsHaveKeys, Succeeds, LimitKeys
<1>3. /\ failures' \in Seq(Failure) /\ Len(failures') <= Tracked /\ OneEntryEach(failures')
      /\ Entries(failures') = {f \in Entries(failures) : f.key \notin {a, u}}
  <2>. DEFINE one == Without(failures, a)
  <2>1. /\ one \in Seq(Failure) /\ Len(one) <= Len(failures) /\ OneEntryEach(one)
        /\ Entries(one) = {f \in Entries(failures) : f.key # a}
    BY WithoutOne DEF ThrottleInv, ThrottleTypeOK, EntriesCount
  <2>. HIDE DEF one
  <2>2. /\ Without(one, u) \in Seq(Failure) /\ Len(Without(one, u)) <= Len(one) /\ OneEntryEach(Without(one, u))
        /\ Entries(Without(one, u)) = {f \in Entries(one) : f.key # u}
    BY <2>1, WithoutOne
  <2>3. failures' = Without(one, u)
    BY <1>1 DEF one
  <2>4. Len(failures) \in Nat /\ Len(one) \in Nat /\ Len(failures') \in Nat /\ Tracked \in Nat /\ Len(failures) <= Tracked
    BY <2>1, <2>2, <2>3, LenProperties, ThrottleAssumption DEF ThrottleInv, ThrottleTypeOK
  <2>. QED  BY <2>1, <2>2, <2>3, <2>4
<1>4. /\ UNCHANGED ticks /\ ticks \in Ticks
      /\ \A k \in LimitKeys : guesses[k] \in Seq(Ticks)
      /\ \A k \in LimitKeys : guesses'[k] = IF k \in {a, u} THEN <<>> ELSE guesses[k]
      /\ guesses' = [k \in LimitKeys |-> guesses'[k]]
  BY <1>2 DEF ThrottleInv, ThrottleTypeOK, Succeeds
<1>5. /\ attempt' \in [Requests -> [step: {"idle", "waiting", "hashing"}, keys: SUBSET LimitKeys]]
      /\ attempt'[r].step = "idle"
      /\ \A q \in Requests : q # r => attempt'[q] = attempt[q]
  BY DEF ThrottleInv, ThrottleTypeOK, Succeeds, NoAttempt
<1>6. ThrottleTypeOK'
  <2>1. ASSUME NEW k \in LimitKeys PROVE guesses'[k] \in Seq(Ticks)
    <3>1. guesses[k] \in Seq(Ticks) /\ <<>> \in Seq(Ticks) /\ guesses'[k] \in {<<>>, guesses[k]}
      BY <1>4
    <3>. QED  BY <3>1
  <2>2. guesses' \in [LimitKeys -> Seq(Ticks)]
    BY <1>4, <2>1
  <2>. QED  BY <1>3, <1>4, <1>5, <2>2 DEF ThrottleTypeOK
<1>7. AttemptsHaveKeys'
  BY <1>5 DEF ThrottleInv, AttemptsHaveKeys
<1>8. EntriesCount'
  <2>1. ASSUME NEW f \in Entries(failures')
        PROVE  Len(guesses'[f.key]) = f.count /\ f.count > 0 /\ guesses'[f.key][f.count] = f.last
    <3>1. f \in Entries(failures) /\ f.key \notin {a, u} /\ f.key \in LimitKeys
      <4>1. f \in Entries(failures) /\ f.key \notin {a, u}
        BY <1>3
      <4>2. PICK i \in DOMAIN failures : f = failures[i]
        BY <4>1 DEF Entries
      <4>3. f \in Failure
        BY <4>2 DEF ThrottleInv, ThrottleTypeOK
      <4>. QED  BY <4>1, <4>3 DEF Failure
    <3>2. guesses'[f.key] = guesses[f.key]
      BY <1>4, <3>1
    <3>. QED  BY <3>1, <3>2 DEF ThrottleInv, EntriesCount
  <2>2. ASSUME NEW k \in LimitKeys, guesses'[k] # <<>> PROVE \E f \in Entries(failures') : f.key = k
    <3>1. k \notin {a, u} /\ guesses[k] # <<>>
      BY <1>4, <2>2
    <3>2. PICK f \in Entries(failures) : f.key = k
      BY <3>1 DEF ThrottleInv, EntriesCount
    <3>. QED  BY <1>3, <3>1, <3>2
  <2>. QED  BY <1>3, <2>1, <2>2 DEF EntriesCount
<1>9. ASSUME NEW k \in LimitKeys PROVE KeyOK(k)'
  <2>1. CASE k \in {a, u}
    BY <1>4, <2>1, KeyForgotten
  <2>2. CASE k \notin {a, u}
    <3>1. InFlight(k)' \subseteq InFlight(k)
      BY <1>5 DEF InFlight
    <3>2. guesses'[k] = guesses[k] /\ ticks' \in Nat /\ ticks' >= ticks
      BY <1>4, <2>2, ThrottleAssumption DEF Ticks
    <3>. QED  BY <3>1, <3>2, KeyKept DEF ThrottleInv
  <2>. QED  BY <2>1, <2>2
<1>. QED  BY <1>6, <1>7, <1>8, <1>9 DEF ThrottleInv

LEMMA ThrottleStep == ASSUME ThrottleInv, [ThrottleNext]_throttlevars PROVE ThrottleInv'
<1>1. CASE UNCHANGED throttlevars
  <2>1. ThrottleTypeOK' /\ EntriesCount' /\ AttemptsHaveKeys'
    BY <1>1 DEF ThrottleInv, throttlevars, ThrottleTypeOK, EntriesCount, AttemptsHaveKeys
  <2>2. \A k \in LimitKeys : KeyOK(k)'
    BY <1>1 DEF ThrottleInv, throttlevars, KeyOK, GuessesInOrder, WaitIsHeld, IsThrottled, InFlight, Delay
  <2>. QED  BY <2>1, <2>2 DEF ThrottleInv
<1>. QED  BY <1>1, TickKeeps, AttemptKeeps, WaitingKeeps, FailsKeeps, SucceedsKeeps DEF ThrottleNext

LEMMA ThrottleInvariant == ThrottleSpec => []ThrottleInv
BY ThrottleStarts, ThrottleStep, PTL DEF ThrottleSpec

\* However many ask at once, a key that has failed Free times is tried no faster than its
\* wait allows, but by those let through before (webui._SignInLimit, accounts._scrypt).
THEOREM GuessesAreSlowedDown == ThrottleSpec => []GuessesAreThrottled
<1>1. ThrottleInv => GuessesAreThrottled
  BY DEF ThrottleInv, KeyOK, IsThrottled, GuessesAreThrottled
<1>. QED  BY <1>1, ThrottleInvariant, PTL

-----------------------------------------------------------------------------
\* Google sign-in (GoogleSignIn)

\* A flow that links was started by somebody, and one that is ready has an identity.
FlowOK(f) ==
  /\ flow[f].kept /\ flow[f].purpose = "link" => flow[f].account \in People
  /\ flow[f].status = "ready" => flow[f].result \in Identities
  /\ flow[f].kept => flow[f].window \in Windows

\* Nobody is signed in by an identity.
SessionOK(w) == session[w].by \in Identities => session[w].of \in People

GoogleInv ==
  /\ GoogleTypeOK /\ GoogleLinksHold
  /\ \A f \in Flows : FlowOK(f)
  /\ \A w \in Windows : SessionOK(w)

LEMMA FlowsStep ==
  ASSUME GoogleInv, NEW f \in Flows, UNCHANGED <<person, session, cut>>,
         NEW g \in Flow, flow' = [flow EXCEPT ![f] = g],
         FlowOK(f)'
  PROVE  GoogleInv'
<1>1. GoogleTypeOK' /\ \A h \in Flows : h # f => flow'[h] = flow[h]
  BY DEF GoogleInv, GoogleTypeOK
<1>2. GoogleLinksHold'
  BY DEF GoogleInv, GoogleLinksHold, OneAccountPerIdentity, LinkOutlivesItsSessions
<1>3. \A h \in Flows : FlowOK(h)'
  BY <1>1 DEF GoogleInv, FlowOK
<1>4. \A w \in Windows : SessionOK(w)'
  BY DEF GoogleInv, SessionOK
<1>. QED  BY <1>1, <1>2, <1>3, <1>4 DEF GoogleInv

\* There is a number that no flow has while a flow is free to be started.
LEMMA ANumberIsLeft ==
  ASSUME NEW f \in Flows, flow[f].session = 0
  PROVE  \E n \in Numbers \ {0} : \A g \in Flows : flow[g].session # n
<1>. SUFFICES ASSUME \A n \in Flows : \E g \in Flows : flow[g].session = n PROVE FALSE
  BY GoogleAssumption DEF Numbers, Flows
<1>. DEFINE holder == [n \in Flows |-> CHOOSE g \in Flows : flow[g].session = n]
<1>1. \A n \in Flows : holder[n] \in Flows \ {f} /\ flow[holder[n]].session = n
  BY GoogleAssumption DEF Flows
<1>2. holder \in [Flows -> Flows \ {f}]
  BY <1>1
<1>. HIDE DEF holder
<1>3. IsFiniteSet(Flows) /\ Cardinality(Flows) \in Nat
  <2>1. IsFiniteSet(1..MaxFlows)
    BY GoogleAssumption, FS_Interval
  <2>. QED  BY <2>1, FS_CardinalityType DEF Flows
<1>4. IsFiniteSet(Flows \ {f}) /\ Cardinality(Flows \ {f}) < Cardinality(Flows)
  <2>1. IsFiniteSet(Flows \ {f}) /\ Cardinality(Flows \ {f}) = Cardinality(Flows) - 1
    BY <1>3, FS_RemoveElement
  <2>. QED  BY <1>3, <2>1
<1>5. \E m, n \in Flows : m # n /\ holder[m] = holder[n]
  BY <1>2, <1>3, <1>4, FS_PigeonHole
<1>. QED  BY <1>1, <1>5

LEMMA DroppedIsAFlow ==
  ASSUME GoogleInv, NEW f \in Flows
  PROVE  Dropped(f) \in Flow /\ Dropped(f).kept = FALSE /\ Dropped(f).status # "ready"
<1>. DEFINE rest == IF flow[f].status = "exchanging" THEN "exchanging" ELSE "none"
<1>1. rest \in {"exchanging", "none"} /\ Dropped(f) = [NoFlow EXCEPT !.status = rest]
  BY DEF Dropped
<1>. HIDE DEF rest
<1>2. 0 \in Numbers
  BY GoogleAssumption DEF Numbers
<1>3. NoFlow \in Flow /\ NoFlow.kept = FALSE
  BY <1>2, GoogleAssumption DEF Flow, NoFlow
<1>4. Dropped(f) \in Flow
  BY <1>1, <1>3 DEF Flow
<1>5. Dropped(f).kept = FALSE
  BY <1>1, <1>3 DEF Flow
<1>6. Dropped(f).status # "ready"
  BY <1>1, <1>3 DEF Flow
<1>. QED  BY <1>4, <1>5, <1>6

LEMMA GoogleStarts == GoogleInit => GoogleInv
<1>. SUFFICES ASSUME GoogleInit PROVE GoogleInv
  OBVIOUS
<1>1. GoogleTypeOK
  BY GoogleAssumption DEF GoogleInit, GoogleTypeOK, Person, Session, Flow, NoSession, NoFlow, Numbers
<1>2. GoogleLinksHold
  BY GoogleAssumption DEF GoogleInit, GoogleLinksHold, OneAccountPerIdentity, LinkOutlivesItsSessions, NoSession
<1>. QED  BY <1>1, <1>2, GoogleAssumption DEF GoogleInit, GoogleInv, FlowOK, SessionOK, NoFlow, NoSession

\* A window signs in, or out; whoever came in by an identity came in by the one of the account.
LEMMA SessionsStep ==
  ASSUME GoogleInv, UNCHANGED <<person, flow, cut>>, session' \in [Windows -> Session],
         \A v \in Windows : \/ session'[v].of = session[v].of /\ session'[v].by = session[v].by
                            \/ session'[v].by \notin Identities
                            \/ session'[v].of \in People /\ person[session'[v].of].sub = session'[v].by
  PROVE  GoogleInv'
<1>1. GoogleTypeOK' /\ (\A f \in Flows : FlowOK(f)')
  BY DEF GoogleInv, GoogleTypeOK, FlowOK
<1>2. GoogleLinksHold'
  BY DEF GoogleInv, GoogleLinksHold, OneAccountPerIdentity, LinkOutlivesItsSessions
<1>3. \A w \in Windows : SessionOK(w)'
  BY DEF GoogleInv, SessionOK
<1>. QED  BY <1>1, <1>2, <1>3 DEF GoogleInv

LEMMA SignedIn ==
  ASSUME GoogleInv, NEW w \in Windows, NEW a \in People, NEW by \in Identities \cup {"password"},
         NEW revoked \in BOOLEAN, SessionStarts(w, a, by, revoked)
  PROVE  /\ session' \in [Windows -> Session]
         /\ session'[w].of = a /\ session'[w].by = by
         /\ \A v \in Windows \ {w} : session'[v] = IF revoked /\ session[v].of = a THEN NoSession ELSE session[v]
BY GoogleAssumption DEF GoogleInv, GoogleTypeOK, Session, SessionStarts, NoSession, Numbers

LEMMA PasswordSignInKeeps ==
  ASSUME GoogleInv, NEW w \in Windows, NEW a \in People, PasswordSignIn(w, a)
  PROVE  GoogleInv'
<1>1. UNCHANGED <<person, flow, cut>> /\ SessionStarts(w, a, "password", FALSE)
  BY DEF PasswordSignIn
<1>2. session' \in [Windows -> Session] /\ session'[w].by = "password" /\ \A v \in Windows \ {w} : session'[v] = session[v]
  BY <1>1, SignedIn
<1>3. "password" \notin Identities
  BY GoogleAssumption
<1>4. \A v \in Windows : \/ session'[v].of = session[v].of /\ session'[v].by = session[v].by
                         \/ session'[v].by \notin Identities
                         \/ session'[v].of \in People /\ person[session'[v].of].sub = session'[v].by
  <2>. TAKE v \in Windows
  <2>1. CASE v = w
    BY <1>2, <1>3, <2>1
  <2>2. CASE v # w
    BY <1>2, <2>2
  <2>. QED  BY <2>1, <2>2
<1>. QED  BY <1>1, <1>2, <1>4, SessionsStep

LEMMA SignOutHereKeeps ==
  ASSUME GoogleInv, NEW w \in Windows, SignOutHere(w)
  PROVE  GoogleInv'
<1>1. /\ session' \in [Windows -> Session] /\ session'[w].by = "none"
      /\ \A v \in Windows \ {w} : session'[v] = session[v]
  BY GoogleAssumption DEF GoogleInv, GoogleTypeOK, Session, SignOutHere, NoSession, Numbers
<1>2. "none" \notin Identities
  BY GoogleAssumption
<1>3. \A v \in Windows : \/ session'[v].of = session[v].of /\ session'[v].by = session[v].by
                         \/ session'[v].by \notin Identities
                         \/ session'[v].of \in People /\ person[session'[v].of].sub = session'[v].by
  <2>. TAKE v \in Windows
  <2>1. CASE v = w
    BY <1>1, <1>2, <2>1
  <2>2. CASE v # w
    BY <1>1, <2>2
  <2>. QED  BY <2>1, <2>2
<1>. QED  BY <1>1, <1>3, SessionsStep DEF SignOutHere

LEMMA AccountChangesKeeps ==
  ASSUME GoogleInv, NEW a \in People, NEW disabled \in BOOLEAN, AccountChanges(a, disabled)
  PROVE  GoogleInv'
<1>1. /\ person' \in [People -> Person] /\ \A b \in People : person'[b].sub = person[b].sub
      /\ session' \in [Windows -> Session]
      /\ \A w \in Windows : session'[w] = session[w] \/ session'[w] = NoSession
      /\ UNCHANGED <<flow, cut>>
  BY GoogleAssumption DEF GoogleInv, GoogleTypeOK, Person, Session, AccountChanges, NoSession, Numbers
<1>2. NoSession.by \notin Identities
  BY GoogleAssumption DEF NoSession
<1>3. GoogleTypeOK' /\ (\A f \in Flows : FlowOK(f)')
  BY <1>1 DEF GoogleInv, GoogleTypeOK, FlowOK
<1>4. \A w \in Windows : SessionOK(w)'
  BY <1>1, <1>2 DEF GoogleInv, SessionOK
<1>5. OneAccountPerIdentity'
  BY <1>1 DEF GoogleInv, GoogleLinksHold, OneAccountPerIdentity
<1>6. LinkOutlivesItsSessions'
  BY <1>1, <1>2 DEF GoogleInv, SessionOK, GoogleLinksHold, LinkOutlivesItsSessions
<1>. QED  BY <1>3, <1>4, <1>5, <1>6 DEF GoogleInv, GoogleLinksHold

LEMMA StartFlowKeeps ==
  ASSUME GoogleInv, NEW w \in Windows, NEW purpose \in {"signin", "link"}, StartFlow(w, purpose)
  PROVE  GoogleInv'
<1>1. PICK f \in Flows :
        /\ flow[f] = NoFlow
        /\ flow' = [flow EXCEPT ![f] =
             [kept |-> TRUE, status |-> "waiting", launch |-> TRUE, state |-> FALSE, window |-> w,
              session |-> NumberFor(w), account |-> session[w].of, version |-> VersionOf(w),
              purpose |-> purpose, result |-> Nobody]]
  BY DEF StartFlow
<1>2. /\ purpose = "link" => session[w].of # Nobody
      /\ session' = [session EXCEPT ![w].number = NumberFor(w)] /\ UNCHANGED <<person, cut>>
  BY DEF StartFlow
<1>3. session[w].of \in People \cup {Nobody} /\ session[w].number \in Numbers /\ VersionOf(w) \in Nat
  BY DEF GoogleInv, GoogleTypeOK, Session, Person, VersionOf
<1>4. NumberFor(w) \in Numbers
  <2>1. \E n \in Numbers \ {0} : \A g \in Flows : flow[g].session # n
    BY <1>1, ANumberIsLeft DEF NoFlow
  <2>. QED  BY <1>3, <2>1 DEF NumberFor
<1>5. /\ session' \in [Windows -> Session]
      /\ \A v \in Windows : session'[v].of = session[v].of /\ session'[v].by = session[v].by
  BY <1>2, <1>4 DEF GoogleInv, GoogleTypeOK, Session
<1>6. /\ flow'[f] \in Flow /\ flow' \in [Flows -> Flow]
      /\ flow'[f].status = "waiting" /\ flow'[f].account = session[w].of /\ flow'[f].purpose = purpose
      /\ flow'[f].window = w
      /\ \A g \in Flows : g # f => flow'[g] = flow[g]
  BY <1>1, <1>3, <1>4 DEF GoogleInv, GoogleTypeOK, Flow
<1>7. GoogleTypeOK'
  BY <1>2, <1>5, <1>6 DEF GoogleInv, GoogleTypeOK
<1>8. GoogleLinksHold'
  BY <1>2, <1>5 DEF GoogleInv, GoogleLinksHold, OneAccountPerIdentity, LinkOutlivesItsSessions
<1>9. \A g \in Flows : FlowOK(g)'
  <2>1. FlowOK(f)'
    BY <1>2, <1>3, <1>6 DEF FlowOK
  <2>. QED  BY <1>6, <2>1 DEF GoogleInv, FlowOK
<1>10. \A v \in Windows : SessionOK(v)'
  BY <1>5 DEF GoogleInv, SessionOK
<1>. QED  BY <1>7, <1>8, <1>9, <1>10 DEF GoogleInv

\* The link is opened, the browser comes back, Google answers, the flow is pruned or refused.
LEMMA FlowMovesKeeps ==
  ASSUME GoogleInv, NEW f \in Flows,
         \/ Launch(f) \/ (\E code \in BOOLEAN : Callback(f, code))
         \/ (\E s \in Identities \cup {Nobody} : ExchangeEnds(f, s))
         \/ FlowGoes(f) \/ CompleteRefused(f)
  PROVE  GoogleInv'
<1>. flow[f] \in Flow /\ FlowOK(f) /\ flow \in [Flows -> Flow]
  BY DEF GoogleInv, GoogleTypeOK
<1>1. CASE Launch(f)
  <2>. DEFINE g == [flow[f] EXCEPT !.launch = FALSE, !.state = TRUE]
  <2>1. g \in Flow /\ flow' = [flow EXCEPT ![f] = g]
    BY <1>1 DEF Flow, Launch
  <2>2. FlowOK(f)'
    BY <1>1 DEF Flow, FlowOK, Launch
  <2>. QED  BY <1>1, <2>1, <2>2, FlowsStep DEF Launch
<1>2. ASSUME NEW code \in BOOLEAN, Callback(f, code) PROVE GoogleInv'
  <2>. DEFINE to == IF code /\ Cardinality(Exchanging) < MaxExchanges THEN "exchanging" ELSE "failed"
              g == [flow[f] EXCEPT !.state = FALSE, !.status = to]
  <2>1. to \in {"exchanging", "failed"} /\ flow' = [flow EXCEPT ![f] = g]
    BY <1>2 DEF Callback
  <2>. HIDE DEF to
  <2>2. g \in Flow
    BY <2>1 DEF Flow
  <2>3. FlowOK(f)'
    BY <2>1 DEF Flow, FlowOK
  <2>. QED  BY <1>2, <2>1, <2>2, <2>3, FlowsStep DEF Callback
<1>3. ASSUME NEW s \in Identities \cup {Nobody}, ExchangeEnds(f, s) PROVE GoogleInv'
  <2>. DEFINE to == IF s = Nobody THEN "failed" ELSE "ready"
              g == IF ~flow[f].kept THEN NoFlow ELSE [flow[f] EXCEPT !.result = s, !.status = to]
  <2>1. to \in {"failed", "ready"} /\ (to = "ready" => s \in Identities) /\ flow' = [flow EXCEPT ![f] = g]
    BY <1>3 DEF ExchangeEnds
  <2>. HIDE DEF to
  <2>2. g \in Flow
    <3>1. NoFlow \in Flow
      BY GoogleAssumption DEF Flow, NoFlow, Numbers
    <3>2. [flow[f] EXCEPT !.result = s, !.status = to] \in Flow
      BY <2>1 DEF Flow
    <3>. QED  BY <3>1, <3>2
  <2>3. FlowOK(f)'
    BY <2>1 DEF Flow, FlowOK, NoFlow
  <2>. QED  BY <1>3, <2>1, <2>2, <2>3, FlowsStep DEF ExchangeEnds
<1>4. CASE FlowGoes(f) \/ CompleteRefused(f)
  <2>1. flow' = [flow EXCEPT ![f] = Dropped(f)]
    BY <1>4 DEF FlowGoes, CompleteRefused
  <2>2. FlowOK(f)'
    BY <2>1, DroppedIsAFlow DEF FlowOK
  <2>. QED  BY <1>4, <2>1, <2>2, DroppedIsAFlow, FlowsStep DEF FlowGoes, CompleteRefused
<1>. QED  BY <1>1, <1>2, <1>3, <1>4

LEMMA CompleteSignInKeeps ==
  ASSUME GoogleInv, NEW f \in Flows, CompleteSignIn(f)
  PROVE  GoogleInv'
<1>1. PICK a \in People : person[a].sub = flow[f].result /\ SessionStarts(flow[f].window, a, flow[f].result, FALSE)
  BY DEF CompleteSignIn
<1>2. flow[f].window \in Windows /\ flow[f].result \in Identities
  BY DEF GoogleInv, FlowOK, CompleteSignIn, Ready
<1>3. /\ session' \in [Windows -> Session]
      /\ session'[flow[f].window].of = a /\ session'[flow[f].window].by = flow[f].result
      /\ \A v \in Windows \ {flow[f].window} : session'[v] = session[v]
  <2>1. ASSUME NEW w \in Windows, NEW by \in Identities, SessionStarts(w, a, by, FALSE)
        PROVE  /\ session' \in [Windows -> Session] /\ session'[w].of = a /\ session'[w].by = by
               /\ \A v \in Windows \ {w} : session'[v] = session[v]
    <3>1. by \in Identities \cup {"password"} /\ FALSE \in BOOLEAN
      OBVIOUS
    <3>2. /\ session' \in [Windows -> Session] /\ session'[w].of = a /\ session'[w].by = by
          /\ \A v \in Windows \ {w} : session'[v] = IF FALSE /\ session[v].of = a THEN NoSession ELSE session[v]
      BY <2>1, <3>1, SignedIn, Zenon
    <3>. QED  BY <3>2
  <2>. QED  BY <1>1, <1>2, <2>1
<1>4. /\ UNCHANGED <<person, cut>> /\ flow' \in [Flows -> Flow]
      /\ flow'[f].kept = FALSE /\ flow'[f].status # "ready" /\ \A g \in Flows : g # f => flow'[g] = flow[g]
  BY DroppedIsAFlow DEF CompleteSignIn, GoogleInv, GoogleTypeOK
<1>5. GoogleTypeOK'
  BY <1>3, <1>4 DEF GoogleInv, GoogleTypeOK
<1>6. \A g \in Flows : FlowOK(g)'
  BY <1>4 DEF GoogleInv, FlowOK
<1>7. OneAccountPerIdentity' /\ LinkOutlivesItsSessions'
  BY <1>1, <1>3, <1>4 DEF GoogleInv, GoogleLinksHold, OneAccountPerIdentity, LinkOutlivesItsSessions
<1>8. \A v \in Windows : SessionOK(v)'
  BY <1>3 DEF GoogleInv, SessionOK
<1>. QED  BY <1>5, <1>6, <1>7, <1>8 DEF GoogleInv, GoogleLinksHold

\* An account gets an identity of its own or loses the one it has, and its sessions end.
LEMMA RelinkedKeeps ==
  ASSUME GoogleInv, NEW w \in Windows, NEW a \in People, NEW subject \in Identities \cup {Nobody},
         NEW by \in Identities \cup {"password"}, by \in Identities => by = subject,
         person' = [person EXCEPT ![a] = [sub |-> subject, disabled |-> person[a].disabled, version |-> person[a].version + 1]],
         subject \in Identities => LinkedTo(subject, a) = {},
         SessionStarts(w, a, by, TRUE),
         cut' = cut \ {a}, flow' \in [Flows -> Flow], \A f \in Flows : FlowOK(f)'
  PROVE  GoogleInv'
<1>1. /\ person' \in [People -> Person] /\ person'[a].sub = subject
      /\ \A b \in People \ {a} : person'[b] = person[b]
  BY DEF GoogleInv, GoogleTypeOK, Person
<1>2. /\ session' \in [Windows -> Session]
      /\ session'[w].of = a /\ session'[w].by = by
      /\ \A v \in Windows \ {w} : session'[v] = IF session[v].of = a THEN NoSession ELSE session[v]
  BY GoogleAssumption DEF GoogleInv, GoogleTypeOK, Session, SessionStarts, NoSession, Numbers
<1>3. GoogleTypeOK'
  BY <1>1, <1>2 DEF GoogleInv, GoogleTypeOK
<1>4. OneAccountPerIdentity'
  BY <1>1 DEF GoogleInv, GoogleLinksHold, OneAccountPerIdentity, LinkedTo
<1>5. NoSession.by \notin Identities
  BY GoogleAssumption DEF NoSession
<1>6. \A v \in Windows : SessionOK(v)'
  BY <1>2, <1>5 DEF GoogleInv, SessionOK
<1>7. LinkOutlivesItsSessions'
  <2>. SUFFICES ASSUME NEW v \in Windows, session'[v].by \in Identities
                PROVE  person'[session'[v].of].sub = session'[v].by \/ session'[v].of \in cut'
    BY DEF LinkOutlivesItsSessions
  <2>1. CASE v = w
    BY <1>1, <1>2, <2>1
  <2>2. CASE v # w
    <3>1. session'[v] = session[v] /\ session[v].of # a /\ session[v].of \in People
      BY <1>2, <1>5, <2>2 DEF GoogleInv, SessionOK
    <3>. QED  BY <1>1, <3>1 DEF GoogleInv, GoogleLinksHold, LinkOutlivesItsSessions
  <2>. QED  BY <2>1, <2>2
<1>. QED  BY <1>3, <1>4, <1>6, <1>7 DEF GoogleInv, GoogleLinksHold

LEMMA CompleteLinkKeeps ==
  ASSUME GoogleInv, NEW f \in Flows, CompleteLink(f)
  PROVE  GoogleInv'
<1>1. flow[f].window \in Windows /\ flow[f].account \in People /\ flow[f].result \in Identities
  BY DEF GoogleInv, FlowOK, CompleteLink, Ready
<1>2. /\ flow' \in [Flows -> Flow]
      /\ flow'[f].kept = FALSE /\ flow'[f].status # "ready" /\ \A g \in Flows : g # f => flow'[g] = flow[g]
  BY DroppedIsAFlow DEF CompleteLink, GoogleInv, GoogleTypeOK
<1>3. \A g \in Flows : FlowOK(g)'
  BY <1>2 DEF GoogleInv, FlowOK
<1>. QED  BY <1>1, <1>2, <1>3, RelinkedKeeps DEF CompleteLink

LEMMA UnlinkKeeps ==
  ASSUME GoogleInv, NEW w \in Windows, Unlink(w)
  PROVE  GoogleInv'
<1>. DEFINE a == session[w].of
<1>1. a \in People
  BY DEF GoogleInv, GoogleTypeOK, Session, Unlink
<1>2. \A f \in Flows : FlowOK(f)'
  BY DEF GoogleInv, FlowOK, Unlink
<1>. QED  BY <1>1, <1>2, RelinkedKeeps, GoogleAssumption DEF Unlink, Unlinked, GoogleInv, GoogleTypeOK

\* The server stops after the link is gone: the account is marked.
LEMMA UnlinkCutShortKeeps ==
  ASSUME GoogleInv, NEW w \in Windows, UnlinkCutShort(w)
  PROVE  GoogleInv'
<1>1. PICK a \in People : a = session[w].of
  BY DEF GoogleInv, GoogleTypeOK, Session, UnlinkCutShort
<1>2. /\ person' \in [People -> Person] /\ person'[a].sub = Nobody
      /\ \A b \in People \ {a} : person'[b] = person[b]
      /\ cut' = cut \cup {a} /\ UNCHANGED <<session, flow>>
  BY <1>1 DEF GoogleInv, GoogleTypeOK, Person, UnlinkCutShort, Unlinked
<1>3. GoogleTypeOK'
  BY <1>2 DEF GoogleInv, GoogleTypeOK
<1>4. OneAccountPerIdentity'
  BY <1>2 DEF GoogleInv, GoogleLinksHold, OneAccountPerIdentity
<1>5. LinkOutlivesItsSessions'
  BY <1>2 DEF GoogleInv, GoogleLinksHold, LinkOutlivesItsSessions, SessionOK
<1>6. (\A f \in Flows : FlowOK(f)') /\ (\A v \in Windows : SessionOK(v)')
  BY <1>2 DEF GoogleInv, FlowOK, SessionOK
<1>. QED  BY <1>3, <1>4, <1>5, <1>6 DEF GoogleInv, GoogleLinksHold

LEMMA ServerRestartsKeeps ==
  ASSUME GoogleInv, ServerRestarts
  PROVE  GoogleInv'
<1>1. UNCHANGED <<person, session, cut>> /\ flow' \in [Flows -> Flow] /\ \A f \in Flows : flow'[f] = NoFlow
  BY GoogleAssumption DEF ServerRestarts, NoFlow, Flow, Numbers
<1>2. GoogleTypeOK' /\ (\A w \in Windows : SessionOK(w)') /\ (\A f \in Flows : FlowOK(f)')
  BY <1>1 DEF GoogleInv, GoogleTypeOK, SessionOK, FlowOK, NoFlow
<1>3. GoogleLinksHold'
  BY <1>1 DEF GoogleInv, GoogleLinksHold, OneAccountPerIdentity, LinkOutlivesItsSessions
<1>. QED  BY <1>2, <1>3 DEF GoogleInv

LEMMA GoogleStep == ASSUME GoogleInv, [GoogleNext]_googlevars PROVE GoogleInv'
<1>1. CASE UNCHANGED googlevars
  BY <1>1 DEF googlevars, GoogleInv, GoogleTypeOK, GoogleLinksHold, OneAccountPerIdentity,
     LinkOutlivesItsSessions, FlowOK, SessionOK
<1>2. CASE ServerRestarts \/ \E a \in People : \E disabled \in BOOLEAN : AccountChanges(a, disabled)
  BY <1>2, ServerRestartsKeeps, AccountChangesKeeps
<1>3. ASSUME NEW w \in Windows,
             \/ SignOutHere(w) \/ Unlink(w) \/ UnlinkCutShort(w)
             \/ \E a \in People : PasswordSignIn(w, a)
             \/ \E purpose \in {"signin", "link"} : StartFlow(w, purpose)
      PROVE  GoogleInv'
  BY <1>3, SignOutHereKeeps, UnlinkKeeps, UnlinkCutShortKeeps, PasswordSignInKeeps, StartFlowKeeps
<1>4. ASSUME NEW f \in Flows,
             \/ Launch(f) \/ \E code \in BOOLEAN : Callback(f, code)
             \/ \E s \in Identities \cup {Nobody} : ExchangeEnds(f, s)
             \/ FlowGoes(f) \/ CompleteRefused(f) \/ CompleteLink(f) \/ CompleteSignIn(f)
      PROVE  GoogleInv'
  BY <1>4, FlowMovesKeeps, CompleteLinkKeeps, CompleteSignInKeeps
<1>. QED  BY <1>1, <1>2, <1>3, <1>4 DEF GoogleNext

LEMMA GoogleInvariant == GoogleSpec => []GoogleInv
BY GoogleStarts, GoogleStep, PTL DEF GoogleSpec

\* An identity lets its holder into the one account it is linked to and for no longer,
\* whatever flows are on their way in other windows (google_oidc.py, webui._google_post).
THEOREM IdentitiesLetIntoTheirAccount == GoogleSpec => []GoogleLinksHold
<1>1. GoogleInv => GoogleLinksHold
  BY DEF GoogleInv
<1>. QED  BY <1>1, GoogleInvariant, PTL

-----------------------------------------------------------------------------
\* A call to a model (Models)

LastTry == tries[Len(tries)]

\* Until something is given, an endpoint that is asked again had trouble that may pass, and
\* a stream has only given lines.
CompletionsInv ==
  /\ CompletionsTypeOK
  /\ calling = "none" => given = Pending /\ tries = <<>>
  /\ given = Pending =>
       /\ told = "none"
       /\ calling = "stream" => tries \in {<<>>, <<"reply">>}
       /\ calling # "stream" => Len(tries) < HttpAttempts /\ \A i \in DOMAIN tries : WorthRetrying(tries[i])
  /\ CompletionsAreHonest

LEMMA CompletionsStart == CompletionsInit => CompletionsInv
<1>. SUFFICES ASSUME CompletionsInit PROVE CompletionsInv
  OBVIOUS
<1>. USE DEF CompletionsInit
<1>1. Len(tries) = 0 /\ DOMAIN tries = {} /\ Pending = [kind |-> "pending", says |-> "none", cut |-> FALSE]
  BY DEF Pending, Bare
<1>2. CompletionsTypeOK
  <2>1. tries \in Seq(Trouble \cup {"reply", "cut"})
    BY EmptySeq
  <2>2. given.kind = "pending"
    BY <1>1
  <2>3. Len(tries) <= HttpAttempts
    BY <1>1, HttpAssumption
  <2>. QED  BY <2>1, <2>2, <2>3 DEF CompletionsTypeOK
<1>3. CompletionsAreHonest
  BY <1>1 DEF CompletionsAreHonest, AskedAgainOnlyWhereItHelps, GivenIsTheAnswer, NothingIsExplained, SlowRoutesSayNothing
<1>. QED  BY <1>1, <1>2, <1>3, HttpAssumption DEF CompletionsInv

LEMMA OneTryMore ==
  ASSUME CompletionsInv, NEW what \in Trouble \cup {"reply", "cut"}, Len(tries) < HttpAttempts,
         tries' = Append(tries, what), \A i \in DOMAIN tries : WorthRetrying(tries[i])
  PROVE  /\ tries' \in Seq(Trouble \cup {"reply", "cut"}) /\ Len(tries') <= HttpAttempts
         /\ Len(tries') = Len(tries) + 1 /\ LastTry' = what /\ tries' # <<>>
         /\ AskedAgainOnlyWhereItHelps'
         /\ WorthRetrying(what) => \A i \in DOMAIN tries' : WorthRetrying(tries'[i])
<1>1. /\ tries \in Seq(Trouble \cup {"reply", "cut"}) /\ Len(tries) \in Nat /\ HttpAttempts \in Nat
      /\ DOMAIN tries = 1..Len(tries)
  BY HttpAssumption DEF CompletionsInv, CompletionsTypeOK
<1>2. /\ tries' \in Seq(Trouble \cup {"reply", "cut"}) /\ Len(tries') = Len(tries) + 1
      /\ \A i \in 1..Len(tries) : tries'[i] = tries[i]
      /\ tries'[Len(tries) + 1] = what /\ tries' # <<>> /\ DOMAIN tries' = 1..(Len(tries) + 1)
  BY <1>1, AppendProperties
<1>3. AskedAgainOnlyWhereItHelps'
  BY <1>1, <1>2 DEF AskedAgainOnlyWhereItHelps, WorthRetrying
<1>4. ASSUME WorthRetrying(what), NEW i \in DOMAIN tries' PROVE WorthRetrying(tries'[i])
  <2>1. i \in 1..Len(tries) \/ i = Len(tries) + 1
    BY <1>1, <1>2
  <2>. QED  BY <1>1, <1>2, <1>4, <2>1
<1>. QED  BY <1>1, <1>2, <1>3, <1>4 DEF LastTry

\* What a caller makes of a reply is the answer, and says when it was cut.
LEMMA ReadIsHonest ==
  ASSUME NEW r \in EndpointReplies, calling \in ModelCalls, calling # "stream"
  PROVE  /\ Read(r).kind \in {"nothing", "text", "decision", "canned", "up"}
         /\ Read(r).kind = "text" => Read(r).says = "words"
         /\ Read(r).kind = "text" /\ calling = "answer" => Read(r).cut = r.cut
<1>1. CASE calling = "plan"
  BY <1>1 DEF Read, EndpointReplies, Words, Interpreted, Stripped, Text, Nothing, Bare, Monologue
<1>2. CASE calling = "ping"
  BY <1>2 DEF Read, Bare
<1>3. CASE calling = "answer"
  BY <1>3 DEF Read, EndpointReplies, Words, Stripped, Text, Nothing, Bare, Monologue
<1>4. CASE calling \in {"narrate", "describe"}
  BY <1>4 DEF Read, EndpointReplies, Words, Stripped, Text, Nothing, Bare, Monologue
<1>. QED  BY <1>1, <1>2, <1>3, <1>4 DEF ModelCalls

LEMMA TroubleIsTold ==
  ASSUME NEW what \in Trouble, calling \in ModelCalls
  PROVE  /\ OnTrouble(what).kind \in {"nothing", "decision", "canned", "raised", "down"}
         /\ OnTrouble(what).kind = "nothing" => Handled(what)
         /\ calling = "plan" /\ what = "slow" => OnTrouble(what).says = "none"
         /\ Class(what) \in {"broken", "degraded"} /\ (Class(what) = "broken" => what = "wrong")
<1>1. Class(what) \in {"broken", "degraded"} /\ (Class(what) = "broken" => what = "wrong")
  BY DEF Class
<1>3. CASE ~Handled(what)
  <2>1. OnTrouble(what) = [kind |-> "raised", says |-> "none", cut |-> FALSE]
    BY <1>3 DEF OnTrouble, Bare
  <2>. QED  BY <1>1, <2>1
<1>4. CASE Handled(what) /\ calling = "ping"
  <2>1. OnTrouble(what) = [kind |-> "down", says |-> "none", cut |-> FALSE]
    BY <1>4 DEF OnTrouble, Bare
  <2>. QED  BY <1>1, <1>4, <2>1
<1>5. CASE Handled(what) /\ calling = "plan"
  <2>1. OnTrouble(what) = IF what = "slow" THEN [kind |-> "decision", says |-> "none", cut |-> FALSE]
                          ELSE [kind |-> "canned", says |-> "unreachable", cut |-> FALSE]
    BY <1>5 DEF OnTrouble, Bare
  <2>. QED  BY <1>1, <1>5, <2>1
<1>6. CASE Handled(what) /\ calling \notin {"ping", "plan"}
  <2>1. OnTrouble(what) = [kind |-> "nothing", says |-> "none", cut |-> FALSE]
    BY <1>6 DEF OnTrouble, Nothing, Bare
  <2>. QED  BY <1>1, <1>6, <2>1
<1>. QED  BY <1>3, <1>4, <1>5, <1>6

\* A call that is answered, or given up, has got something that is not pending.
LEMMA CallOver ==
  ASSUME CompletionsTypeOK', calling' # "none", given' # Pending, CompletionsAreHonest'
  PROVE  CompletionsInv'
BY DEF CompletionsInv, Pending, Bare

LEMMA CallModelStep ==
  ASSUME CompletionsInv, NEW kind \in ModelCalls, CallModel(kind) PROVE CompletionsInv'
<1>. USE DEF CallModel
<1>1. CompletionsTypeOK'
  BY DEF CompletionsInv, CompletionsTypeOK
<1>2. Len(tries) = 0 /\ tries = <<>> /\ DOMAIN tries = {} /\ given = Pending /\ given.kind = "pending" /\ told = "none"
  BY DEF CompletionsInv, Pending, Bare
<1>3. CompletionsAreHonest'
  BY <1>2 DEF CompletionsInv, CompletionsAreHonest, AskedAgainOnlyWhereItHelps, GivenIsTheAnswer, NothingIsExplained,
              SlowRoutesSayNothing
<1>. QED  BY <1>1, <1>2, <1>3, HttpAssumption DEF CompletionsInv, ModelCalls

LEMMA WaitingFacts ==
  ASSUME CompletionsInv, Waiting
  PROVE  /\ calling \in ModelCalls /\ calling \notin {"none", "stream"} /\ told = "none" /\ given = Pending
         /\ Len(tries) < HttpAttempts /\ \A i \in DOMAIN tries : WorthRetrying(tries[i])
BY DEF CompletionsInv, CompletionsTypeOK, Waiting

LEMMA ReceiveStep ==
  ASSUME CompletionsInv, NEW r \in EndpointReplies, Receive(r) PROVE CompletionsInv'
<1>. DEFINE what == IF r.cut THEN "cut" ELSE "reply"
<1>1. /\ calling \in ModelCalls /\ calling \notin {"none", "stream"} /\ told = "none" /\ calling' = calling
      /\ told' = told /\ streamed' = streamed /\ cutOff' = cutOff
      /\ tries' = Append(tries, what) /\ given' = Read(r)
      /\ Len(tries) < HttpAttempts /\ \A i \in DOMAIN tries : WorthRetrying(tries[i])
  BY WaitingFacts DEF Receive
<1>2. what \in {"reply", "cut"} /\ (what = "cut") = r.cut /\ what \in Trouble \cup {"reply", "cut"}
  BY DEF EndpointReplies
<1>3. what \notin Trouble
  BY <1>2 DEF Trouble
<1>. HIDE DEF what
<1>4. /\ tries' \in Seq(Trouble \cup {"reply", "cut"}) /\ Len(tries') <= HttpAttempts /\ LastTry' = what
      /\ AskedAgainOnlyWhereItHelps'
  BY <1>1, <1>2, OneTryMore
<1>5. /\ given'.kind \in {"nothing", "text", "decision", "canned", "up"}
      /\ given'.kind = "text" => given'.says = "words"
      /\ given'.kind = "text" /\ calling = "answer" => given'.cut = r.cut
  BY <1>1, ReadIsHonest
<1>6. CompletionsTypeOK'
  BY <1>1, <1>4, <1>5 DEF CompletionsTypeOK, CompletionsInv
<1>7. GivenIsTheAnswer'
  BY <1>1, <1>2, <1>4, <1>5 DEF GivenIsTheAnswer, LastTry
<1>8. NothingIsExplained'
  BY <1>1, <1>3, <1>4 DEF NothingIsExplained, LastTry
<1>9. SlowRoutesSayNothing'
  BY <1>2, <1>4 DEF SlowRoutesSayNothing, LastTry
<1>. QED  BY <1>1, <1>4, <1>5, <1>6, <1>7, <1>8, <1>9, CallOver DEF CompletionsAreHonest, Pending, Bare

LEMMA GiveUpStep ==
  ASSUME CompletionsInv, NEW what \in Trouble, GiveUp(what) PROVE CompletionsInv'
<1>1. /\ calling \in ModelCalls /\ calling \notin {"none", "stream"} /\ told = "none" /\ calling' = calling
      /\ streamed' = streamed /\ cutOff' = cutOff
      /\ tries' = Append(tries, what) /\ given' = OnTrouble(what)
      /\ told' = IF Handled(what) /\ calling \in {"answer", "plan", "ping"} THEN Class(what) ELSE told
      /\ Len(tries) < HttpAttempts /\ \A i \in DOMAIN tries : WorthRetrying(tries[i])
  BY WaitingFacts DEF GiveUp
<1>2. /\ tries' \in Seq(Trouble \cup {"reply", "cut"}) /\ Len(tries') <= HttpAttempts /\ LastTry' = what
      /\ AskedAgainOnlyWhereItHelps'
  BY <1>1, OneTryMore
<1>3. /\ given'.kind \in {"nothing", "decision", "canned", "raised", "down"}
      /\ given'.kind = "nothing" => Handled(what)
      /\ calling = "plan" /\ what = "slow" => given'.says = "none"
      /\ Class(what) \in {"broken", "degraded"} /\ (Class(what) = "broken" => what = "wrong")
  BY <1>1, TroubleIsTold
<1>4. CompletionsTypeOK'
  BY <1>1, <1>2, <1>3 DEF CompletionsTypeOK, CompletionsInv
<1>5. GivenIsTheAnswer'
  BY <1>3 DEF GivenIsTheAnswer
<1>6. NothingIsExplained'
  BY <1>1, <1>2, <1>3 DEF NothingIsExplained, LastTry
<1>7. SlowRoutesSayNothing'
  BY <1>1, <1>2, <1>3 DEF SlowRoutesSayNothing, LastTry
<1>. QED  BY <1>1, <1>2, <1>3, <1>4, <1>5, <1>6, <1>7, CallOver DEF CompletionsAreHonest, Pending, Bare

LEMMA TryAgainStep ==
  ASSUME CompletionsInv, NEW what \in Trouble, TryAgain(what) PROVE CompletionsInv'
<1>1. /\ calling \in ModelCalls /\ calling \notin {"none", "stream"} /\ told = "none" /\ calling' = calling
      /\ told' = told /\ streamed' = streamed /\ cutOff' = cutOff /\ given = Pending /\ given' = given
      /\ tries' = Append(tries, what) /\ WorthRetrying(what) /\ Len(tries) < HttpAttempts - 1
      /\ Len(tries) < HttpAttempts /\ \A i \in DOMAIN tries : WorthRetrying(tries[i])
  BY WaitingFacts DEF TryAgain
<1>2. /\ tries' \in Seq(Trouble \cup {"reply", "cut"}) /\ Len(tries') <= HttpAttempts
      /\ Len(tries') = Len(tries) + 1 /\ AskedAgainOnlyWhereItHelps'
      /\ \A i \in DOMAIN tries' : WorthRetrying(tries'[i])
  BY <1>1, OneTryMore
<1>3. given.kind = "pending"
  BY <1>1 DEF Pending, Bare
<1>4. CompletionsTypeOK'
  BY <1>1, <1>2, <1>3 DEF CompletionsTypeOK, CompletionsInv
<1>5. GivenIsTheAnswer' /\ NothingIsExplained' /\ SlowRoutesSayNothing'
  BY <1>1, <1>3 DEF GivenIsTheAnswer, NothingIsExplained, SlowRoutesSayNothing
<1>6. Len(tries') < HttpAttempts
  <2>1. Len(tries) \in Nat
    BY DEF CompletionsInv, CompletionsTypeOK
  <2>. QED  BY <1>1, <1>2, <2>1, HttpAssumption
<1>. QED  BY <1>1, <1>2, <1>4, <1>5, <1>6 DEF CompletionsInv, CompletionsAreHonest

\* A stream has one try.
LEMMA OneTry ==
  ASSUME NEW what \in Trouble \cup {"reply", "cut"}, tries' = <<what>>
  PROVE  /\ tries' \in Seq(Trouble \cup {"reply", "cut"}) /\ Len(tries') = 1 /\ Len(tries') <= HttpAttempts
         /\ LastTry' = what /\ AskedAgainOnlyWhereItHelps'
<1>1. tries' \in Seq(Trouble \cup {"reply", "cut"}) /\ Len(tries') = 1 /\ tries'[1] = what
  OBVIOUS
<1>. QED  BY <1>1, HttpAssumption DEF LastTry, AskedAgainOnlyWhereItHelps

LEMMA StreamFailsStep ==
  ASSUME CompletionsInv, NEW what \in Trouble, StreamFails(what) PROVE CompletionsInv'
<1>1. /\ calling = "stream" /\ calling' = calling /\ tries' = <<what>> /\ given' = OnTrouble(what) /\ told = "none"
      /\ told' = IF Handled(what) THEN Class(what) ELSE told
      /\ streamed' = streamed /\ cutOff' = cutOff
  BY DEF StreamFails, CompletionsInv
<1>2. /\ tries' \in Seq(Trouble \cup {"reply", "cut"}) /\ Len(tries') <= HttpAttempts /\ LastTry' = what
      /\ AskedAgainOnlyWhereItHelps'
  BY <1>1, OneTry
<1>3. /\ given'.kind \in {"nothing", "decision", "canned", "raised", "down"}
      /\ given'.kind = "nothing" => Handled(what)
      /\ Class(what) \in {"broken", "degraded"} /\ (Class(what) = "broken" => what = "wrong")
  BY <1>1, TroubleIsTold DEF ModelCalls
<1>4. CompletionsTypeOK'
  BY <1>1, <1>2, <1>3 DEF CompletionsTypeOK, CompletionsInv
<1>5. GivenIsTheAnswer'
  BY <1>3 DEF GivenIsTheAnswer
<1>6. NothingIsExplained'
  BY <1>1, <1>2, <1>3 DEF NothingIsExplained, LastTry
<1>7. SlowRoutesSayNothing'
  BY <1>1 DEF SlowRoutesSayNothing
<1>. QED  BY <1>1, <1>2, <1>3, <1>4, <1>5, <1>6, <1>7, CallOver DEF CompletionsAreHonest, Pending, Bare

LEMMA StreamLineStep ==
  ASSUME CompletionsInv, NEW says \in {"words", "thoughts", "none"}, NEW out \in BOOLEAN, StreamLine(says, out)
  PROVE  CompletionsInv'
<1>1. /\ calling = "stream" /\ calling' = calling /\ tries' = <<"reply">> /\ given = Pending /\ given' = given
      /\ told = "none" /\ told' = told
  BY DEF StreamLine, CompletionsInv
<1>2. streamed' \subseteq {"words", "thoughts"} /\ cutOff' \in BOOLEAN
  BY DEF StreamLine, CompletionsInv, CompletionsTypeOK
<1>3. /\ tries' \in Seq(Trouble \cup {"reply", "cut"}) /\ Len(tries') <= HttpAttempts
      /\ AskedAgainOnlyWhereItHelps'
  BY <1>1, OneTry
<1>4. given.kind = "pending"
  BY <1>1 DEF Pending, Bare
<1>5. CompletionsTypeOK'
  BY <1>1, <1>2, <1>3, <1>4 DEF CompletionsTypeOK, CompletionsInv
<1>6. GivenIsTheAnswer' /\ NothingIsExplained' /\ SlowRoutesSayNothing'
  BY <1>1, <1>4 DEF GivenIsTheAnswer, NothingIsExplained, SlowRoutesSayNothing
<1>. QED  BY <1>1, <1>3, <1>5, <1>6 DEF CompletionsInv, CompletionsAreHonest

LEMMA StreamOverStep ==
  ASSUME CompletionsInv, StreamEnds \/ StreamBreaks PROVE CompletionsInv'
<1>1. /\ calling = "stream" /\ calling' = calling /\ tries = <<"reply">> /\ tries' = <<"reply">>
      /\ told = "none" /\ told' = told /\ streamed' = streamed /\ cutOff' = cutOff
  BY DEF StreamEnds, StreamBreaks, CompletionsInv
<1>2. /\ tries' \in Seq(Trouble \cup {"reply", "cut"}) /\ Len(tries') <= HttpAttempts /\ LastTry' = "reply"
      /\ AskedAgainOnlyWhereItHelps'
  BY <1>1, OneTry
<1>3. given' \in {Text(Tokens, cutOff), Nothing, Bare("raised")}
  BY DEF StreamEnds, StreamBreaks
<1>4. /\ given'.kind \in {"nothing", "text", "raised"}
      /\ given'.kind = "text" => given'.cut = cutOff
  BY <1>3 DEF Text, Nothing, Bare
<1>5. CompletionsTypeOK'
  BY <1>1, <1>2, <1>4 DEF CompletionsTypeOK, CompletionsInv
<1>6. GivenIsTheAnswer'
  BY <1>1, <1>4 DEF GivenIsTheAnswer
<1>7. NothingIsExplained'
  BY <1>1, <1>2 DEF NothingIsExplained, LastTry, Trouble
<1>8. SlowRoutesSayNothing'
  BY <1>1 DEF SlowRoutesSayNothing
<1>. QED  BY <1>1, <1>2, <1>4, <1>5, <1>6, <1>7, <1>8, CallOver DEF CompletionsAreHonest, Pending, Bare

LEMMA CompletionsStep == CompletionsInv /\ [CompletionsNext]_completionvars => CompletionsInv'
<1>. SUFFICES ASSUME CompletionsInv, [CompletionsNext]_completionvars PROVE CompletionsInv'
  OBVIOUS
<1>1. ASSUME NEW kind \in ModelCalls, CallModel(kind) PROVE CompletionsInv'
  BY <1>1, CallModelStep
<1>2. ASSUME NEW r \in EndpointReplies, Receive(r) PROVE CompletionsInv'
  BY <1>2, ReceiveStep
<1>3. ASSUME NEW what \in Trouble, GiveUp(what) \/ TryAgain(what) \/ StreamFails(what) PROVE CompletionsInv'
  BY <1>3, GiveUpStep, TryAgainStep, StreamFailsStep
<1>4. ASSUME NEW says \in {"words", "thoughts", "none"}, NEW out \in BOOLEAN, StreamLine(says, out)
      PROVE  CompletionsInv'
  BY <1>4, StreamLineStep
<1>5. CASE StreamEnds \/ StreamBreaks
  BY <1>5, StreamOverStep
<1>6. CASE UNCHANGED completionvars
  BY <1>6 DEF completionvars, CompletionsInv, CompletionsTypeOK, CompletionsAreHonest, AskedAgainOnlyWhereItHelps,
              GivenIsTheAnswer, NothingIsExplained, SlowRoutesSayNothing
<1>. QED  BY <1>1, <1>2, <1>3, <1>4, <1>5, <1>6 DEF CompletionsNext

-----------------------------------------------------------------------------
\* The model tiers (Models)

\* What a page has been shown is the tier's that is asked, until the turn is over.
ShownOK(turn) ==
  /\ turn.phase = "answered" => turn.shown \subseteq {turn.by}
  /\ turn.phase \notin {"answered", "raised"} => \A t \in turn.shown : t = turn.asking
  /\ turn.asking = "none" /\ turn.phase \notin {"answered", "raised"} => turn.shown = {}
  /\ turn.phase \in {"idle", "answered", "unavailable", "raised"} => turn.asking = "none"

TiersInv == ModelTiersTypeOK /\ \A c \in Chats : ShownOK(chat[c])

Rungs == {"higher", "fast", "recovery", "openrouter"}

LEMMA NotChattingOK == NotChatting \in Chat /\ ShownOK(NotChatting)
BY DEF NotChatting, Chat, Phases, Tiers, ShownOK

LEMMA TiersStart == ModelTiersInit => TiersInv
<1>. SUFFICES ASSUME ModelTiersInit PROVE TiersInv
  OBVIOUS
<1>1. configured \subseteq Tiers
  BY ModelTiersAssumption DEF ModelTiersInit, Tiers
<1>2. Oldest \in Nat /\ Never \in Nat /\ 0 \in Walls /\ 0 \in 0..Oldest /\ Never \in 0..Never
  BY ModelTiersAssumption DEF Oldest, Never, Walls
<1>3. ModelTiersTypeOK
  BY <1>1, <1>2, NotChattingOK DEF ModelTiersInit, ModelTiersTypeOK
<1>. QED  BY <1>3, NotChattingOK DEF ModelTiersInit, TiersInv

LEMMA CandidatesAreTiers ==
  ASSUME TiersInv, NEW c \in Chats
  PROVE  /\ Candidates(c) \subseteq Tiers
         /\ chat[c].phase \notin Rungs => Candidates(c) = {}
<1>1. chat[c].recover \subseteq Tiers
  BY DEF TiersInv, ModelTiersTypeOK, Chat
<1>. DEFINE ladder == (Ladder(chat[c].level) \cap configured) \ (chat[c].tried \cup chat[c].cooling)
            rest == chat[c].recover \ chat[c].tried
<1>2. ladder \subseteq Tiers
  BY DEF Ladder, Tiers
<1>3. rest \subseteq Tiers
  BY <1>1
<1>4. {"ultra"} \subseteq Tiers /\ {"smart"} \subseteq Tiers /\ {"fast"} \subseteq Tiers /\ {"openrouter"} \subseteq Tiers
  BY DEF Tiers
<1>5. CASE chat[c].phase = "higher"
  <2>1. Candidates(c) = IF "ultra" \in ladder THEN {"ultra"} ELSE ladder
    BY <1>5 DEF Candidates
  <2>. QED  BY <2>1, <1>2, <1>4, <1>5 DEF Rungs
<1>6. CASE chat[c].phase = "fast"
  <2>1. Candidates(c) = {"fast"} \ chat[c].tried
    BY <1>6 DEF Candidates
  <2>. QED  BY <2>1, <1>4, <1>6 DEF Rungs
<1>7. CASE chat[c].phase = "recovery"
  <2>1. Candidates(c) = IF "smart" \in rest THEN {"smart"} ELSE rest
    BY <1>7 DEF Candidates
  <2>. QED  BY <2>1, <1>3, <1>4, <1>7 DEF Rungs
<1>8. CASE chat[c].phase = "openrouter"
  <2>1. Candidates(c) = ({"openrouter"} \cap configured) \ chat[c].tried
    BY <1>8 DEF Candidates
  <2>. QED  BY <2>1, <1>4, <1>8 DEF Rungs
<1>9. CASE chat[c].phase \notin Rungs
  <2>1. Candidates(c) = {}
    BY <1>9 DEF Candidates, Rungs
  <2>. QED  BY <2>1
<1>. QED  BY <1>5, <1>6, <1>7, <1>8, <1>9 DEF Rungs

\* A turn's step leaves the other turns as they are.
LEMMA OneTurn ==
  ASSUME TiersInv, NEW c \in Chats, NEW turn \in Chat, ShownOK(turn), chat' = [chat EXCEPT ![c] = turn]
  PROVE  chat' \in [Chats -> Chat] /\ \A d \in Chats : ShownOK(chat'[d])
<1>1. chat \in [Chats -> Chat] /\ \A d \in Chats : ShownOK(chat[d])
  BY DEF TiersInv, ModelTiersTypeOK
<1>2. \A d \in Chats : chat'[d] = IF d = c THEN turn ELSE chat[d]
  BY <1>1
<1>3. chat' \in [Chats -> Chat]
  BY <1>1
<1>4. ASSUME NEW d \in Chats PROVE ShownOK(chat'[d])
  BY <1>1, <1>2
<1>. QED  BY <1>3, <1>4

LEMMA RecordedTypes ==
  ASSUME TiersInv, NEW t \in Tiers, NEW outcome \in {"ok", "degraded", "broken"}, Recorded(t, outcome)
  PROVE  /\ status' \in [Tiers -> {"ok", "degraded", "broken"}] /\ age' \in [Tiers -> 0..Oldest]
         /\ brokenAt' \in [Tiers -> 0..Never] /\ savedAt' \in [Tiers -> 0..Never]
<1>1. Oldest \in Nat /\ Never \in Nat /\ 0 \in 0..Oldest /\ Never \in 0..Never /\ wall \in 0..Never
  BY ModelTiersAssumption DEF Oldest, Never, Walls, TiersInv, ModelTiersTypeOK
<1>2. status' \in [Tiers -> {"ok", "degraded", "broken"}]
  BY DEF Recorded, TiersInv, ModelTiersTypeOK
<1>3. age' \in [Tiers -> 0..Oldest]
  BY <1>1 DEF Recorded, TiersInv, ModelTiersTypeOK
<1>4. brokenAt' \in [Tiers -> 0..Never]
  <2>. DEFINE at == IF outcome # "broken" THEN Never ELSE IF brokenAt[t] = Never THEN wall ELSE brokenAt[t]
  <2>1. brokenAt \in [Tiers -> 0..Never]
    BY DEF TiersInv, ModelTiersTypeOK
  <2>2. at \in 0..Never
    BY <1>1, <2>1
  <2>3. brokenAt' = [brokenAt EXCEPT ![t] = at]
    BY DEF Recorded
  <2>. HIDE DEF at
  <2>. QED  BY <2>1, <2>2, <2>3
<1>5. savedAt' \in [Tiers -> 0..Never]
  BY <1>4 DEF Recorded, TiersInv, ModelTiersTypeOK
<1>. QED  BY <1>2, <1>3, <1>4, <1>5

LEMMA TimePassesStep == TiersInv /\ TimePasses => TiersInv'
<1>. SUFFICES ASSUME TiersInv, TimePasses PROVE TiersInv'
  OBVIOUS
<1>1. /\ wall \in Nat /\ wall < MaxWall /\ wall' = wall + 1 /\ age \in [Tiers -> 0..Oldest] /\ Oldest \in Nat
      /\ BusyCooldown \in Nat /\ BrokenCooldown \in Nat /\ MaxWall \in Nat
  BY ModelTiersAssumption DEF TimePasses, TiersInv, ModelTiersTypeOK, Oldest, Walls
<1>2. wall' \in Walls
  BY <1>1 DEF Walls
<1>3. ASSUME NEW t \in Tiers, ~ShouldAttempt(t) PROVE age[t] + 1 \in 0..Oldest
  <2>1. Cooldown(t) \in Nat /\ Cooldown(t) <= Oldest
    BY <1>1 DEF Cooldown, Oldest
  <2>2. ~(age[t] >= Cooldown(t)) /\ age[t] \in 0..Oldest
    BY <1>1, <1>3 DEF ShouldAttempt
  <2>. QED  BY <1>1, <2>1, <2>2
<1>4. age' \in [Tiers -> 0..Oldest]
  <2>1. age' = [t \in Tiers |-> IF ShouldAttempt(t) THEN age[t] ELSE age[t] + 1]
    BY DEF TimePasses
  <2>2. \A t \in Tiers : (IF ShouldAttempt(t) THEN age[t] ELSE age[t] + 1) \in 0..Oldest
    BY <1>1, <1>3
  <2>. QED  BY <2>1, <2>2
<1>. QED  BY <1>2, <1>4 DEF TimePasses, TiersInv, ModelTiersTypeOK

LEMMA BeginChatStep ==
  ASSUME TiersInv, NEW c \in Chats, NEW level \in 0..2, BeginChat(c, level) PROVE TiersInv'
<1>. DEFINE turn == [NotChatting EXCEPT !.phase = "higher", !.level = level]
<1>1. turn \in Chat /\ ShownOK(turn)
  BY DEF NotChatting, Chat, Phases, Tiers, ShownOK
<1>2. chat' = [chat EXCEPT ![c] = turn]
  BY DEF BeginChat
<1>. HIDE DEF turn
<1>3. chat' \in [Chats -> Chat] /\ \A d \in Chats : ShownOK(chat'[d])
  BY <1>1, <1>2, OneTurn
<1>. QED  BY <1>3 DEF BeginChat, Remembered, TiersInv, ModelTiersTypeOK

LEMMA AskTierStep == ASSUME TiersInv, NEW c \in Chats, AskTier(c) PROVE TiersInv'
<1>1. PICK t \in Candidates(c) :
        chat' = [chat EXCEPT ![c] = [chat[c] EXCEPT !.asking = t, !.tried = chat[c].tried \cup {t}]]
  BY DEF AskTier
<1>2. t \in Tiers /\ chat[c].phase \in Rungs /\ chat[c] \in Chat /\ ShownOK(chat[c]) /\ chat[c].asking = "none"
  BY <1>1, CandidatesAreTiers DEF AskTier, TiersInv, ModelTiersTypeOK
<1>. DEFINE turn == [chat[c] EXCEPT !.asking = t, !.tried = chat[c].tried \cup {t}]
<1>3. turn \in Chat
  BY <1>2 DEF Chat
<1>4. ShownOK(turn)
  BY <1>2 DEF Chat, ShownOK, Rungs
<1>. HIDE DEF turn
<1>5. chat' \in [Chats -> Chat] /\ \A d \in Chats : ShownOK(chat'[d])
  BY <1>1, <1>3, <1>4, OneTurn DEF turn
<1>. QED  BY <1>5 DEF AskTier, Remembered, TiersInv, ModelTiersTypeOK

LEMMA MoveOnStep == ASSUME TiersInv, NEW c \in Chats, MoveOn(c) PROVE TiersInv'
<1>1. /\ chat[c] \in Chat /\ ShownOK(chat[c]) /\ chat[c].asking = "none" /\ chat[c].phase \in Rungs
      /\ Candidates(c) \subseteq Tiers /\ chat[c].shown = {}
  BY CandidatesAreTiers DEF MoveOn, TiersInv, ModelTiersTypeOK, Rungs, ShownOK
<1>. DEFINE passed == [chat[c] EXCEPT !.cooling = chat[c].cooling \cup Candidates(c)]
            primary == {"smart", "ultra"} \ chat[c].tried
            down == [chat[c] EXCEPT !.phase = "fast", !.cooling = {}, !.level = 0]
            back == [passed EXCEPT !.phase = "recovery", !.recover = ToTry(primary),
                       !.cooling = passed.cooling \cup ((primary \cap configured) \ ToTry(primary))]
            far == [chat[c] EXCEPT !.phase = "openrouter", !.recover = {}]
            off == [passed EXCEPT !.phase = "unavailable"]
            after == CASE chat[c].phase = "higher" -> IF Candidates(c) = {} THEN down ELSE passed
                       [] chat[c].phase = "fast" -> back
                       [] chat[c].phase = "recovery" -> far
                       [] OTHER -> off
<1>2. chat' = [chat EXCEPT ![c] = after]
  BY DEF MoveOn
<1>3. ToTry(primary) \subseteq Tiers /\ primary \subseteq Tiers
  BY DEF ToTry, Tiers
<1>4. /\ passed \in Chat /\ passed.shown = {} /\ passed.asking = "none" /\ passed.phase = chat[c].phase
      /\ passed.cooling \subseteq Tiers
  BY <1>1 DEF Chat
<1>5. down \in Chat /\ down.shown = {} /\ down.asking = "none" /\ down.phase = "fast"
  <2>1. 0 \in 0..2 /\ {} \in SUBSET Tiers /\ "fast" \in Phases
    BY DEF Phases
  <2>2. down \in Chat
    BY <1>1, <2>1 DEF Chat
  <2>3. down.shown = {} /\ down.asking = "none" /\ down.phase = "fast"
    BY <1>1 DEF Chat
  <2>. QED  BY <2>2, <2>3
<1>. HIDE DEF passed, primary
<1>6. back \in Chat /\ back.shown = {} /\ back.asking = "none" /\ back.phase = "recovery"
  <2>1. (primary \cap configured) \ ToTry(primary) \subseteq Tiers
    BY <1>3
  <2>. DEFINE cool == passed.cooling \cup ((primary \cap configured) \ ToTry(primary))
  <2>2. cool \in SUBSET Tiers /\ ToTry(primary) \in SUBSET Tiers
    BY <1>3, <1>4, <2>1
  <2>. HIDE DEF cool
  <2>3. back = [passed EXCEPT !.phase = "recovery", !.recover = ToTry(primary), !.cooling = cool]
    BY DEF cool
  <2>. HIDE DEF back
  <2>. QED  BY <1>4, <2>2, <2>3 DEF Chat, Phases
<1>7. far \in Chat /\ far.shown = {} /\ far.asking = "none" /\ far.phase = "openrouter"
  BY <1>1 DEF Chat, Phases
<1>8. off \in Chat /\ off.shown = {} /\ off.asking = "none" /\ off.phase = "unavailable"
  BY <1>4 DEF Chat, Phases
<1>. HIDE DEF down, back, far, off
<1>9. after \in {passed, down, back, far, off}
  OBVIOUS
<1>10. after \in Chat /\ ShownOK(after)
  BY <1>1, <1>4, <1>5, <1>6, <1>7, <1>8, <1>9 DEF ShownOK, Rungs
<1>. HIDE DEF after
<1>11. chat' \in [Chats -> Chat] /\ \A d \in Chats : ShownOK(chat'[d])
  BY <1>2, <1>10, OneTurn
<1>. QED  BY <1>11 DEF MoveOn, Remembered, TiersInv, ModelTiersTypeOK

LEMMA StreamsStep == ASSUME TiersInv, NEW c \in Chats, Streams(c) PROVE TiersInv'
<1>1. chat[c] \in Chat /\ ShownOK(chat[c]) /\ chat[c].asking \in Tiers /\ chat[c].asking # "none"
  BY DEF Streams, TiersInv, ModelTiersTypeOK, Chat
<1>. DEFINE turn == [chat[c] EXCEPT !.shown = chat[c].shown \cup {chat[c].asking}]
<1>2. turn \in Chat
  BY <1>1 DEF Chat
<1>3. ShownOK(turn)
  BY <1>1 DEF Chat, ShownOK
<1>4. chat' = [chat EXCEPT ![c] = turn]
  BY DEF Streams
<1>. HIDE DEF turn
<1>5. chat' \in [Chats -> Chat] /\ \A d \in Chats : ShownOK(chat'[d])
  BY <1>2, <1>3, <1>4, OneTurn
<1>. QED  BY <1>5 DEF Streams, Remembered, TiersInv, ModelTiersTypeOK

LEMMA AnswersStep == ASSUME TiersInv, NEW c \in Chats, Answers(c) PROVE TiersInv'
<1>1. chat[c] \in Chat /\ ShownOK(chat[c]) /\ chat[c].asking \in Tiers /\ chat[c].asking # "none"
  BY DEF Answers, TiersInv, ModelTiersTypeOK, Chat
<1>. DEFINE turn == [NotChatting EXCEPT !.phase = "answered", !.by = chat[c].asking, !.shown = chat[c].shown]
<1>2. turn \in Chat
  <2>1. NotChatting \in Chat /\ "answered" \in Phases /\ chat[c].shown \in SUBSET Tiers
    BY <1>1, NotChattingOK DEF Chat, Phases
  <2>. HIDE DEF NotChatting
  <2>. QED  BY <1>1, <2>1 DEF Chat
<1>3. ShownOK(turn)
  BY <1>1 DEF Chat, NotChatting, ShownOK
<1>4. chat' = [chat EXCEPT ![c] = turn]
  BY DEF Answers
<1>. HIDE DEF turn
<1>5. chat' \in [Chats -> Chat] /\ \A d \in Chats : ShownOK(chat'[d])
  BY <1>2, <1>3, <1>4, OneTurn
<1>6. /\ status' \in [Tiers -> {"ok", "degraded", "broken"}] /\ age' \in [Tiers -> 0..Oldest]
      /\ brokenAt' \in [Tiers -> 0..Never] /\ savedAt' \in [Tiers -> 0..Never]
  <2>1. Recorded(chat[c].asking, "ok")
    BY DEF Answers
  <2>. QED  BY <1>1, <2>1, RecordedTypes
<1>. QED  BY <1>5, <1>6 DEF Answers, TiersInv, ModelTiersTypeOK

LEMMA TierFailsStep ==
  ASSUME TiersInv, NEW c \in Chats, NEW why \in {"degraded", "broken"}, TierFails(c, why) PROVE TiersInv'
<1>1. chat[c] \in Chat /\ ShownOK(chat[c]) /\ chat[c].asking \in Tiers /\ chat[c].asking # "none"
  BY DEF TierFails, TiersInv, ModelTiersTypeOK, Chat
<1>. DEFINE turn == [chat[c] EXCEPT !.asking = "none", !.shown = {}]
<1>2. turn \in Chat
  BY <1>1 DEF Chat
<1>3. ShownOK(turn)
  BY <1>1 DEF Chat, ShownOK
<1>4. chat' = [chat EXCEPT ![c] = turn]
  BY DEF TierFails
<1>. HIDE DEF turn
<1>5. chat' \in [Chats -> Chat] /\ \A d \in Chats : ShownOK(chat'[d])
  BY <1>2, <1>3, <1>4, OneTurn
<1>6. /\ status' \in [Tiers -> {"ok", "degraded", "broken"}] /\ age' \in [Tiers -> 0..Oldest]
      /\ brokenAt' \in [Tiers -> 0..Never] /\ savedAt' \in [Tiers -> 0..Never]
  <2>1. Recorded(chat[c].asking, why) /\ why \in {"ok", "degraded", "broken"}
    BY DEF TierFails
  <2>. QED  BY <1>1, <2>1, RecordedTypes
<1>. QED  BY <1>5, <1>6 DEF TierFails, TiersInv, ModelTiersTypeOK

LEMMA TierSaysNothingStep ==
  ASSUME TiersInv, NEW c \in Chats, NEW why \in {"degraded", "broken"}, TierSaysNothing(c, why) PROVE TiersInv'
<1>1. /\ chat[c] \in Chat /\ ShownOK(chat[c]) /\ chat[c].asking \in Tiers /\ chat[c].asking # "none"
      /\ chat[c].asking \notin chat[c].shown
  BY DEF TierSaysNothing, TiersInv, ModelTiersTypeOK, Chat
<1>. DEFINE turn == [chat[c] EXCEPT !.asking = "none"]
<1>2. turn \in Chat
  BY <1>1 DEF Chat
<1>3. ShownOK(turn)
  BY <1>1 DEF Chat, ShownOK
<1>4. chat' = [chat EXCEPT ![c] = turn]
  BY DEF TierSaysNothing
<1>. HIDE DEF turn
<1>5. chat' \in [Chats -> Chat] /\ \A d \in Chats : ShownOK(chat'[d])
  BY <1>2, <1>3, <1>4, OneTurn
<1>6. /\ status' \in [Tiers -> {"ok", "degraded", "broken"}] /\ age' \in [Tiers -> 0..Oldest]
      /\ brokenAt' \in [Tiers -> 0..Never] /\ savedAt' \in [Tiers -> 0..Never]
  <2>1. Recorded(chat[c].asking, why) /\ why \in {"ok", "degraded", "broken"}
    BY DEF TierSaysNothing
  <2>. QED  BY <1>1, <2>1, RecordedTypes
<1>. QED  BY <1>5, <1>6 DEF TierSaysNothing, TiersInv, ModelTiersTypeOK

LEMMA ChatRaisesStep == ASSUME TiersInv, NEW c \in Chats, ChatRaises(c) PROVE TiersInv'
<1>1. chat[c] \in Chat
  BY DEF ChatRaises, TiersInv, ModelTiersTypeOK
<1>. DEFINE turn == [NotChatting EXCEPT !.phase = "raised", !.shown = chat[c].shown]
<1>2. turn \in Chat
  <2>1. NotChatting \in Chat /\ "raised" \in Phases /\ chat[c].shown \in SUBSET Tiers
    BY <1>1, NotChattingOK DEF Chat, Phases
  <2>. HIDE DEF NotChatting
  <2>. QED  BY <1>1, <2>1 DEF Chat
<1>3. ShownOK(turn)
  BY <1>1 DEF Chat, NotChatting, ShownOK
<1>4. chat' = [chat EXCEPT ![c] = turn]
  BY DEF ChatRaises
<1>. HIDE DEF turn
<1>5. chat' \in [Chats -> Chat] /\ \A d \in Chats : ShownOK(chat'[d])
  BY <1>2, <1>3, <1>4, OneTurn
<1>. QED  BY <1>5 DEF ChatRaises, Remembered, TiersInv, ModelTiersTypeOK

LEMMA RestartsStep == ASSUME TiersInv, NEW now \in Walls, AssistantRestarts(now) PROVE TiersInv'
<1>1. /\ Oldest \in Nat /\ Never \in Nat /\ BrokenCooldown \in Nat /\ BrokenCooldown <= Oldest
      /\ now \in Nat /\ savedAt \in [Tiers -> 0..Never]
  BY ModelTiersAssumption DEF Oldest, Never, Walls, TiersInv, ModelTiersTypeOK
<1>2. \A at \in 0..Never : AgeOf(at, now) \in 0..Oldest
  BY <1>1 DEF AgeOf
<1>3. age' \in [Tiers -> 0..Oldest]
  <2>1. age' = [t \in Tiers |-> IF savedAt[t] = Never THEN 0 ELSE AgeOf(savedAt[t], now)]
    BY DEF AssistantRestarts
  <2>2. \A t \in Tiers : (IF savedAt[t] = Never THEN 0 ELSE AgeOf(savedAt[t], now)) \in 0..Oldest
    BY <1>1, <1>2
  <2>. QED  BY <2>1, <2>2
<1>4. status' \in [Tiers -> {"ok", "degraded", "broken"}]
  BY DEF AssistantRestarts
<1>5. chat' \in [Chats -> Chat] /\ \A c \in Chats : ShownOK(chat'[c])
  BY NotChattingOK DEF AssistantRestarts
<1>. QED  BY <1>1, <1>3, <1>4, <1>5 DEF AssistantRestarts, TiersInv, ModelTiersTypeOK

LEMMA TiersStep == TiersInv /\ [ModelTiersNext]_tiervars => TiersInv'
<1>. SUFFICES ASSUME TiersInv, [ModelTiersNext]_tiervars PROVE TiersInv'
  OBVIOUS
<1>1. CASE TimePasses
  BY <1>1, TimePassesStep
<1>2. ASSUME NEW now \in Walls, AssistantRestarts(now) PROVE TiersInv'
  BY <1>2, RestartsStep
<1>3. ASSUME NEW c \in Chats, NEW level \in 0..2, BeginChat(c, level) PROVE TiersInv'
  BY <1>3, BeginChatStep
<1>4. ASSUME NEW c \in Chats, AskTier(c) \/ MoveOn(c) \/ Streams(c) \/ Answers(c) \/ ChatRaises(c) PROVE TiersInv'
  BY <1>4, AskTierStep, MoveOnStep, StreamsStep, AnswersStep, ChatRaisesStep
<1>5. ASSUME NEW c \in Chats, NEW why \in {"degraded", "broken"}, TierFails(c, why) \/ TierSaysNothing(c, why)
      PROVE  TiersInv'
  BY <1>5, TierFailsStep, TierSaysNothingStep
<1>6. CASE UNCHANGED tiervars
  BY <1>6 DEF tiervars, TiersInv, ModelTiersTypeOK
<1>. QED  BY <1>1, <1>2, <1>3, <1>4, <1>5, <1>6 DEF ModelTiersNext

LEMMA TiersShow == TiersInv => ShownIsTheAnswer
BY DEF TiersInv, ShownOK, ShownIsTheAnswer

-----------------------------------------------------------------------------
\* An autonomous run (AgentLoop)

\* A command is executed from a whole decision and while steps are left; what Stop overtook
\* is not acted upon.
AgentInv ==
  /\ AgentTypeOK
  /\ \A d \in acted : ~d.cut
  /\ agent = "acting" => ~decision.cut
  /\ agent = "acting" \/ (agent = "asking" /\ asked # "summary") => taken < MaxSteps
  /\ crossed => stopping /\ agent \in {"asking", "left", "failed", "stopped"}

LEMMA AgentStart == AgentInit => AgentInv
<1>1. Silence \in Decisions
  BY DEF Silence, Decisions, Says
<1>2. 1 \in 1..TierCount /\ 0 \in 0..MaxSteps
  BY AgentLoopAssumption
<1>. QED  BY <1>1, <1>2 DEF AgentInit, AgentInv, AgentTypeOK, AgentSteps, Outcomes

\* The effect of whatever the run does with a reply; Stop was not pressed, or it does not answer.
Done(d) ==
  /\ agent' \in {"asking", "acting", "ok", "failed", "stopped"}
  /\ asked' \in {"next", "again", "summary"} /\ tier' \in 1..TierCount /\ decision' \in Decisions
  /\ acted' \subseteq Decisions /\ \A e \in acted' : ~e.cut
  /\ agent' = "acting" => ~decision'.cut /\ taken < MaxSteps
  /\ agent' = "asking" /\ asked' # "summary" => taken < MaxSteps

LEMMA ActDone ==
  ASSUME AgentInv, NEW d \in Decisions, ~d.cut, taken < MaxSteps, Act(d) PROVE Done(d)
<1>1. /\ asked' = asked /\ tier' = tier /\ acted \subseteq Decisions /\ \A e \in acted : ~e.cut
      /\ asked \in {"next", "again", "summary"} /\ tier \in 1..TierCount
  BY DEF Act, AgentInv, AgentTypeOK
<1>2. CASE d.says = "action"
  BY <1>1, <1>2 DEF Act, Done, AnswerWith
<1>3. CASE d.says \in {"final", "text"}
  <2>1. agent' = "ok" /\ acted' = acted \cup {d} /\ decision' = d
    BY <1>3 DEF Act, AnswerWith
  <2>. QED  BY <1>1, <2>1 DEF Done
<1>4. CASE d.says = "nothing"
  BY <1>1, <1>4 DEF Act, Done, AnswerWith
<1>. QED  BY <1>2, <1>3, <1>4 DEF Decisions, Says

LEMMA FailDone == ASSUME AgentInv, Fail PROVE Done(decision)
BY DEF Fail, Done, AgentInv, AgentTypeOK

LEMMA TakeDone ==
  ASSUME AgentInv, agent = "asking", NEW d \in Decisions, NEW blank \in BOOLEAN, Take(d, blank)
  PROVE  \E e \in Decisions : Done(e)
<1>1. decision \in Decisions /\ 1 \in 1..TierCount /\ asked \in {"next", "again", "summary"}
  BY AgentLoopAssumption DEF AgentInv, AgentTypeOK
<1>2. CASE asked = "next"
  <2>1. TakeFirst(d, blank) /\ taken < MaxSteps
    BY <1>2 DEF Take, AgentInv
  <2>2. CASE blank
    BY <1>1, <2>1, <2>2, FailDone DEF TakeFirst
  <2>3. CASE ~blank /\ (d.cut \/ ~Structured(d))
    <3>1. AskAgain(d)
      BY <2>1, <2>3 DEF TakeFirst
    <3>. QED  BY <1>1, <2>1, <3>1 DEF AskAgain, Done, AgentInv, AgentTypeOK
  <2>4. CASE ~blank /\ ~d.cut /\ Structured(d)
    <3>1. Act(d)
      BY <2>1, <2>4 DEF TakeFirst
    <3>. QED  BY <2>1, <2>4, <3>1, ActDone
  <2>. QED  BY <2>2, <2>3, <2>4
<1>3. CASE asked = "again"
  <2>1. TakeAgain(d) /\ taken < MaxSteps
    BY <1>3 DEF Take, AgentInv
  <2>2. CASE decision.cut /\ d.cut
    BY <1>1, <2>1, <2>2, FailDone DEF TakeAgain
  <2>3. CASE ~d.cut /\ Act(d)
    BY <2>1, <2>3, ActDone
  <2>4. CASE ~decision.cut /\ Act(decision)
    BY <1>1, <2>1, <2>4, ActDone
  <2>. QED  BY <2>1, <2>2, <2>3, <2>4 DEF TakeAgain
<1>4. CASE asked = "summary"
  <2>1. /\ agent' = "stopped" /\ decision' = d /\ asked' = asked /\ tier' = tier
        /\ acted' = acted \/ (acted' = acted \cup {d} /\ ~d.cut)
    BY <1>4 DEF Take, TakeSummary
  <2>. QED  BY <1>1, <1>4, <2>1 DEF Done, AgentInv, AgentTypeOK
<1>. QED  BY <1>1, <1>2, <1>3, <1>4

LEMMA DoneKeeps ==
  ASSUME AgentInv, ~stopping, NEW d, Done(d), UNCHANGED <<taken, stopping, crossed>> PROVE AgentInv'
<1>1. AgentTypeOK'
  BY DEF AgentInv, AgentTypeOK, Done, AgentSteps, Outcomes
<1>. QED  BY <1>1 DEF AgentInv, Done

LEMMA LeaveKeeps == ASSUME AgentInv, Leave PROVE AgentInv'
BY DEF AgentInv, AgentTypeOK, Leave, AgentSteps

LEMMA AgentStep == AgentInv /\ [AgentNext]_agentvars => AgentInv'
<1>. SUFFICES ASSUME AgentInv, [AgentNext]_agentvars PROVE AgentInv'
  OBVIOUS
<1>1. CASE PressStopAgent
  <2>1. stopping' = TRUE /\ crossed' = (agent = "asking") /\ UNCHANGED <<agent, asked, tier, taken, decision, acted>>
    BY <1>1 DEF PressStopAgent
  <2>2. AgentTypeOK'
    BY <2>1 DEF AgentInv, AgentTypeOK
  <2>. QED  BY <2>1, <2>2 DEF AgentInv
<1>2. CASE AskNext
  <2>1. CASE Leave
    BY <2>1, LeaveKeeps
  <2>2. CASE ~stopping
    <3>1. /\ agent' = "asking" /\ tier' = 1 /\ decision' = Silence /\ ~crossed
          /\ asked' = IF taken < MaxSteps THEN "next" ELSE "summary"
          /\ UNCHANGED <<taken, stopping, acted, crossed>>
      BY <1>2, <2>2 DEF AskNext, AgentInv
    <3>2. Silence \in Decisions /\ 1 \in 1..TierCount
      BY AgentLoopAssumption DEF Silence, Decisions, Says
    <3>3. AgentTypeOK'
      BY <3>1, <3>2 DEF AgentInv, AgentTypeOK, AgentSteps
    <3>. QED  BY <3>1, <3>3 DEF AgentInv
  <2>. QED  BY <1>2, <2>1, <2>2 DEF AskNext
<1>3. CASE TierReplies
  <2>1. CASE Leave
    BY <2>1, LeaveKeeps
  <2>2. CASE ~stopping
    <3>1. PICK d \in Replies : Take(d, FALSE)
      BY <1>3, <2>2 DEF TierReplies
    <3>2. agent = "asking" /\ UNCHANGED <<taken, stopping, crossed>> /\ d \in Decisions
      BY <1>3, <2>2, <3>1 DEF TierReplies, Replies
    <3>3. PICK e \in Decisions : Done(e)
      BY <3>1, <3>2, TakeDone
    <3>. QED  BY <2>2, <3>2, <3>3, DoneKeeps
  <2>. QED  BY <1>3, <2>1, <2>2 DEF TierReplies
<1>4. CASE TierIsSilent
  <2>1. CASE Leave
    BY <2>1, LeaveKeeps
  <2>2. CASE ~stopping /\ tier < TierCount /\ tier' = tier + 1
             /\ UNCHANGED <<agent, asked, taken, decision, stopping, acted, crossed>>
    <3>1. tier' \in 1..TierCount
      BY <2>2, AgentLoopAssumption DEF AgentInv, AgentTypeOK
    <3>2. AgentTypeOK'
      BY <2>2, <3>1 DEF AgentInv, AgentTypeOK
    <3>. QED  BY <2>2, <3>2 DEF AgentInv
  <2>3. CASE ~stopping /\ Take(Silence, TRUE) /\ UNCHANGED <<taken, stopping, crossed>>
    <3>1. agent = "asking" /\ Silence \in Decisions
      BY <1>4 DEF TierIsSilent, Silence, Decisions, Says
    <3>2. PICK e \in Decisions : Done(e)
      BY <2>3, <3>1, TakeDone
    <3>. QED  BY <2>3, <3>2, DoneKeeps
  <2>. QED  BY <1>4, <2>1, <2>2, <2>3 DEF TierIsSilent
<1>5. CASE AskingRaises
  <2>1. agent = "asking" /\ asked \in {"next", "again", "summary"}
    BY <1>5 DEF AskingRaises, AgentInv, AgentTypeOK
  <2>2. CASE Leave
    BY <2>2, LeaveKeeps
  <2>3. CASE Fail /\ UNCHANGED <<taken, stopping, crossed>>
    <3>1. AgentTypeOK'
      BY <2>3 DEF AgentInv, AgentTypeOK, Fail, AgentSteps, Outcomes
    <3>. QED  BY <2>3, <3>1 DEF AgentInv, Fail
  <2>4. CASE asked = "again" /\ ~stopping /\ ~decision.cut /\ Act(decision) /\ UNCHANGED <<taken, stopping, crossed>>
    <3>1. decision \in Decisions /\ taken < MaxSteps
      BY <2>1, <2>4 DEF AgentInv, AgentTypeOK
    <3>2. Done(decision)
      BY <2>4, <3>1, ActDone
    <3>. QED  BY <2>4, <3>2, DoneKeeps
  <2>5. CASE TakeSummary(Silence) /\ UNCHANGED <<taken, stopping, crossed>>
    <3>1. Silence \in Decisions /\ Silence.says = "nothing"
      BY DEF Silence, Decisions, Says
    <3>2. agent' = "stopped" /\ decision' = Silence /\ acted' = acted /\ asked' = asked /\ tier' = tier
      BY <2>5, <3>1 DEF TakeSummary
    <3>3. AgentTypeOK'
      BY <2>5, <3>1, <3>2 DEF AgentInv, AgentTypeOK, AgentSteps, Outcomes
    <3>. QED  BY <2>5, <3>2, <3>3 DEF AgentInv
  <2>. QED  BY <1>5, <2>1, <2>2, <2>3, <2>4, <2>5 DEF AskingRaises
<1>6. CASE Execute
  <2>1. CASE Leave
    BY <2>1, LeaveKeeps
  <2>2. CASE /\ agent' = "next" /\ taken' = taken + 1 /\ acted' = acted \cup {decision}
             /\ UNCHANGED <<asked, tier, decision, stopping, crossed>>
    <3>1. /\ agent = "acting" /\ taken < MaxSteps /\ ~decision.cut /\ ~crossed /\ taken \in 0..MaxSteps
          /\ MaxSteps \in Nat
      <4>1. agent = "acting"
        BY <1>6 DEF Execute
      <4>2. ~crossed
        BY <4>1, Zenon DEF AgentInv
      <4>3. ~decision.cut
        BY <4>1, Zenon DEF AgentInv
      <4>4. taken < MaxSteps
        BY <4>1, AgentLoopAssumption DEF AgentInv, AgentTypeOK
      <4>. QED  BY <4>1, <4>2, <4>3, <4>4, AgentLoopAssumption DEF AgentInv, AgentTypeOK
    <3>2. taken' \in 0..MaxSteps
      BY <2>2, <3>1
    <3>3. AgentTypeOK'
      BY <2>2, <3>2 DEF AgentInv, AgentTypeOK, AgentSteps
    <3>. QED  BY <2>2, <3>1, <3>3 DEF AgentInv
  <2>. QED  BY <1>6, <2>1, <2>2 DEF Execute
<1>7. CASE UNCHANGED agentvars
  BY <1>7 DEF agentvars, AgentInv, AgentTypeOK
<1>. QED  BY <1>1, <1>2, <1>3, <1>4, <1>5, <1>6, <1>7 DEF AgentNext

LEMMA AgentShows == AgentInv => RunsGoByWholeReplies
BY DEF AgentInv, RunsGoByWholeReplies, NoCutReplyIsUsed, StopIsNoAnswer

-----------------------------------------------------------------------------
\* Batches of commands (Batches)

\* The latest of the latest, with one more, are the latest of all with one more.
LEMMA LatestOfLatest ==
  ASSUME NEW S, NEW runs \in Seq(S), NEW x \in S, MostRuns \in Nat \ {0}
  PROVE  /\ Latest(runs) \in Seq(S)
         /\ Latest(Append(Latest(runs), x)) = Latest(Append(runs, x))
         /\ Latest(Append(runs, x)) \in Seq(S)
<1>. DEFINE n == Len(runs)
            k == MostRuns
            lo == IF n > k THEN n - k + 1 ELSE 1
            more == Append(runs, x)
<1>1. n \in Nat /\ k \in Nat /\ k > 0
  OBVIOUS
<1>2. /\ more \in Seq(S) /\ Len(more) = n + 1 /\ more[n + 1] = x
      /\ \A i \in 1..n : more[i] = runs[i]
  BY AppendProperties
<1>3. Latest(runs) = SubSeq(runs, lo, n) /\ lo \in 1..(n + 1) /\ n \in (lo - 1)..n
  BY <1>1 DEF Latest
<1>. HIDE DEF lo
<1>4. /\ Latest(runs) \in Seq(S)
      /\ Len(Latest(runs)) = n - lo + 1
      /\ \A i \in 1..(n - lo + 1) : Latest(runs)[i] = runs[lo + i - 1]
  <2>1. /\ SubSeq(runs, lo, n) \in Seq(S)
        /\ Len(SubSeq(runs, lo, n)) = IF lo <= n THEN n - lo + 1 ELSE 0
        /\ \A i \in 1..(n - lo + 1) : SubSeq(runs, lo, n)[i] = runs[lo + i - 1]
    BY <1>1, <1>3, SubSeqProperties
  <2>. QED  BY <1>1, <1>3, <2>1
<1>. DEFINE last == Append(Latest(runs), x)
            held == n - lo + 1
<1>5. /\ last \in Seq(S) /\ Len(last) = held + 1 /\ last[held + 1] = x
      /\ \A i \in 1..held : last[i] = runs[lo + i - 1]
  BY <1>4, AppendProperties
<1>6. /\ held \in Nat /\ held <= k /\ (n <= k => lo = 1 /\ held = n) /\ (n > k => held = k /\ lo = n - k + 1)
  BY <1>1, <1>3 DEF lo
<1>. HIDE DEF last, held, more
<1>. DEFINE from == IF n + 1 > k THEN n + 1 - k + 1 ELSE 1
            size == n + 1 - from + 1
            start == IF held + 1 > k THEN held + 1 - k + 1 ELSE 1
            long == held + 1 - start + 1
<1>7. /\ from \in 1..(n + 1) /\ size \in Nat /\ start \in 1..(held + 1) /\ long = size
      /\ start - 1 + lo = from
  <2>1. CASE n < k
    <3>1. lo = 1 /\ held = n /\ from = 1 /\ start = 1
      BY <1>1, <1>6, <2>1
    <3>. QED  BY <1>1, <3>1
  <2>2. CASE n = k
    <3>1. lo = 1 /\ held = n /\ from = 2 /\ start = 2
      BY <1>1, <1>6, <2>2
    <3>. QED  BY <1>1, <2>2, <3>1
  <2>3. CASE n > k
    <3>1. lo = n - k + 1 /\ held = k /\ from = n - k + 2 /\ start = 2
      BY <1>1, <1>6, <2>3
    <3>. HIDE DEF from, start
    <3>. QED  BY <1>1, <2>3, <3>1
  <2>. HIDE DEF from, start, size, long
  <2>. QED  BY <1>1, <2>1, <2>2, <2>3
<1>8. Latest(more) = SubSeq(more, from, n + 1) /\ Latest(last) = SubSeq(last, start, held + 1)
  <2>1. Latest(more) = SubSeq(more, IF Len(more) > k THEN Len(more) - k + 1 ELSE 1, Len(more))
    BY DEF Latest
  <2>2. Latest(last) = SubSeq(last, IF Len(last) > k THEN Len(last) - k + 1 ELSE 1, Len(last))
    BY DEF Latest
  <2>3. Latest(more) = SubSeq(more, from, n + 1)
    BY <1>2, <2>1
  <2>4. Latest(last) = SubSeq(last, start, held + 1)
    BY <1>5, <1>6, <2>2
  <2>. QED  BY <2>3, <2>4
<1>. HIDE DEF from, start
<1>9. /\ Latest(more) \in Seq(S) /\ Len(Latest(more)) = size
      /\ \A i \in 1..size : Latest(more)[i] = more[from + i - 1]
  <2>1. from \in Int /\ n + 1 \in Int /\ \A i \in from..(n + 1) : more[i] \in S
    <3>1. \A i \in 1..Len(more) : more[i] \in S
      BY <1>2
    <3>. QED  BY <1>1, <1>2, <1>7, <3>1
  <2>2. /\ SubSeq(more, from, n + 1) \in Seq(S)
        /\ Len(SubSeq(more, from, n + 1)) = IF from <= n + 1 THEN n + 1 - from + 1 ELSE 0
        /\ \A i \in 1..(n + 1 - from + 1) : SubSeq(more, from, n + 1)[i] = more[from + i - 1]
    BY <2>1, SubSeqProperties
  <2>. QED  BY <1>1, <1>7, <1>8, <2>2
<1>10. /\ Latest(last) \in Seq(S) /\ Len(Latest(last)) = long
       /\ \A i \in 1..long : Latest(last)[i] = last[start + i - 1]
  <2>1. start \in Int /\ held + 1 \in Int /\ \A i \in start..(held + 1) : last[i] \in S
    <3>1. \A i \in 1..Len(last) : last[i] \in S
      BY <1>5
    <3>. QED  BY <1>5, <1>6, <1>7, <3>1
  <2>2. /\ SubSeq(last, start, held + 1) \in Seq(S)
        /\ Len(SubSeq(last, start, held + 1)) = IF start <= held + 1 THEN held + 1 - start + 1 ELSE 0
        /\ \A i \in 1..(held + 1 - start + 1) : SubSeq(last, start, held + 1)[i] = last[start + i - 1]
    <3>. HIDE DEF held, long
    <3>. QED  BY <1>6, <2>1, SubSeqProperties
  <2>. QED  BY <1>6, <1>7, <1>8, <2>2
<1>11. ASSUME NEW i \in 1..size PROVE last[start + i - 1] = more[from + i - 1]
  <2>1. start \in Nat /\ from \in Nat /\ lo \in Nat /\ size \in Nat
    BY <1>3, <1>7
  <2>2. CASE start + i - 1 = held + 1
    <3>1. from + i - 1 = n + 1
      BY <1>1, <1>6, <2>1, <2>2, <1>7 DEF held
    <3>. QED  BY <1>2, <1>5, <2>2, <3>1
  <2>3. CASE start + i - 1 # held + 1
    <3>1. start + i - 1 \in 1..held
      BY <1>1, <1>6, <1>7, <2>1, <2>3
    <3>2. from + i - 1 = lo + (start + i - 1) - 1 /\ from + i - 1 \in 1..n
      BY <1>1, <1>6, <1>7, <2>1, <3>1 DEF held
    <3>. QED  BY <1>2, <1>5, <3>1, <3>2
  <2>. QED  BY <2>2, <2>3
<1>12. Latest(last) = Latest(more)
  <2>. HIDE DEF size, long
  <2>1. Len(Latest(last)) = Len(Latest(more)) /\ \A i \in 1..Len(Latest(last)) : Latest(last)[i] = Latest(more)[i]
    BY <1>7, <1>9, <1>10, <1>11
  <2>. QED  BY <1>9, <1>10, <2>1, SeqEqual
<1>. QED  BY <1>4, <1>9, <1>12 DEF last, more

\* A turn that has ended, or has not begun, runs no command; the numbers given out are smaller
\* than the next one in the file.
BatchesInv ==
  /\ BatchesTypeOK
  /\ \A b \in Batch : batch[b].step # "running" => \A i \in Commands : sub[b][i].step # "running"
  /\ IdleWhenNothingRuns
  /\ RunsAreKept
  /\ \A i \in 1..Len(recorded) : recorded[i] < disk.next

SubRecord == [step : {"waiting", "running"} \cup Over, desk : Specialists]
BatchRecord == [step : {"new", "running", "ended", "done"}, kind : Kinds]

LEMMA BatchTypes ==
  ASSUME BatchesTypeOK
  PROVE  /\ batch \in [Batch -> BatchRecord] /\ sub \in [Batch -> [Commands -> SubRecord]]
         /\ \A b \in Batch : /\ batch[b] \in BatchRecord /\ sub[b] \in [Commands -> SubRecord]
                             /\ \A i \in Commands : sub[b][i] \in SubRecord /\ sub[b][i].desk \in Specialists
         /\ room \in [Specialists -> {"idle", "working"}] /\ left \subseteq Specialists
<1>1. batch \in [Batch -> BatchRecord] /\ sub \in [Batch -> [Commands -> SubRecord]]
  BY DEF BatchesTypeOK, BatchRecord, SubRecord
<1>2. \A b \in Batch, i \in Commands : sub[b][i] \in SubRecord
  BY <1>1
<1>3. \A b \in Batch, i \in Commands : sub[b][i].desk \in Specialists
  BY <1>2 DEF SubRecord
<1>. QED  BY <1>1, <1>2, <1>3 DEF BatchesTypeOK

LEMMA DesksAreSpecialists == ASSUME NEW k PROVE DeskOf(k) \in Specialists
BY BatchesAssumption DEF DeskOf

LEMMA BatchesStart == BatchesInit => BatchesInv
<1>. SUFFICES ASSUME BatchesInit PROVE BatchesInv
  OBVIOUS
<1>1. recorded \in Seq(1..MaxRuns) /\ Len(recorded) = 0 /\ disk.runs \in Seq(1..MaxRuns) /\ disk.next = 1
  BY EmptySeq DEF BatchesInit
<1>2. disk \in Tracker
  BY <1>1, BatchesAssumption DEF BatchesInit, Tracker
<1>3. NotBegun \in [Commands -> SubRecord] /\ \A i \in Commands : NotBegun[i].step = "waiting"
  BY BatchesAssumption DEF NotBegun, SubRecord
<1>4. BatchesTypeOK
  <2>1. sub \in [Batch -> [Commands -> [step : {"waiting", "running"} \cup Over, desk : Specialists]]]
    BY <1>3 DEF BatchesInit, SubRecord
  <2>2. batch \in [Batch -> [step : {"new", "running", "ended", "done"}, kind : Kinds]]
    BY DEF BatchesInit, Kinds
  <2>. QED  BY <1>1, <1>2, <2>1, <2>2 DEF BatchesInit, BatchesTypeOK
<1>5. \A b \in Batch, i \in Commands : sub[b][i].step # "running"
  BY <1>3 DEF BatchesInit
<1>6. IdleWhenNothingRuns
  BY DEF BatchesInit, IdleWhenNothingRuns
<1>7. RunsAreKept
  <2>1. disk.runs = <<>> /\ recorded = <<>>
    BY DEF BatchesInit
  <2>2. Latest(<<>>) = SubSeq(<<>>, 1, 0)
    BY BatchesAssumption DEF Latest
  <2>3. SubSeq(<<>>, 1, 0) = <<>>
    BY SubSeqEmpty
  <2>. QED  BY <1>1, <2>1, <2>2, <2>3 DEF RunsAreKept
<1>. QED  BY <1>1, <1>4, <1>5, <1>6, <1>7 DEF BatchesInv

\* What a step leaves alone when it touches the room at most at one desk.
LEMMA RoomStep ==
  ASSUME BatchesInv, NEW d \in Specialists,
         \A s \in Specialists \ {d} : AtWork(s) => AtWork(s)',
         \/ StartAt(d) /\ AtWork(d)'
         \/ FinishAt(d)
         \/ left' = left \cup {d} /\ UNCHANGED room
  PROVE  IdleWhenNothingRuns' /\ room' \in [Specialists -> {"idle", "working"}] /\ left' \subseteq Specialists
<1>1. /\ room \in [Specialists -> {"idle", "working"}] /\ left \subseteq Specialists
      /\ \A s \in Specialists \ left : room[s] = "working" => AtWork(s)
  BY BatchTypes DEF BatchesInv, IdleWhenNothingRuns
<1>2. room' \in [Specialists -> {"idle", "working"}] /\ left' \subseteq Specialists
  BY <1>1 DEF StartAt, FinishAt
<1>3. ASSUME NEW s \in Specialists \ left', room'[s] = "working" PROVE AtWork(s)'
  <2>1. CASE s = d
    BY <1>1, <1>3, <2>1 DEF StartAt, FinishAt
  <2>2. CASE s # d
    <3>1. s \in Specialists \ left /\ room[s] = "working"
      BY <1>1, <1>3, <2>2 DEF StartAt, FinishAt
    <3>. QED  BY <1>1, <2>2, <3>1
  <2>. QED  BY <2>1, <2>2
<1>. QED  BY <1>2, <1>3 DEF IdleWhenNothingRuns

LEMMA NothingMoves ==
  ASSUME BatchesInv, UNCHANGED <<room, left>>, \A s \in Specialists : AtWork(s) => AtWork(s)'
  PROVE  IdleWhenNothingRuns'
BY DEF BatchesInv, IdleWhenNothingRuns

\* The runs, the numbers and the file are only RecordRun's.
LEMMA FileRests ==
  ASSUME BatchesInv, UNCHANGED <<disk, recorded>>
  PROVE  /\ RunsAreKept' /\ \A i \in 1..Len(recorded') : recorded'[i] < disk'.next
         /\ disk' \in Tracker /\ recorded' \in Seq(1..MaxRuns)
BY DEF BatchesInv, RunsAreKept, Latest, BatchesTypeOK

LEMMA BatchStartsStep == ASSUME BatchesInv, NEW b \in Batch, BatchStarts(b) PROVE BatchesInv'
<1>1. PICK kind \in Kinds : /\ batch' = [batch EXCEPT ![b] = [step |-> "running", kind |-> kind]]
                            /\ StartAt(DeskOf(kind))
  BY DEF BatchStarts
<1>2. batch[b].step = "new" /\ UNCHANGED <<sub, stop, disk, memory, recorded>>
  BY DEF BatchStarts, BatchAt
<1>3. /\ batch' \in [Batch -> BatchRecord] /\ batch'[b].step = "running" /\ batch'[b].kind = kind
      /\ \A c \in Batch \ {b} : batch'[c] = batch[c]
  BY <1>1, BatchTypes DEF BatchesInv, BatchRecord
<1>4. \A s \in Specialists : AtWork(s) => AtWork(s)'
  <2>. SUFFICES ASSUME NEW s \in Specialists, AtWork(s) PROVE AtWork(s)'
    OBVIOUS
  <2>1. PICK c \in Batch : \/ batch[c].step \in {"running", "ended"} /\ DeskOf(batch[c].kind) = s
                           \/ \E i \in Commands : sub[c][i].step = "running" /\ sub[c][i].desk = s
    BY DEF AtWork, SubAt, Kind
  <2>. QED  BY <1>2, <1>3, <2>1 DEF AtWork, SubAt, Kind
<1>5. AtWork(DeskOf(kind))'
  BY <1>3 DEF AtWork, Kind, SubAt
<1>6. DeskOf(kind) \in Specialists
  BY DesksAreSpecialists
<1>7. IdleWhenNothingRuns' /\ room' \in [Specialists -> {"idle", "working"}] /\ left' \subseteq Specialists
  BY <1>1, <1>4, <1>5, <1>6, RoomStep
<1>8. BatchesTypeOK'
  BY <1>2, <1>3, <1>7 DEF BatchesInv, BatchesTypeOK, BatchRecord
<1>9. \A c \in Batch : batch'[c].step # "running" => \A i \in Commands : sub'[c][i].step # "running"
  BY <1>2, <1>3 DEF BatchesInv
<1>. QED  BY <1>2, <1>7, <1>8, <1>9, FileRests DEF BatchesInv

LEMMA PressStopBatchStep == ASSUME BatchesInv, NEW b \in Batch, PressStopBatch(b) PROVE BatchesInv'
<1>1. stop' = stop \cup {b} /\ UNCHANGED <<room, left, batch, sub, disk, memory, recorded>>
  BY DEF PressStopBatch
<1>2. IdleWhenNothingRuns'
  BY <1>1 DEF BatchesInv, IdleWhenNothingRuns, AtWork, Kind, SubAt
<1>3. BatchesTypeOK'
  BY <1>1 DEF BatchesInv, BatchesTypeOK
<1>. QED  BY <1>1, <1>2, <1>3, FileRests DEF BatchesInv

\* A command's step: the other commands are where they were.
SubMoves(b, i, to, at) ==
  /\ sub' \in [Batch -> [Commands -> SubRecord]]
  /\ sub'[b][i].step = to /\ sub'[b][i].desk = at
  /\ \A c \in Batch, j \in Commands : <<c, j>> # <<b, i>> => sub'[c][j] = sub[c][j]

LEMMA CommandMoves ==
  ASSUME BatchesTypeOK, NEW b \in Batch, NEW i \in Commands, NEW to \in {"waiting", "running"} \cup Over,
         NEW s \in Specialists, sub' = [sub EXCEPT ![b][i] = [step |-> to, desk |-> s]]
  PROVE  SubMoves(b, i, to, s)
<1>. DEFINE one == [step |-> to, desk |-> s]
            row == [sub[b] EXCEPT ![i] = one]
<1>1. one \in SubRecord
  BY DEF SubRecord
<1>2. sub \in [Batch -> [Commands -> SubRecord]] /\ sub[b] \in [Commands -> SubRecord]
  BY BatchTypes
<1>. HIDE DEF one
<1>3. row \in [Commands -> SubRecord] /\ row[i] = one /\ \A j \in Commands \ {i} : row[j] = sub[b][j]
  BY <1>1, <1>2
<1>4. sub' = [sub EXCEPT ![b] = row]
  BY DEF one
<1>. HIDE DEF row
<1>5. sub' \in [Batch -> [Commands -> SubRecord]] /\ sub'[b] = row /\ \A c \in Batch \ {b} : sub'[c] = sub[c]
  BY <1>2, <1>3, <1>4
<1>. QED  BY <1>3, <1>5 DEF SubMoves, one

LEMMA CommandGoes ==
  ASSUME BatchesTypeOK, NEW b \in Batch, NEW i \in Commands, NEW to \in {"waiting", "running"} \cup Over,
         SubGoes(b, i, to)
  PROVE  SubMoves(b, i, to, sub[b][i].desk)
<1>. DEFINE one == [sub[b][i] EXCEPT !.step = to]
            row == [sub[b] EXCEPT ![i] = one]
<1>2. /\ sub \in [Batch -> [Commands -> SubRecord]] /\ sub[b] \in [Commands -> SubRecord]
      /\ sub[b][i] \in SubRecord
  BY BatchTypes
<1>1. one \in SubRecord /\ one.step = to /\ one.desk = sub[b][i].desk
  BY <1>2 DEF SubRecord
<1>. HIDE DEF one
<1>3. row \in [Commands -> SubRecord] /\ row[i] = one /\ \A j \in Commands \ {i} : row[j] = sub[b][j]
  BY <1>1, <1>2
<1>4. sub' = [sub EXCEPT ![b] = row]
  BY DEF SubGoes, one
<1>. HIDE DEF row
<1>5. sub' \in [Batch -> [Commands -> SubRecord]] /\ sub'[b] = row /\ \A c \in Batch \ {b} : sub'[c] = sub[c]
  BY <1>2, <1>3, <1>4
<1>. QED  BY <1>1, <1>3, <1>5 DEF SubMoves

\* A command's step takes work only from the desk it was at, and from there only if it ran.
LEMMA WorkKept ==
  ASSUME BatchesTypeOK, NEW b \in Batch, NEW i \in Commands, NEW to, NEW at, SubMoves(b, i, to, at), batch' = batch,
         NEW s \in Specialists, AtWork(s), sub[b][i].step = "running" => sub[b][i].desk # s
  PROVE  AtWork(s)'
<1>1. PICK c \in Batch : \/ batch[c].step \in {"running", "ended"} /\ DeskOf(batch[c].kind) = s
                         \/ \E j \in Commands : sub[c][j].step = "running" /\ sub[c][j].desk = s
  BY DEF AtWork, SubAt, Kind
<1>2. CASE batch[c].step \in {"running", "ended"} /\ DeskOf(batch[c].kind) = s
  BY <1>2 DEF AtWork, Kind
<1>3. CASE \E j \in Commands : sub[c][j].step = "running" /\ sub[c][j].desk = s
  <2>1. PICK j \in Commands : sub[c][j].step = "running" /\ sub[c][j].desk = s
    BY <1>3
  <2>2. <<c, j>> # <<b, i>>
    BY <2>1
  <2>3. sub'[c][j] = sub[c][j]
    BY <2>2 DEF SubMoves
  <2>. QED  BY <2>1, <2>3 DEF AtWork, SubAt
<1>. QED  BY <1>1, <1>2, <1>3

LEMMA CommandStep ==
  ASSUME BatchesInv, NEW b \in Batch, NEW i \in Commands, NEW to, NEW at, SubMoves(b, i, to, at),
         to = "running" => batch[b].step = "running",
         IdleWhenNothingRuns', room' \in [Specialists -> {"idle", "working"}], left' \subseteq Specialists,
         UNCHANGED <<batch, stop, disk, memory, recorded>>
  PROVE  BatchesInv'
<1>1. \A c \in Batch : batch'[c].step # "running" => \A j \in Commands : sub'[c][j].step # "running"
  <2>. SUFFICES ASSUME NEW c \in Batch, batch[c].step # "running", NEW j \in Commands PROVE sub'[c][j].step # "running"
    OBVIOUS
  <2>1. CASE <<c, j>> = <<b, i>>
    BY <2>1 DEF SubMoves
  <2>2. CASE <<c, j>> # <<b, i>>
    BY <2>2 DEF SubMoves, BatchesInv
  <2>. QED  BY <2>1, <2>2
<1>2. BatchesTypeOK'
  BY DEF BatchesInv, BatchesTypeOK, SubMoves, SubRecord
<1>. QED  BY <1>1, <1>2, FileRests DEF BatchesInv

LEMMA SubStartsStep == ASSUME BatchesInv, NEW b \in Batch, NEW i \in Commands, SubStarts(b, i) PROVE BatchesInv'
<1>1. /\ batch[b].step = "running" /\ sub[b][i].step = "waiting" /\ BatchesTypeOK
      /\ UNCHANGED <<batch, stop, disk, memory, recorded>> /\ sub[b][i].desk \in Specialists
  BY BatchTypes DEF SubStarts, BatchAt, MayBegin, SubAt, BatchesInv
<1>2. ASSUME NEW s \in Specialists, sub' = [sub EXCEPT ![b][i] = [step |-> "running", desk |-> s]], StartAt(s)
      PROVE  BatchesInv'
  <2>1. SubMoves(b, i, "running", s)
    BY <1>1, <1>2, CommandMoves
  <2>2. \A t \in Specialists : AtWork(t) => AtWork(t)'
    BY <1>1, <2>1, WorkKept
  <2>3. AtWork(s)'
    BY <2>1 DEF SubMoves, AtWork, SubAt
  <2>4. IdleWhenNothingRuns' /\ room' \in [Specialists -> {"idle", "working"}] /\ left' \subseteq Specialists
    BY <1>2, <2>2, <2>3, RoomStep
  <2>. QED  BY <1>1, <2>1, <2>4, CommandStep
<1>3. ASSUME NEW to \in {"blocked", "stopped"}, SubGoes(b, i, to), UNCHANGED <<room, left>> PROVE BatchesInv'
  <2>1. to \in {"waiting", "running"} \cup Over /\ to # "running"
    BY DEF Over
  <2>2. SubMoves(b, i, to, sub[b][i].desk)
    BY <1>1, <1>3, <2>1, CommandGoes
  <2>3. \A t \in Specialists : AtWork(t) => AtWork(t)'
    BY <1>1, <2>2, WorkKept
  <2>4. IdleWhenNothingRuns' /\ room' \in [Specialists -> {"idle", "working"}] /\ left' \subseteq Specialists
    BY <1>1, <1>3, <2>3, NothingMoves, BatchTypes
  <2>. QED  BY <1>1, <2>1, <2>2, <2>4, CommandStep
<1>. QED  BY <1>2, <1>3 DEF SubStarts

LEMMA SubEndsStep ==
  ASSUME BatchesInv, NEW b \in Batch, NEW i \in Commands, SubEnds(b, i) \/ SubLeaves(b, i) PROVE BatchesInv'
<1>. DEFINE d == sub[b][i].desk
<1>1. /\ BatchesTypeOK /\ UNCHANGED <<batch, stop, disk, memory, recorded>> /\ d \in Specialists
      /\ FinishAt(d) \/ (left' = left \cup {d} /\ UNCHANGED room)
  BY BatchTypes DEF SubEnds, SubLeaves, BatchesInv
<1>2. PICK to \in {"ok", "failed", "stopped"} : SubGoes(b, i, to)
  BY DEF SubEnds, SubLeaves
<1>3. to \in {"waiting", "running"} \cup Over /\ to # "running"
  BY DEF Over
<1>4. SubMoves(b, i, to, d)
  BY <1>1, <1>2, <1>3, CommandGoes
<1>5. \A t \in Specialists \ {d} : AtWork(t) => AtWork(t)'
  BY <1>1, <1>4, WorkKept
<1>. HIDE DEF d
<1>6. IdleWhenNothingRuns' /\ room' \in [Specialists -> {"idle", "working"}] /\ left' \subseteq Specialists
  <2>1. PICK at \in Specialists : at = d
    BY <1>1
  <2>2. \A t \in Specialists \ {at} : AtWork(t) => AtWork(t)'
    BY <1>5, <2>1
  <2>3. FinishAt(at) \/ (left' = left \cup {at} /\ UNCHANGED room)
    BY <1>1, <2>1 DEF FinishAt
  <2>. QED  BY <2>2, <2>3, RoomStep
<1>. QED  BY <1>1, <1>3, <1>4, <1>6, CommandStep

\* A turn's own step, from running or ended: it runs no command then.
LEMMA BatchGoesTo ==
  ASSUME BatchesInv, NEW b \in Batch, NEW to \in {"ended", "done"}, BatchGoes(b, to)
  PROVE  /\ batch' \in [Batch -> BatchRecord] /\ batch'[b].step = to /\ batch'[b].kind = batch[b].kind
         /\ \A c \in Batch \ {b} : batch'[c] = batch[c]
<1>. DEFINE one == [batch[b] EXCEPT !.step = to]
<1>1. batch \in [Batch -> BatchRecord] /\ batch[b] \in BatchRecord
  BY BatchTypes DEF BatchesInv
<1>2. one \in BatchRecord /\ one.step = to /\ one.kind = batch[b].kind
  BY <1>1 DEF BatchRecord
<1>3. batch' = [batch EXCEPT ![b] = one]
  BY DEF BatchGoes
<1>. HIDE DEF one
<1>. QED  BY <1>1, <1>2, <1>3

LEMMA EndingTurn ==
  ASSUME BatchesInv, NEW b \in Batch, batch[b].step = "running", \A i \in Commands : sub[b][i].step # "running",
         BatchGoes(b, "ended"), UNCHANGED <<room, left, sub, stop>>
  PROVE  /\ IdleWhenNothingRuns' /\ batch' \in [Batch -> BatchRecord]
         /\ \A c \in Batch : batch'[c].step # "running" => \A i \in Commands : sub'[c][i].step # "running"
<1>1. /\ batch' \in [Batch -> BatchRecord] /\ batch'[b].step = "ended" /\ batch'[b].kind = batch[b].kind
      /\ \A c \in Batch \ {b} : batch'[c] = batch[c]
  BY BatchGoesTo
<1>2. \A s \in Specialists : AtWork(s) => AtWork(s)'
  <2>. SUFFICES ASSUME NEW s \in Specialists, AtWork(s) PROVE AtWork(s)'
    OBVIOUS
  <2>1. PICK c \in Batch : \/ batch[c].step \in {"running", "ended"} /\ DeskOf(batch[c].kind) = s
                           \/ \E i \in Commands : sub[c][i].step = "running" /\ sub[c][i].desk = s
    BY DEF AtWork, SubAt, Kind
  <2>2. batch'[c].kind = batch[c].kind /\ (batch[c].step \in {"running", "ended"} => batch'[c].step \in {"running", "ended"})
    BY <1>1
  <2>. QED  BY <2>1, <2>2 DEF AtWork, SubAt, Kind
<1>3. \A c \in Batch : batch'[c].step # "running" => \A i \in Commands : sub'[c][i].step # "running"
  BY <1>1 DEF BatchesInv
<1>. QED  BY <1>1, <1>2, <1>3, NothingMoves

LEMMA LeaveBatchStep == ASSUME BatchesInv, NEW b \in Batch, LeaveBatch(b) PROVE BatchesInv'
<1>1. /\ batch[b].step = "running" /\ (\A i \in Commands : sub[b][i].step # "running") /\ BatchGoes(b, "ended")
      /\ UNCHANGED <<room, left, sub, stop, disk, memory, recorded>>
  BY DEF LeaveBatch, BatchAt, SubAt
<1>2. /\ IdleWhenNothingRuns' /\ batch' \in [Batch -> BatchRecord]
      /\ \A c \in Batch : batch'[c].step # "running" => \A i \in Commands : sub'[c][i].step # "running"
  BY <1>1, EndingTurn
<1>3. BatchesTypeOK'
  BY <1>1, <1>2 DEF BatchesInv, BatchesTypeOK, BatchRecord
<1>. QED  BY <1>1, <1>2, <1>3, FileRests DEF BatchesInv

LEMMA RecordRunStep == ASSUME BatchesInv, NEW b \in Batch, RecordRun(b) PROVE BatchesInv'
<1>1. /\ batch[b].step = "running" /\ (\A i \in Commands : sub[b][i].step # "running") /\ BatchGoes(b, "ended")
      /\ UNCHANGED <<room, left, sub, stop>>
  BY DEF RecordRun, BatchAt, SubAt, Finished
<1>2. /\ IdleWhenNothingRuns' /\ batch' \in [Batch -> BatchRecord]
      /\ \A c \in Batch : batch'[c].step # "running" => \A i \in Commands : sub'[c][i].step # "running"
  BY <1>1, EndingTurn
<1>3. /\ disk \in Tracker /\ memory \in [Hosts -> Tracker] /\ recorded \in Seq(1..MaxRuns) /\ MaxRuns \in Nat
      /\ disk.runs \in Seq(1..MaxRuns) /\ disk.next \in 1..(MaxRuns + 1) /\ disk.runs = Latest(recorded)
      /\ Len(recorded) \in Nat
  BY BatchesAssumption DEF BatchesInv, BatchesTypeOK, Tracker, RunsAreKept
<1>4. /\ disk.next <= MaxRuns /\ memory' = [memory EXCEPT ![ProcessOf[b]] = WithRun(disk)]
      /\ \/ disk' = WithRun(disk) /\ recorded' = Append(recorded, disk.next)
         \/ UNCHANGED <<disk, recorded>>
  BY DEF RecordRun, Refreshed
<1>5. disk.next \in 1..MaxRuns /\ disk.next + 1 \in 1..(MaxRuns + 1)
  BY <1>3, <1>4
<1>6. /\ WithRun(disk).runs = Latest(Append(disk.runs, disk.next)) /\ WithRun(disk).next = disk.next + 1
      /\ WithRun(disk) = [runs |-> WithRun(disk).runs, next |-> disk.next + 1]
  BY DEF WithRun
<1>7. /\ WithRun(disk).runs = Latest(Append(recorded, disk.next)) /\ WithRun(disk).runs \in Seq(1..MaxRuns)
  <2>1. PICK runs \in Seq(1..MaxRuns) : runs = recorded
    BY <1>3
  <2>2. PICK x \in 1..MaxRuns : x = disk.next
    BY <1>5
  <2>3. MostRuns \in Nat \ {0}
    BY BatchesAssumption
  <2>4. /\ Latest(Append(Latest(runs), x)) = Latest(Append(runs, x))
        /\ Latest(Append(runs, x)) \in Seq(1..MaxRuns)
    BY <2>3, LatestOfLatest
  <2>. QED  BY <1>3, <1>6, <2>1, <2>2, <2>4
<1>8. WithRun(disk) \in Tracker
  BY <1>5, <1>6, <1>7 DEF Tracker
<1>9. memory' \in [Hosts -> Tracker]
  BY <1>3, <1>4, <1>8
<1>10. /\ disk' \in Tracker /\ recorded' \in Seq(1..MaxRuns) /\ RunsAreKept'
       /\ \A i \in 1..Len(recorded') : recorded'[i] < disk'.next
  <2>1. CASE UNCHANGED <<disk, recorded>>
    BY <2>1, FileRests
  <2>2. CASE disk' = WithRun(disk) /\ recorded' = Append(recorded, disk.next)
    <3>1. /\ recorded' \in Seq(1..MaxRuns) /\ Len(recorded') = Len(recorded) + 1
          /\ \A i \in 1..Len(recorded) : recorded'[i] = recorded[i]
          /\ recorded'[Len(recorded) + 1] = disk.next
      BY <1>3, <1>5, <2>2, AppendProperties
    <3>2. disk'.runs = Latest(recorded')
      BY <1>7, <2>2 DEF Latest
    <3>3. \A i, j \in 1..Len(recorded) : i < j => recorded[i] < recorded[j]
      BY DEF BatchesInv, RunsAreKept
    <3>4. \A i \in 1..Len(recorded) : recorded[i] < disk.next /\ recorded[i] \in 1..MaxRuns
      BY <1>3 DEF BatchesInv
    <3>5. ASSUME NEW i \in 1..Len(recorded'), NEW j \in 1..Len(recorded'), i < j PROVE recorded'[i] < recorded'[j]
      <4>1. i \in 1..Len(recorded)
        BY <1>3, <3>1, <3>5
      <4>2. CASE j = Len(recorded) + 1
        BY <3>1, <3>4, <4>1, <4>2
      <4>3. CASE j # Len(recorded) + 1
        <5>1. j \in 1..Len(recorded)
          BY <1>3, <3>1, <4>3
        <5>. QED  BY <3>1, <3>3, <3>5, <4>1, <5>1
      <4>. QED  BY <4>2, <4>3
    <3>6. ASSUME NEW i \in 1..Len(recorded') PROVE recorded'[i] < disk'.next
      <4>1. disk'.next = disk.next + 1
        BY <1>6, <2>2
      <4>2. CASE i = Len(recorded) + 1
        BY <1>5, <3>1, <4>1, <4>2
      <4>3. CASE i # Len(recorded) + 1
        <5>1. i \in 1..Len(recorded)
          BY <1>3, <3>1, <4>3
        <5>. QED  BY <1>5, <3>1, <3>4, <4>1, <5>1
      <4>. QED  BY <4>2, <4>3
    <3>. QED  BY <1>8, <2>2, <3>1, <3>2, <3>5, <3>6 DEF RunsAreKept
  <2>. QED  BY <1>4, <2>1, <2>2
<1>11. BatchesTypeOK'
  BY <1>1, <1>2, <1>9, <1>10 DEF BatchesInv, BatchesTypeOK, BatchRecord
<1>. QED  BY <1>2, <1>10, <1>11 DEF BatchesInv

LEMMA BatchEndsStep == ASSUME BatchesInv, NEW b \in Batch, BatchEnds(b) PROVE BatchesInv'
<1>1. /\ batch[b].step = "ended" /\ BatchGoes(b, "done") /\ FinishAt(DeskOf(batch[b].kind))
      /\ sub' = [sub EXCEPT ![b] = NotBegun] /\ UNCHANGED <<stop, disk, memory, recorded>>
  BY DEF BatchEnds, BatchAt, Kind
<1>2. /\ batch' \in [Batch -> BatchRecord] /\ batch'[b].step = "done"
      /\ \A c \in Batch \ {b} : batch'[c] = batch[c]
  BY <1>1, BatchGoesTo
<1>3. NotBegun \in [Commands -> SubRecord] /\ \A i \in Commands : NotBegun[i].step = "waiting"
  BY BatchesAssumption DEF NotBegun, SubRecord
<1>4. /\ sub' \in [Batch -> [Commands -> SubRecord]] /\ sub'[b] = NotBegun
      /\ \A c \in Batch \ {b} : sub'[c] = sub[c]
  BY <1>1, <1>3, BatchTypes DEF BatchesInv
<1>5. PICK d \in Specialists : d = DeskOf(batch[b].kind)
  BY DesksAreSpecialists
<1>6. ASSUME NEW s \in Specialists \ {d}, AtWork(s) PROVE AtWork(s)'
  <2>1. PICK c \in Batch : \/ batch[c].step \in {"running", "ended"} /\ DeskOf(batch[c].kind) = s
                           \/ \E i \in Commands : sub[c][i].step = "running" /\ sub[c][i].desk = s
    BY <1>6 DEF AtWork, SubAt, Kind
  <2>2. c # b
    BY <1>1, <1>5, <2>1 DEF BatchesInv
  <2>3. batch'[c] = batch[c] /\ sub'[c] = sub[c]
    BY <1>2, <1>4, <2>2
  <2>. QED  BY <2>1, <2>3 DEF AtWork, SubAt, Kind
<1>7. FinishAt(d)
  BY <1>1, <1>5
<1>8. IdleWhenNothingRuns' /\ room' \in [Specialists -> {"idle", "working"}] /\ left' \subseteq Specialists
  BY <1>6, <1>7, RoomStep
<1>9. \A c \in Batch : batch'[c].step # "running" => \A i \in Commands : sub'[c][i].step # "running"
  BY <1>2, <1>3, <1>4 DEF BatchesInv
<1>10. BatchesTypeOK'
  BY <1>1, <1>2, <1>4, <1>8 DEF BatchesInv, BatchesTypeOK, BatchRecord, SubRecord
<1>. QED  BY <1>1, <1>8, <1>9, <1>10, FileRests DEF BatchesInv

LEMMA BatchesStep == BatchesInv /\ [BatchesNext]_batchvars => BatchesInv'
<1>. SUFFICES ASSUME BatchesInv, [BatchesNext]_batchvars PROVE BatchesInv'
  OBVIOUS
<1>1. ASSUME NEW b \in Batch, BatchStarts(b) \/ PressStopBatch(b) \/ LeaveBatch(b) \/ RecordRun(b) \/ BatchEnds(b)
      PROVE  BatchesInv'
  BY <1>1, BatchStartsStep, PressStopBatchStep, LeaveBatchStep, RecordRunStep, BatchEndsStep
<1>2. ASSUME NEW b \in Batch, NEW i \in Commands, SubStarts(b, i) \/ SubEnds(b, i) \/ SubLeaves(b, i)
      PROVE  BatchesInv'
  BY <1>2, SubStartsStep, SubEndsStep
<1>3. CASE UNCHANGED batchvars
  <2>1. UNCHANGED <<room, left, batch, sub, stop, disk, memory, recorded>>
    BY <1>3 DEF batchvars
  <2>2. IdleWhenNothingRuns'
    BY <2>1 DEF BatchesInv, IdleWhenNothingRuns, AtWork, Kind, SubAt
  <2>3. BatchesTypeOK'
    BY <2>1 DEF BatchesInv, BatchesTypeOK
  <2>. QED  BY <2>1, <2>2, <2>3, FileRests DEF BatchesInv
<1>. QED  BY <1>1, <1>2, <1>3 DEF BatchesNext

-----------------------------------------------------------------------------
\* A tool server (Mcp)

Starting == {"start", "initialize", "list"}

\* Where a request is says what it asks, of which process, and whether it holds _starting.
RequestOK(r) ==
  /\ asking[r].answer \in {0, asking[r].id}
  /\ (asking[r].method \in Starting) = (starter = r)
  /\ asking[r].phase \in {"idle", "start"} => asking[r].method = "none" /\ asking[r].server = 0
  /\ asking[r].phase = "card" => asking[r].method \in {"start", "call"}
  /\ asking[r].phase \in {"send", "wait"} => asking[r].method \in {"initialize", "list", "call"}
  /\ asking[r].phase = "found" => asking[r].method = "none"
  /\ asking[r].method = "start" => asking[r].phase = "card" /\ asking[r].server = 0
  /\ asking[r].phase = "found" \/ asking[r].method \in {"initialize", "list", "call"} => asking[r].server \in Servers

McpInv ==
  /\ McpTypeOK
  /\ \A s \in Servers : servers[s].state # "dead" => Len(servers[s].lines) <= MaxLines
  /\ \A r \in Asking : RequestOK(r)
  /\ starter # NoRequest => running = 0
  /\ NoServerIsForgotten

LEMMA McpTypes ==
  ASSUME McpTypeOK
  PROVE  /\ servers \in [Servers -> Server] /\ asking \in [Asking -> Request]
         /\ starter \in Asking \cup {NoRequest} /\ running \in 0..MaxServers /\ config \in 0..MaxConfigs
         /\ listed \in BOOLEAN
         /\ MaxServers \in Nat /\ MaxIds \in Nat /\ MaxLines \in Nat /\ MaxConfigs \in Nat /\ NoRequest \notin Asking
         /\ \A s \in Servers : /\ servers[s] \in Server /\ servers[s].lines \in Seq(0..MaxIds + 1)
                               /\ Len(servers[s].lines) \in Nat /\ Len(servers[s].lines) <= MaxLines + 1
         /\ \A r \in Asking : asking[r] \in Request
<1>1. \A s \in Servers : servers[s] \in Server
  BY DEF McpTypeOK
<1>2. \A s \in Servers : servers[s].lines \in Seq(0..MaxIds + 1)
  BY <1>1 DEF Server
<1>. QED  BY <1>1, <1>2, McpAssumption DEF McpTypeOK

LEMMA McpStart == McpInit => McpInv
<1>. SUFFICES ASSUME McpInit PROVE McpInv
  OBVIOUS
<1>1. MaxServers \in Nat /\ MaxIds \in Nat /\ MaxLines \in Nat /\ MaxConfigs \in Nat
  BY McpAssumption
<1>2. Resting \in Request
  BY <1>1 DEF Resting, Request
<1>. DEFINE unborn == [state |-> "unborn", argv |-> 0, sent |-> 0, open |-> {}, lines |-> <<>>, lock |-> NoRequest]
<1>3. unborn \in Server /\ unborn.state = "unborn" /\ Len(unborn.lines) = 0
  <2>1. <<>> \in Seq(0..MaxIds + 1) /\ 0 \in 0..MaxConfigs /\ 0 \in 0..MaxIds
    BY <1>1, EmptySeq
  <2>. QED  BY <2>1 DEF Server
<1>4. servers = [s \in Servers |-> unborn]
  BY DEF McpInit
<1>. HIDE DEF unborn
<1>5. servers \in [Servers -> Server] /\ \A s \in Servers : servers[s] = unborn
  BY <1>3, <1>4
<1>6. asking \in [Asking -> Request] /\ \A r \in Asking : asking[r] = Resting
  BY <1>2 DEF McpInit
<1>7. McpTypeOK
  <2>1. \A s \in Servers : Len(servers[s].lines) <= MaxLines + 1
    BY <1>1, <1>3, <1>5
  <2>2. 0 \in 0..MaxConfigs /\ 0 \in 0..MaxServers
    BY <1>1
  <2>. QED  BY <1>5, <1>6, <2>1, <2>2 DEF McpInit, McpTypeOK
<1>8. ASSUME NEW r \in Asking PROVE RequestOK(r)
  <2>1. /\ asking[r].phase = "idle" /\ asking[r].method = "none" /\ asking[r].server = 0
        /\ asking[r].answer = 0 /\ starter = NoRequest
    BY <1>6 DEF Resting, McpInit
  <2>2. (asking[r].method \in Starting) = (starter = r)
    BY <2>1, McpAssumption DEF Starting
  <2>3. /\ asking[r].answer \in {0, asking[r].id}
        /\ asking[r].phase \notin {"card", "send", "wait", "found"}
        /\ asking[r].method \notin {"start", "initialize", "list", "call"}
    BY <2>1
  <2>. QED  BY <2>1, <2>2, <2>3 DEF RequestOK
<1>9. starter = NoRequest
  BY DEF McpInit
<1>10. \A s \in Servers : servers[s].state = "unborn" /\ Len(servers[s].lines) <= MaxLines
  BY <1>1, <1>3, <1>5
<1>. QED  BY <1>7, <1>8, <1>9, <1>10 DEF McpInv, NoServerIsForgotten

\* A request's record is replaced, the others stay.
LEMMA Become ==
  ASSUME McpTypeOK, NEW r \in Asking, NEW q \in Request, Becoming(r, q)
  PROVE  asking' \in [Asking -> Request] /\ asking'[r] = q /\ \A o \in Asking \ {r} : asking'[o] = asking[o]
BY DEF McpTypeOK, Becoming

LEMMA ServerBecome ==
  ASSUME McpTypeOK, NEW s \in Servers, NEW p \in Server, ServerBecomes(s, p)
  PROVE  servers' \in [Servers -> Server] /\ servers'[s] = p /\ \A o \in Servers \ {s} : servers'[o] = servers[o]
BY DEF McpTypeOK, ServerBecomes

LEMMA RequestOverTypes ==
  ASSUME McpTypeOK, NEW r \in Asking
  PROVE  /\ RequestOver(r) \in Request /\ RequestOver(r).phase = "idle" /\ RequestOver(r).method = "none"
         /\ RequestOver(r).server = 0 /\ RequestOver(r).id = asking[r].id /\ RequestOver(r).answer = asking[r].answer
<1>1. asking[r] \in Request /\ asking[r].id \in 0..MaxIds /\ asking[r].answer \in 0..MaxIds
  BY McpTypes DEF Request
<1>2. 0 \in 0..MaxConfigs /\ 0 \in 0..MaxServers
  BY McpTypes
<1>. QED  BY <1>1, <1>2 DEF RequestOver, Resting, Request

\* A process that is closed writes the end of its output, if it had not before.
LEMMA DeadTypes ==
  ASSUME NEW p \in Server, Len(p.lines) <= MaxLines + 1, p.state = "alive" => Len(p.lines) <= MaxLines
  PROVE  /\ Dead(p) \in Server /\ Dead(p).state = "dead" /\ Len(Dead(p).lines) <= MaxLines + 1
         /\ Dead(p).lock = p.lock
<1>1. MaxIds \in Nat /\ MaxLines \in Nat /\ p.lines \in Seq(0..MaxIds + 1) /\ Ended \in 0..MaxIds + 1
  BY McpAssumption DEF Server, Ended
<1>. DEFINE lines == IF p.state = "alive" THEN Append(p.lines, Ended) ELSE p.lines
<1>2. lines \in Seq(0..MaxIds + 1) /\ Len(lines) <= MaxLines + 1
  <2>1. CASE p.state = "alive"
    <3>1. Append(p.lines, Ended) \in Seq(0..MaxIds + 1) /\ Len(Append(p.lines, Ended)) = Len(p.lines) + 1
      BY <1>1, AppendProperties
    <3>. QED  BY <1>1, <2>1, <3>1
  <2>2. CASE p.state # "alive"
    BY <1>1, <2>2
  <2>. QED  BY <2>1, <2>2
<1>3. Dead(p) = [p EXCEPT !.state = "dead", !.open = {}, !.lines = lines]
  BY DEF Dead
<1>. HIDE DEF lines
<1>. QED  BY <1>2, <1>3 DEF Server

\* The invariant after a step, from what became of the request that took it and of the processes.
LEMMA RequestStep ==
  ASSUME McpInv, NEW r \in Asking,
         asking' \in [Asking -> Request], \A o \in Asking \ {r} : asking'[o] = asking[o],
         starter' = starter \/ (starter' = NoRequest /\ starter = r) \/ (starter = NoRequest /\ starter' = r),
         RequestOK(r)'
  PROVE  \A o \in Asking : RequestOK(o)'
<1>. SUFFICES ASSUME NEW o \in Asking PROVE RequestOK(o)'
  OBVIOUS
<1>1. CASE o = r
  BY <1>1
<1>2. CASE o # r
  <2>1. asking'[o] = asking[o] /\ RequestOK(o) /\ o # NoRequest
    BY <1>2, McpTypes DEF McpInv
  <2>2. (starter' = o) = (starter = o)
    BY <1>2, <2>1
  <2>. QED  BY <2>1, <2>2 DEF RequestOK
<1>. QED  BY <1>1, <1>2

\* A process may be read from, freed, or closed.
LEMMA FailedTypes ==
  ASSUME NEW p \in Server, Len(p.lines) <= MaxLines + 1, p.state # "dead" => Len(p.lines) <= MaxLines,
         NEW method, NEW r
  PROVE  /\ Failed(p, method, r) \in Server /\ Len(Failed(p, method, r).lines) <= MaxLines + 1
         /\ Failed(p, method, r).state # "dead" =>
              method = "call" /\ Failed(p, method, r).state = p.state /\ Len(Failed(p, method, r).lines) <= MaxLines
<1>. DEFINE free == IF p.lock = r THEN [p EXCEPT !.lock = NoRequest] ELSE p
<1>1. free \in Server /\ free.lines = p.lines /\ free.state = p.state
  BY DEF Server
<1>. HIDE DEF free
<1>2. Failed(p, method, r) = IF method = "call" THEN free ELSE Dead(free)
  BY DEF Failed, free
<1>3. Dead(free) \in Server /\ Dead(free).state = "dead" /\ Len(Dead(free).lines) <= MaxLines + 1
  <2>1. PICK q \in Server : q = free
    BY <1>1
  <2>2. Dead(q) \in Server /\ Dead(q).state = "dead" /\ Len(Dead(q).lines) <= MaxLines + 1
    BY <1>1, <2>1, DeadTypes
  <2>. QED  BY <2>1, <2>2
<1>4. CASE method = "call"
  BY <1>1, <1>2, <1>4
<1>5. CASE method # "call"
  BY <1>2, <1>3, <1>5
<1>. QED  BY <1>4, <1>5

LEMMA RequestFailsStep ==
  ASSUME McpInv, NEW r \in Asking, asking[r].phase \in {"send", "wait"},
         NEW unread \in Seq(0..MaxIds + 1), Len(unread) <= Len(servers[asking[r].server].lines),
         RequestFails(r, unread)
  PROVE  McpInv'
<1>1. McpTypeOK /\ RequestOK(r) /\ asking[r].method \in {"initialize", "list", "call"}
  BY DEF McpInv, RequestOK
<1>2. PICK s \in Servers : s = asking[r].server
  BY <1>1 DEF RequestOK
<1>3. /\ servers[s] \in Server /\ servers[s].lines \in Seq(0..MaxIds + 1) /\ Len(servers[s].lines) <= MaxLines + 1
      /\ Len(servers[s].lines) \in Nat /\ MaxLines \in Nat
      /\ servers[s].state # "dead" => Len(servers[s].lines) <= MaxLines
  BY <1>1, McpTypes DEF McpInv
<1>. DEFINE trimmed == [servers[s] EXCEPT !.lines = unread]
            p == Failed(trimmed, asking[r].method, r)
<1>4. /\ trimmed \in Server /\ trimmed.lines = unread /\ trimmed.state = servers[s].state /\ Len(trimmed.lines) <= MaxLines + 1
      /\ trimmed.state # "dead" => Len(trimmed.lines) <= MaxLines
  <2>1. trimmed \in Server /\ trimmed.lines = unread /\ trimmed.state = servers[s].state
    BY <1>3 DEF Server
  <2>2. Len(unread) \in Nat /\ Len(unread) <= Len(servers[s].lines)
    BY <1>2
  <2>. QED  BY <1>3, <2>1, <2>2
<1>. HIDE DEF trimmed
<1>5. /\ p \in Server /\ Len(p.lines) <= MaxLines + 1
      /\ p.state # "dead" => asking[r].method = "call" /\ p.state = servers[s].state /\ Len(p.lines) <= MaxLines
  <2>1. PICK q \in Server : q = trimmed
    BY <1>4
  <2>2. PICK method \in {"initialize", "list", "call"} : method = asking[r].method
    BY <1>1
  <2>3. /\ Failed(q, method, r) \in Server /\ Len(Failed(q, method, r).lines) <= MaxLines + 1
        /\ Failed(q, method, r).state # "dead" =>
             method = "call" /\ Failed(q, method, r).state = q.state /\ Len(Failed(q, method, r).lines) <= MaxLines
    BY <1>4, <2>1, FailedTypes
  <2>. QED  BY <1>4, <2>1, <2>2, <2>3
<1>6. servers' = [servers EXCEPT ![s] = p]
  BY <1>2 DEF RequestFails, ServerBecomes, trimmed
<1>. HIDE DEF p
<1>7. servers' \in [Servers -> Server] /\ servers'[s] = p /\ \A o \in Servers \ {s} : servers'[o] = servers[o]
  BY <1>1, <1>5, <1>6 DEF McpTypeOK
<1>8. /\ asking' \in [Asking -> Request] /\ asking'[r] = RequestOver(r)
      /\ \A o \in Asking \ {r} : asking'[o] = asking[o]
  <2>1. asking' = [asking EXCEPT ![r] = RequestOver(r)]
    BY DEF RequestFails, Becoming
  <2>. QED  BY <1>1, <2>1, RequestOverTypes DEF McpTypeOK
<1>9. /\ starter' = IF starter = r THEN NoRequest ELSE starter
      /\ UNCHANGED <<config, running, listed>>
  BY DEF RequestFails
<1>10. starter' # r /\ r # NoRequest
  BY <1>9, McpTypes, <1>1
<1>11. RequestOK(r)'
  BY <1>1, <1>8, <1>10, RequestOverTypes DEF RequestOK, Starting
<1>12. \A o \in Asking : RequestOK(o)'
  BY <1>8, <1>9, <1>11, RequestStep
<1>13. NoServerIsForgotten'
  <2>. SUFFICES ASSUME NEW o \in Servers, servers'[o].state = "alive"
                PROVE  o = running \/ (starter' # NoRequest /\ asking'[starter'].server = o)
    BY <1>9 DEF NoServerIsForgotten
  <2>1. servers[o].state = "alive" /\ (o = s => asking[r].method = "call")
    BY <1>5, <1>7
  <2>2. o = running \/ (starter # NoRequest /\ asking[starter].server = o)
    BY <2>1 DEF McpInv, NoServerIsForgotten
  <2>3. ASSUME starter # NoRequest, asking[starter].server = o PROVE starter # r
    <3>1. SUFFICES ASSUME starter = r PROVE FALSE
      OBVIOUS
    <3>2. o = s /\ asking[r].method \in Starting
      BY <1>1, <1>2, <2>3, <3>1 DEF RequestOK
    <3>. QED  BY <2>1, <3>2 DEF Starting
  <2>4. ASSUME starter # NoRequest, asking[starter].server = o PROVE asking'[starter'].server = o /\ starter' # NoRequest
    <3>1. starter \in Asking /\ starter # r
      BY <1>1, <2>3, <2>4, McpTypes
    <3>. QED  BY <1>8, <1>9, <2>4, <3>1
  <2>. QED  BY <2>2, <2>4
<1>14. \A o \in Servers : /\ Len(servers'[o].lines) <= MaxLines + 1
                          /\ servers'[o].state # "dead" => Len(servers'[o].lines) <= MaxLines
  BY <1>1, <1>5, <1>7, McpTypes DEF McpInv
<1>15. McpTypeOK'
  BY <1>1, <1>7, <1>8, <1>9, <1>14 DEF McpTypeOK
<1>. QED  BY <1>9, <1>12, <1>13, <1>14, <1>15 DEF McpInv

\* A request's step that no process sees.
LEMMA OwnStepOfRequest ==
  ASSUME McpInv, NEW r \in Asking, NEW q \in Request, asking' = [asking EXCEPT ![r] = q],
         UNCHANGED <<config, running, listed, starter, servers>>,
         q.answer \in {0, q.id}, q.method \in Starting <=> asking[r].method \in Starting,
         q.phase \in {"idle", "start"} => q.method = "none" /\ q.server = 0,
         q.phase = "card" => q.method \in {"start", "call"},
         q.phase \in {"send", "wait"} => q.method \in {"initialize", "list", "call"},
         q.phase = "found" => q.method = "none",
         q.method = "start" => q.phase = "card" /\ q.server = 0,
         q.phase = "found" \/ q.method \in {"initialize", "list", "call"} => q.server \in Servers,
         q.method \in Starting => q.server = asking[r].server
  PROVE  McpInv'
<1>1. McpTypeOK /\ RequestOK(r)
  BY DEF McpInv
<1>2. asking' \in [Asking -> Request] /\ asking'[r] = q /\ \A o \in Asking \ {r} : asking'[o] = asking[o]
  BY <1>1 DEF McpTypeOK
<1>3. (q.method \in Starting) = (starter = r)
  BY <1>1 DEF RequestOK
<1>4. RequestOK(r)'
  BY <1>2, <1>3 DEF RequestOK
<1>5. \A o \in Asking : RequestOK(o)'
  BY <1>2, <1>4, RequestStep
<1>6. NoServerIsForgotten'
  <2>. SUFFICES ASSUME NEW o \in Servers, servers[o].state = "alive", o # running
                PROVE  starter # NoRequest /\ asking'[starter].server = o
    BY DEF NoServerIsForgotten
  <2>1. starter # NoRequest /\ asking[starter].server = o /\ starter \in Asking
    BY McpTypes, <1>1 DEF McpInv, NoServerIsForgotten
  <2>. QED  BY <1>2, <1>3, <2>1
<1>7. McpTypeOK'
  BY <1>1, <1>2 DEF McpTypeOK
<1>. QED  BY <1>5, <1>6, <1>7 DEF McpInv

LEMMA BeginStep == ASSUME McpInv, NEW r \in Asking, Begin(r) PROVE McpInv'
<1>. DEFINE q == [Resting EXCEPT !.phase = "start", !.argv = config]
<1>1. /\ asking[r].phase = "idle" /\ asking' = [asking EXCEPT ![r] = q]
      /\ UNCHANGED <<config, running, listed, starter, servers>>
      /\ asking[r].method = "none" /\ config \in 0..MaxConfigs
  BY McpTypes DEF Begin, Becoming, McpInv, RequestOK
<1>2. /\ q \in Request /\ q.phase = "start" /\ q.method = "none" /\ q.server = 0 /\ q.answer = 0
  <2>1. 0 \in 0..MaxServers /\ 0 \in 0..MaxIds
    BY McpTypes DEF McpInv
  <2>. QED  BY <1>1, <2>1 DEF Resting, Request
<1>. HIDE DEF q
<1>. QED  BY <1>1, <1>2, OwnStepOfRequest DEF Starting

LEMMA ReuseStep == ASSUME McpInv, NEW r \in Asking, Reuse(r) PROVE McpInv'
<1>. DEFINE q == [asking[r] EXCEPT !.phase = "found", !.server = running, !.argv = 0]
<1>1. /\ asking[r].phase = "start" /\ asking' = [asking EXCEPT ![r] = q]
      /\ UNCHANGED <<config, running, listed, starter, servers>>
      /\ asking[r].method = "none" /\ running \in Servers /\ asking[r].answer \in {0, asking[r].id}
  BY McpTypes DEF Reuse, Becoming, McpInv, RequestOK, Servers
<1>2. /\ q \in Request /\ q.phase = "found" /\ q.method = "none" /\ q.server = running
      /\ q.answer = asking[r].answer /\ q.id = asking[r].id
  <2>1. 0 \in 0..MaxConfigs /\ running \in 0..MaxServers /\ asking[r] \in Request
    BY McpTypes DEF McpInv
  <2>. QED  BY <1>1, <2>1 DEF Request
<1>. HIDE DEF q
<1>. QED  BY <1>1, <1>2, OwnStepOfRequest DEF Starting

LEMMA LookUpStep == ASSUME McpInv, NEW r \in Asking, LookUp(r) PROVE McpInv'
<1>1. /\ asking[r].phase = "found" /\ asking[r].method = "none" /\ asking[r].server \in Servers
      /\ UNCHANGED <<config, running, listed, starter, servers>> /\ asking[r].answer \in {0, asking[r].id}
      /\ asking[r] \in Request /\ McpTypeOK
  BY McpTypes DEF LookUp, McpInv, RequestOK
<1>2. CASE Becoming(r, RequestOver(r))
  <2>1. PICK q \in Request : q = RequestOver(r)
    BY <1>1, RequestOverTypes
  <2>2. asking' = [asking EXCEPT ![r] = q]
    BY <1>2, <2>1 DEF Becoming
  <2>3. q.phase = "idle" /\ q.method = "none" /\ q.server = 0 /\ q.id = asking[r].id /\ q.answer = asking[r].answer
    BY <1>1, <2>1, RequestOverTypes
  <2>. QED  BY <1>1, <2>2, <2>3, OwnStepOfRequest DEF Starting
<1>3. CASE Becoming(r, [asking[r] EXCEPT !.phase = "card", !.method = "call"])
  <2>. DEFINE q == [asking[r] EXCEPT !.phase = "card", !.method = "call"]
  <2>1. /\ q \in Request /\ q.phase = "card" /\ q.method = "call" /\ q.server = asking[r].server
        /\ q.answer = asking[r].answer /\ q.id = asking[r].id
    BY <1>1 DEF Request
  <2>2. asking' = [asking EXCEPT ![r] = q]
    BY <1>3 DEF Becoming
  <2>. HIDE DEF q
  <2>. QED  BY <1>1, <2>1, <2>2, OwnStepOfRequest DEF Starting
<1>. QED  BY <1>2, <1>3 DEF LookUp

LEMMA CallAnsweredStep == ASSUME McpInv, NEW r \in Asking, CallAnswered(r) PROVE McpInv'
<1>1. /\ asking[r].phase = "card" /\ asking[r].method = "call" /\ asking[r].server \in Servers
      /\ UNCHANGED <<config, running, listed, starter, servers>> /\ asking[r].answer \in {0, asking[r].id}
      /\ asking[r] \in Request /\ McpTypeOK
  BY McpTypes DEF CallAnswered, McpInv, RequestOK
<1>2. CASE Becoming(r, RequestOver(r))
  <2>1. PICK q \in Request : q = RequestOver(r)
    BY <1>1, RequestOverTypes
  <2>2. asking' = [asking EXCEPT ![r] = q]
    BY <1>2, <2>1 DEF Becoming
  <2>3. q.phase = "idle" /\ q.method = "none" /\ q.server = 0 /\ q.id = asking[r].id /\ q.answer = asking[r].answer
    BY <1>1, <2>1, RequestOverTypes
  <2>. QED  BY <1>1, <2>2, <2>3, OwnStepOfRequest DEF Starting
<1>3. CASE Becoming(r, [asking[r] EXCEPT !.phase = "send"])
  <2>. DEFINE q == [asking[r] EXCEPT !.phase = "send"]
  <2>1. /\ q \in Request /\ q.phase = "send" /\ q.method = "call" /\ q.server = asking[r].server
        /\ q.answer = asking[r].answer /\ q.id = asking[r].id
    BY <1>1 DEF Request
  <2>2. asking' = [asking EXCEPT ![r] = q]
    BY <1>3 DEF Becoming
  <2>. HIDE DEF q
  <2>. QED  BY <1>1, <2>1, <2>2, OwnStepOfRequest DEF Starting
<1>. QED  BY <1>2, <1>3 DEF CallAnswered

LEMMA DeadlineStep == ASSUME McpInv, NEW r \in Asking, DeadlinePasses(r) PROVE McpInv'
<1>. DEFINE q == [asking[r] EXCEPT !.expired = TRUE]
<1>1. asking[r] \in Request /\ RequestOK(r)
  BY McpTypes DEF McpInv
<1>2. asking' = [asking EXCEPT ![r] = q] /\ UNCHANGED <<config, running, listed, starter, servers>>
  BY DEF DeadlinePasses, Becoming
<1>3. /\ q \in Request /\ q.phase = asking[r].phase /\ q.method = asking[r].method /\ q.server = asking[r].server
      /\ q.answer = asking[r].answer /\ q.id = asking[r].id
  BY <1>1 DEF Request
<1>. HIDE DEF q
<1>. QED  BY <1>1, <1>2, <1>3, OwnStepOfRequest DEF RequestOK

LEMMA StartRefusedStep == ASSUME McpInv, NEW r \in Asking, StartRefused(r) PROVE McpInv'
<1>1. /\ McpTypeOK /\ RequestOK(r) /\ asking[r].phase = "card" /\ asking[r].method = "start" /\ starter' = NoRequest
      /\ UNCHANGED <<config, running, listed, servers>> /\ asking' = [asking EXCEPT ![r] = RequestOver(r)]
  BY DEF StartRefused, Becoming, McpInv
<1>2. starter = r /\ r # NoRequest /\ asking[r].server = 0
  BY <1>1, McpTypes DEF RequestOK, Starting
<1>3. /\ asking' \in [Asking -> Request] /\ asking'[r] = RequestOver(r)
      /\ \A o \in Asking \ {r} : asking'[o] = asking[o]
  BY <1>1, RequestOverTypes DEF McpTypeOK
<1>4. RequestOK(r)'
  BY <1>1, <1>2, <1>3, RequestOverTypes DEF RequestOK, Starting
<1>5. \A o \in Asking : RequestOK(o)'
  BY <1>1, <1>2, <1>3, <1>4, RequestStep
<1>6. NoServerIsForgotten'
  BY <1>1, <1>2, McpTypes DEF McpInv, NoServerIsForgotten, Servers
<1>7. McpTypeOK'
  BY <1>1, <1>3 DEF McpTypeOK
<1>. QED  BY <1>1, <1>5, <1>6, <1>7 DEF McpInv

LEMMA RestartStep == ASSUME McpInv, NEW r \in Asking, Restart(r) PROVE McpInv'
<1>. DEFINE q == [asking[r] EXCEPT !.phase = "card", !.method = "start"]
<1>1. /\ McpTypeOK /\ RequestOK(r) /\ asking[r].phase = "start" /\ starter = NoRequest /\ starter' = r
      /\ running' = 0 /\ listed' = FALSE /\ config' = config /\ asking' = [asking EXCEPT ![r] = q]
      /\ servers' = [s \in Servers |-> IF s = running THEN Dead(servers[s]) ELSE servers[s]]
  BY DEF Restart, Becoming, McpInv
<1>2. /\ q \in Request /\ q.phase = "card" /\ q.method = "start" /\ q.server = 0 /\ q.answer = asking[r].answer
      /\ q.id = asking[r].id
  BY <1>1, McpTypes DEF Request, RequestOK
<1>. HIDE DEF q
<1>3. asking' \in [Asking -> Request] /\ asking'[r] = q /\ \A o \in Asking \ {r} : asking'[o] = asking[o]
  BY <1>1, <1>2 DEF McpTypeOK
<1>4. RequestOK(r)'
  BY <1>1, <1>2, <1>3 DEF RequestOK, Starting
<1>5. \A o \in Asking : RequestOK(o)'
  BY <1>1, <1>3, <1>4, RequestStep
<1>6. ASSUME NEW s \in Servers
      PROVE  /\ servers'[s] \in Server /\ servers'[s].state # "alive" /\ Len(servers'[s].lines) <= MaxLines + 1
             /\ servers'[s].state # "dead" => Len(servers'[s].lines) <= MaxLines
  <2>1. /\ servers[s] \in Server /\ Len(servers[s].lines) <= MaxLines + 1
        /\ servers[s].state # "dead" => Len(servers[s].lines) <= MaxLines
        /\ servers[s].state = "alive" => s = running
    BY <1>1, McpTypes DEF McpInv, NoServerIsForgotten
  <2>2. CASE s = running
    <3>1. PICK p \in Server : p = servers[s]
      BY <2>1
    <3>2. Dead(p) \in Server /\ Dead(p).state = "dead" /\ Len(Dead(p).lines) <= MaxLines + 1
      BY <2>1, <3>1, DeadTypes
    <3>. QED  BY <1>1, <2>2, <3>1, <3>2
  <2>3. CASE s # running
    BY <1>1, <2>1, <2>3
  <2>. QED  BY <2>2, <2>3
<1>7. servers' \in [Servers -> Server]
  BY <1>1, <1>6
<1>8. 0 \in 0..MaxServers
  BY <1>1, McpTypes
<1>9. McpTypeOK'
  BY <1>1, <1>3, <1>6, <1>7, <1>8 DEF McpTypeOK
<1>. QED  BY <1>1, <1>5, <1>6, <1>9 DEF McpInv, NoServerIsForgotten

LEMMA StartAllowedStep == ASSUME McpInv, NEW r \in Asking, StartAllowed(r) PROVE McpInv'
<1>1. PICK s \in Servers :
        /\ servers[s].state = "unborn"
        /\ ServerBecomes(s, [servers[s] EXCEPT !.state = "alive", !.argv = asking[r].argv])
        /\ Becoming(r, [asking[r] EXCEPT !.phase = "send", !.method = "initialize", !.server = s, !.argv = 0])
  BY DEF StartAllowed
<1>. DEFINE p == [servers[s] EXCEPT !.state = "alive", !.argv = asking[r].argv]
            q == [asking[r] EXCEPT !.phase = "send", !.method = "initialize", !.server = s, !.argv = 0]
<1>2. /\ McpTypeOK /\ RequestOK(r) /\ asking[r].phase = "card" /\ asking[r].method = "start"
      /\ UNCHANGED <<config, running, listed, starter>> /\ asking[r] \in Request /\ servers[s] \in Server
      /\ 0 \in 0..MaxConfigs /\ s \in 0..MaxServers
  BY McpTypes DEF StartAllowed, McpInv, Servers
<1>3. starter = r /\ r # NoRequest /\ asking[r].server = 0 /\ running = 0
  BY <1>2, McpTypes DEF RequestOK, Starting, McpInv
<1>4. \A o \in Servers : servers[o].state # "alive"
  BY <1>2, <1>3 DEF McpInv, NoServerIsForgotten, Servers
<1>5. p \in Server /\ p.lines = servers[s].lines
  BY <1>2 DEF Server, Request
<1>6. /\ q \in Request /\ q.phase = "send" /\ q.method = "initialize" /\ q.server = s /\ q.answer = asking[r].answer
      /\ q.id = asking[r].id
  BY <1>2 DEF Request
<1>7. servers' = [servers EXCEPT ![s] = p] /\ asking' = [asking EXCEPT ![r] = q]
  BY <1>1 DEF ServerBecomes, Becoming
<1>. HIDE DEF p, q
<1>8. asking' \in [Asking -> Request] /\ asking'[r] = q /\ \A o \in Asking \ {r} : asking'[o] = asking[o]
  BY <1>2, <1>6, <1>7 DEF McpTypeOK
<1>9. servers' \in [Servers -> Server] /\ servers'[s] = p /\ \A o \in Servers \ {s} : servers'[o] = servers[o]
  BY <1>2, <1>5, <1>7 DEF McpTypeOK
<1>10. RequestOK(r)'
  BY <1>2, <1>3, <1>6, <1>8 DEF RequestOK, Starting
<1>11. \A o \in Asking : RequestOK(o)'
  BY <1>2, <1>8, <1>10, RequestStep
<1>12. NoServerIsForgotten'
  BY <1>2, <1>3, <1>4, <1>6, <1>8, <1>9 DEF NoServerIsForgotten
<1>13. \A o \in Servers : /\ Len(servers'[o].lines) <= MaxLines + 1
                          /\ servers'[o].state # "dead" => Len(servers'[o].lines) <= MaxLines
  <2>1. Len(servers[s].lines) <= MaxLines
    BY <1>1 DEF McpInv
  <2>. QED  BY <1>2, <1>5, <1>9, <2>1, McpTypes DEF McpInv
<1>14. McpTypeOK'
  BY <1>2, <1>8, <1>9, <1>13 DEF McpTypeOK
<1>. QED  BY <1>2, <1>3, <1>11, <1>12, <1>13, <1>14 DEF McpInv

\* A step on a process that keeps it alive or not as it was, and perhaps its requester's.
LEMMA ProcessStep ==
  ASSUME McpInv, NEW s \in Servers, NEW p \in Server, servers' = [servers EXCEPT ![s] = p],
         p.state = "alive" => servers[s].state = "alive",
         Len(p.lines) <= MaxLines + 1, p.state # "dead" => Len(p.lines) <= MaxLines
  PROVE  /\ servers' \in [Servers -> Server]
         /\ \A o \in Servers : /\ Len(servers'[o].lines) <= MaxLines + 1
                               /\ servers'[o].state # "dead" => Len(servers'[o].lines) <= MaxLines
                               /\ servers'[o].state = "alive" => servers[o].state = "alive"
<1>1. servers' \in [Servers -> Server] /\ servers'[s] = p /\ \A o \in Servers \ {s} : servers'[o] = servers[o]
  BY DEF McpInv, McpTypeOK
<1>2. \A o \in Servers : /\ Len(servers[o].lines) <= MaxLines + 1
                         /\ servers[o].state # "dead" => Len(servers[o].lines) <= MaxLines
  BY DEF McpInv, McpTypeOK
<1>. QED  BY <1>1, <1>2

LEMMA ServerWritesStep == ASSUME McpInv, NEW s \in Servers, ServerWrites(s) PROVE McpInv'
<1>1. PICK line \in servers[s].open \cup {Chatter} :
        ServerBecomes(s, [servers[s] EXCEPT !.open = servers[s].open \ {line}, !.lines = Append(servers[s].lines, line)])
  BY DEF ServerWrites
<1>. DEFINE p == [servers[s] EXCEPT !.open = servers[s].open \ {line}, !.lines = Append(servers[s].lines, line)]
<1>2. /\ McpTypeOK /\ servers[s].state = "alive" /\ Len(servers[s].lines) < MaxLines
      /\ UNCHANGED <<config, running, listed, starter, asking>> /\ servers[s] \in Server
      /\ servers[s].lines \in Seq(0..MaxIds + 1) /\ Len(servers[s].lines) \in Nat /\ MaxLines \in Nat /\ MaxIds \in Nat
      /\ servers[s].open \subseteq Ids
  BY McpTypes DEF ServerWrites, McpInv, Server
<1>3. line \in 0..MaxIds + 1
  BY <1>1, <1>2 DEF Ids, Chatter
<1>4. /\ Append(servers[s].lines, line) \in Seq(0..MaxIds + 1)
      /\ Len(Append(servers[s].lines, line)) = Len(servers[s].lines) + 1
  BY <1>2, <1>3, AppendProperties
<1>5. p \in Server /\ p.state = "alive" /\ p.lines = Append(servers[s].lines, line)
  <2>1. servers[s].open \ {line} \in SUBSET Ids
    BY <1>2
  <2>. QED  BY <1>2, <1>4, <2>1 DEF Server
<1>6. Len(p.lines) <= MaxLines /\ Len(p.lines) <= MaxLines + 1
  BY <1>2, <1>4, <1>5
<1>7. servers' = [servers EXCEPT ![s] = p]
  BY <1>1 DEF ServerBecomes
<1>. HIDE DEF p
<1>8. /\ servers' \in [Servers -> Server]
      /\ \A o \in Servers : /\ Len(servers'[o].lines) <= MaxLines + 1
                            /\ servers'[o].state # "dead" => Len(servers'[o].lines) <= MaxLines
                            /\ servers'[o].state = "alive" => servers[o].state = "alive"
  BY <1>2, <1>5, <1>6, <1>7, ProcessStep
<1>9. NoServerIsForgotten' /\ \A r \in Asking : RequestOK(r)'
  BY <1>2, <1>8 DEF McpInv, NoServerIsForgotten, RequestOK
<1>10. McpTypeOK'
  BY <1>2, <1>8 DEF McpTypeOK
<1>. QED  BY <1>2, <1>8, <1>9, <1>10 DEF McpInv

LEMMA ServerExitsStep == ASSUME McpInv, NEW s \in Servers, ServerExits(s) PROVE McpInv'
<1>1. /\ McpTypeOK /\ servers[s].state = "alive" /\ UNCHANGED <<config, running, listed, starter, asking>>
      /\ servers' = [servers EXCEPT ![s] = Dead(servers[s])] /\ servers[s] \in Server
      /\ Len(servers[s].lines) <= MaxLines + 1 /\ Len(servers[s].lines) <= MaxLines
  BY McpTypes DEF ServerExits, ServerBecomes, McpInv
<1>2. PICK q \in Server : q = servers[s]
  BY <1>1
<1>3. Dead(q) \in Server /\ Dead(q).state = "dead" /\ Len(Dead(q).lines) <= MaxLines + 1
  BY <1>1, <1>2, DeadTypes
<1>4. servers' = [servers EXCEPT ![s] = Dead(q)]
  BY <1>1, <1>2
<1>5. /\ servers' \in [Servers -> Server]
      /\ \A o \in Servers : /\ Len(servers'[o].lines) <= MaxLines + 1
                            /\ servers'[o].state # "dead" => Len(servers'[o].lines) <= MaxLines
                            /\ servers'[o].state = "alive" => servers[o].state = "alive"
  <2>1. PICK p \in Server : p = Dead(q)
    BY <1>3
  <2>. QED  BY <1>1, <1>3, <1>4, <2>1, ProcessStep
<1>6. NoServerIsForgotten' /\ \A r \in Asking : RequestOK(r)'
  BY <1>1, <1>5 DEF McpInv, NoServerIsForgotten, RequestOK
<1>7. McpTypeOK'
  BY <1>1, <1>5 DEF McpTypeOK
<1>. QED  BY <1>1, <1>5, <1>6, <1>7 DEF McpInv

LEMMA OwnerEditsStep == ASSUME McpInv, OwnerEdits PROVE McpInv'
<1>1. config' \in 0..MaxConfigs /\ UNCHANGED <<running, listed, starter, servers, asking>>
  BY McpTypes DEF OwnerEdits, McpInv
<1>2. McpTypeOK'
  BY <1>1 DEF McpInv, McpTypeOK
<1>. QED  BY <1>1, <1>2 DEF McpInv, NoServerIsForgotten, RequestOK

\* A request's step with its process, which stays as it was alive or dead.
LEMMA StepWithProcess ==
  ASSUME McpInv, NEW r \in Asking, NEW s \in Servers, asking[r].server = s,
         NEW p \in Server, servers' = [servers EXCEPT ![s] = p],
         p.state = servers[s].state, Len(p.lines) <= MaxLines + 1, p.state # "dead" => Len(p.lines) <= MaxLines,
         NEW q \in Request, asking' = [asking EXCEPT ![r] = q],
         UNCHANGED <<config, running, listed, starter>>,
         q.answer \in {0, q.id}, q.method \in Starting <=> asking[r].method \in Starting,
         \/ q.phase = "idle" /\ q.method = "none" /\ q.server = 0
         \/ q.phase \in {"send", "wait"} /\ q.method \in {"initialize", "list", "call"} /\ q.server = s
  PROVE  McpInv'
<1>1. McpTypeOK /\ RequestOK(r)
  BY DEF McpInv
<1>2. asking' \in [Asking -> Request] /\ asking'[r] = q /\ \A o \in Asking \ {r} : asking'[o] = asking[o]
  BY <1>1 DEF McpTypeOK
<1>3. (q.method \in Starting) = (starter = r)
  BY <1>1 DEF RequestOK
<1>4. RequestOK(r)'
  BY <1>2, <1>3 DEF RequestOK, Starting
<1>5. \A o \in Asking : RequestOK(o)'
  BY <1>2, <1>4, RequestStep
<1>6. /\ servers' \in [Servers -> Server]
      /\ \A o \in Servers : /\ Len(servers'[o].lines) <= MaxLines + 1
                            /\ servers'[o].state # "dead" => Len(servers'[o].lines) <= MaxLines
                            /\ servers'[o].state = "alive" => servers[o].state = "alive"
  BY ProcessStep
<1>7. NoServerIsForgotten'
  <2>. SUFFICES ASSUME NEW o \in Servers, servers'[o].state = "alive", o # running
                PROVE  starter # NoRequest /\ asking'[starter].server = o
    BY DEF NoServerIsForgotten
  <2>1. starter # NoRequest /\ asking[starter].server = o /\ starter \in Asking
    BY McpTypes, <1>1, <1>6 DEF McpInv, NoServerIsForgotten
  <2>2. starter = r => q.server = s
    BY <1>3 DEF Starting
  <2>. QED  BY <1>2, <2>1, <2>2
<1>8. McpTypeOK'
  BY <1>1, <1>2, <1>6 DEF McpTypeOK
<1>. QED  BY <1>5, <1>6, <1>7, <1>8 DEF McpInv

\* What a request that sends or waits is known to have.
LEMMA Working ==
  ASSUME McpInv, NEW r \in Asking, asking[r].phase \in {"send", "wait"}
  PROVE  /\ McpTypeOK /\ RequestOK(r) /\ asking[r] \in Request /\ asking[r].method \in {"initialize", "list", "call"}
         /\ asking[r].server \in Servers /\ servers[asking[r].server] \in Server
         /\ servers[asking[r].server].lines \in Seq(0..MaxIds + 1)
         /\ Len(servers[asking[r].server].lines) \in Nat
         /\ Len(servers[asking[r].server].lines) <= MaxLines + 1
         /\ servers[asking[r].server].state # "dead" => Len(servers[asking[r].server].lines) <= MaxLines
<1>1. McpTypeOK /\ RequestOK(r)
  BY DEF McpInv
<1>2. asking[r].method \in {"initialize", "list", "call"} /\ asking[r].server \in Servers
  BY <1>1 DEF RequestOK
<1>. QED  BY <1>1, <1>2, McpTypes DEF McpInv

LEMMA SendMessageStep == ASSUME McpInv, NEW r \in Asking, SendMessage(r) PROVE McpInv'
<1>1. PICK s \in Servers : s = asking[r].server
  BY Working DEF SendMessage
<1>2. /\ McpTypeOK /\ asking[r] \in Request /\ asking[r].method \in {"initialize", "list", "call"}
      /\ servers[s] \in Server /\ servers[s].lines \in Seq(0..MaxIds + 1) /\ Len(servers[s].lines) \in Nat
      /\ Len(servers[s].lines) <= MaxLines + 1
      /\ servers[s].state # "dead" => Len(servers[s].lines) <= MaxLines
      /\ asking[r].phase = "send"
  BY <1>1, Working DEF SendMessage
<1>3. CASE servers[s].state = "dead"
  <2>1. RequestFails(r, servers[s].lines)
    BY <1>1, <1>3 DEF SendMessage
  <2>2. PICK unread \in Seq(0..MaxIds + 1) : unread = servers[s].lines
    BY <1>2
  <2>3. RequestFails(r, unread) /\ Len(unread) <= Len(servers[asking[r].server].lines)
    BY <1>1, <1>2, <2>1, <2>2
  <2>. QED  BY <1>2, <2>3, RequestFailsStep
<1>4. CASE servers[s].state # "dead"
  <2>. DEFINE id == servers[s].sent + 1
              p == [servers[s] EXCEPT !.sent = id, !.open = servers[s].open \cup {id}, !.lock = r]
              q == [asking[r] EXCEPT !.phase = "wait", !.id = id, !.answer = 0]
  <2>1. /\ id \in Ids /\ servers' = [servers EXCEPT ![s] = p] /\ asking' = [asking EXCEPT ![r] = q]
        /\ UNCHANGED <<config, running, listed, starter>>
    BY <1>1, <1>4 DEF SendMessage, ServerBecomes, Becoming
  <2>. HIDE DEF id
  <2>2. id \in 0..MaxIds /\ 0 \in 0..MaxIds
    BY <2>1, McpTypes, <1>2 DEF Ids
  <2>3. p \in Server /\ p.state = servers[s].state /\ p.lines = servers[s].lines
    <3>1. servers[s].open \cup {id} \in SUBSET Ids
      BY <1>2, <2>1 DEF Server
    <3>. QED  BY <1>2, <2>2, <3>1 DEF Server
  <2>4. /\ q \in Request /\ q.phase = "wait" /\ q.method = asking[r].method /\ q.server = s
        /\ q.id = id /\ q.answer = 0
    BY <1>1, <1>2, <2>2 DEF Request
  <2>. HIDE DEF p, q
  <2>. QED  BY <1>1, <1>2, <1>4, <2>1, <2>3, <2>4, StepWithProcess
<1>. QED  BY <1>3, <1>4

LEMMA StopsWaitingStep == ASSUME McpInv, NEW r \in Asking, StopsWaiting(r) PROVE McpInv'
<1>1. /\ asking[r].phase \in {"send", "wait"} /\ RequestFails(r, servers[asking[r].server].lines)
  BY DEF StopsWaiting
<1>2. PICK unread \in Seq(0..MaxIds + 1) : unread = servers[asking[r].server].lines
  BY <1>1, Working
<1>3. RequestFails(r, unread) /\ Len(unread) <= Len(servers[asking[r].server].lines)
  BY <1>1, <1>2, Working
<1>. QED  BY <1>1, <1>3, RequestFailsStep

LEMMA ReadLineStep == ASSUME McpInv, NEW r \in Asking, ReadLine(r) PROVE McpInv'
<1>1. PICK s \in Servers : s = asking[r].server
  BY Working DEF ReadLine
<1>2. /\ McpTypeOK /\ asking[r] \in Request /\ asking[r].method \in {"initialize", "list", "call"}
      /\ servers[s] \in Server /\ servers[s].lines \in Seq(0..MaxIds + 1) /\ Len(servers[s].lines) \in Nat
      /\ Len(servers[s].lines) <= MaxLines + 1
      /\ servers[s].state # "dead" => Len(servers[s].lines) <= MaxLines
      /\ asking[r].phase = "wait" /\ servers[s].lines # <<>> /\ RequestOK(r)
      /\ MaxLines \in Nat /\ MaxIds \in Nat
  BY <1>1, Working, McpTypes DEF ReadLine
<1>3. PICK unread \in Seq(0..MaxIds + 1) : unread = Tail(servers[s].lines)
  BY <1>2, HeadTailProperties
<1>4. Len(unread) \in Nat /\ Len(unread) = Len(servers[s].lines) - 1
  BY <1>2, <1>3
<1>. DEFINE line == Head(servers[s].lines)
            read == [servers[s] EXCEPT !.lines = unread]
            free == [servers[s] EXCEPT !.lines = unread, !.lock = NoRequest]
<1>5. /\ read \in Server /\ read.state = servers[s].state /\ read.lines = unread
      /\ free \in Server /\ free.state = servers[s].state /\ free.lines = unread
  BY <1>2 DEF Server
<1>6. /\ Len(unread) <= MaxLines + 1
      /\ servers[s].state # "dead" => Len(unread) <= MaxLines
  BY <1>2, <1>4
<1>7. ASSUME RequestFails(r, unread) PROVE McpInv'
  <2>1. Len(unread) <= Len(servers[asking[r].server].lines)
    BY <1>1, <1>2, <1>4
  <2>. QED  BY <1>2, <1>7, <2>1, RequestFailsStep
<1>8. CASE line = Ended
  BY <1>1, <1>3, <1>7, <1>8 DEF ReadLine
<1>9. CASE line # Ended /\ ~IsAnswer(asking[r].id, line)
  <2>1. ServerBecomes(s, read) /\ UNCHANGED <<config, running, listed, starter, asking>>
    BY <1>1, <1>3, <1>9 DEF ReadLine
  <2>2. servers' = [servers EXCEPT ![s] = read]
    BY <2>1 DEF ServerBecomes
  <2>3. asking' = [asking EXCEPT ![r] = asking[r]]
    BY <1>2, <2>1 DEF McpTypeOK
  <2>. HIDE DEF read
  <2>. QED  BY <1>1, <1>2, <1>5, <1>6, <2>1, <2>2, <2>3, StepWithProcess DEF RequestOK
<1>10. CASE line # Ended /\ IsAnswer(asking[r].id, line)
  <2>. DEFINE answered == [asking[r] EXCEPT !.answer = line, !.expired = FALSE]
  <2>1. line = asking[r].id /\ line \in 0..MaxIds
    BY <1>2, <1>10 DEF IsAnswer, Request
  <2>2. \/ RequestFails(r, unread)
        \/ /\ ServerBecomes(s, free) /\ asking[r].method = "initialize"
           /\ Becoming(r, [answered EXCEPT !.phase = "send", !.method = "list"])
           /\ UNCHANGED <<config, running, listed, starter>>
        \/ /\ ServerBecomes(s, free) /\ asking[r].method = "list" /\ Started(r)
           /\ Becoming(r, [answered EXCEPT !.phase = "found", !.method = "none", !.argv = 0])
        \/ /\ ServerBecomes(s, free) /\ asking[r].method = "call"
           /\ Becoming(r, [RequestOver(r) EXCEPT !.answer = line])
           /\ UNCHANGED <<config, running, listed, starter>>
    BY <1>1, <1>3, <1>10 DEF ReadLine
  <2>. HIDE DEF line
  <2>3. /\ answered \in Request /\ answered.answer = line /\ answered.id = line /\ answered.server = s
        /\ answered.method = asking[r].method
    BY <1>1, <1>2, <2>1 DEF Request
  <2>. HIDE DEF answered, free
  <2>4. ASSUME asking[r].method = "initialize", ServerBecomes(s, free),
               Becoming(r, [answered EXCEPT !.phase = "send", !.method = "list"]),
               UNCHANGED <<config, running, listed, starter>>
        PROVE  McpInv'
    <3>. DEFINE q == [answered EXCEPT !.phase = "send", !.method = "list"]
    <3>1. /\ q \in Request /\ q.phase = "send" /\ q.method = "list" /\ q.server = s /\ q.id = line
          /\ q.answer = line
      BY <2>3 DEF Request
    <3>2. servers' = [servers EXCEPT ![s] = free] /\ asking' = [asking EXCEPT ![r] = q]
      BY <2>4 DEF ServerBecomes, Becoming
    <3>. HIDE DEF q
    <3>3. q.method \in Starting /\ asking[r].method \in Starting /\ q.answer \in {0, q.id}
      BY <2>4, <3>1 DEF Starting
    <3>. QED  BY <1>1, <1>2, <1>5, <1>6, <2>4, <3>1, <3>2, <3>3, StepWithProcess
  <2>5. ASSUME asking[r].method = "list", ServerBecomes(s, free), Started(r),
               Becoming(r, [answered EXCEPT !.phase = "found", !.method = "none", !.argv = 0])
        PROVE  McpInv'
    <3>. DEFINE q == [answered EXCEPT !.phase = "found", !.method = "none", !.argv = 0]
    <3>1. /\ q \in Request /\ q.phase = "found" /\ q.method = "none" /\ q.server = s /\ q.id = line
          /\ q.answer = line
      <4>1. 0 \in 0..MaxConfigs
        BY <1>2, McpTypes
      <4>. QED  BY <2>3, <4>1 DEF Request
    <3>2. /\ servers' = [servers EXCEPT ![s] = free] /\ asking' = [asking EXCEPT ![r] = q]
          /\ running' = s /\ listed' = TRUE /\ starter' = NoRequest /\ config' = config
      BY <1>1, <2>5 DEF ServerBecomes, Becoming, Started
    <3>. HIDE DEF q
    <3>3. starter = r /\ r # NoRequest
      BY <1>2, <2>5, McpTypes DEF RequestOK, Starting
    <3>4. asking' \in [Asking -> Request] /\ asking'[r] = q /\ \A o \in Asking \ {r} : asking'[o] = asking[o]
      BY <1>2, <3>1, <3>2 DEF McpTypeOK
    <3>5. RequestOK(r)'
      BY <3>1, <3>2, <3>3, <3>4 DEF RequestOK, Starting
    <3>6. \A o \in Asking : RequestOK(o)'
      BY <3>2, <3>3, <3>4, <3>5, RequestStep
    <3>7. /\ servers' \in [Servers -> Server]
          /\ \A o \in Servers : /\ Len(servers'[o].lines) <= MaxLines + 1
                                /\ servers'[o].state # "dead" => Len(servers'[o].lines) <= MaxLines
                                /\ servers'[o].state = "alive" => servers[o].state = "alive"
      BY <1>5, <1>6, <3>2, ProcessStep
    <3>8. \A o \in Servers : servers[o].state = "alive" => o = s
      BY <1>1, <3>3 DEF McpInv, NoServerIsForgotten, Servers
    <3>9. McpTypeOK'
      <4>1. s \in 0..MaxServers
        BY DEF Servers
      <4>. QED  BY <1>2, <3>2, <3>4, <3>7, <4>1 DEF McpTypeOK
    <3>. QED  BY <3>2, <3>6, <3>7, <3>8, <3>9 DEF McpInv, NoServerIsForgotten
  <2>6. ASSUME asking[r].method = "call", ServerBecomes(s, free),
               Becoming(r, [RequestOver(r) EXCEPT !.answer = line]),
               UNCHANGED <<config, running, listed, starter>>
        PROVE  McpInv'
    <3>1. PICK over \in Request : over = RequestOver(r)
      BY <1>2, RequestOverTypes
    <3>2. over.phase = "idle" /\ over.method = "none" /\ over.server = 0 /\ over.id = line
      BY <1>2, <2>1, <3>1, RequestOverTypes
    <3>. DEFINE q == [over EXCEPT !.answer = line]
    <3>3. /\ q \in Request /\ q.phase = "idle" /\ q.method = "none" /\ q.server = 0 /\ q.id = line /\ q.answer = line
      BY <2>1, <3>2 DEF Request
    <3>4. servers' = [servers EXCEPT ![s] = free] /\ asking' = [asking EXCEPT ![r] = q]
      BY <2>6, <3>1 DEF ServerBecomes, Becoming
    <3>. HIDE DEF q
    <3>5. q.method \notin Starting /\ asking[r].method \notin Starting /\ q.answer \in {0, q.id}
      BY <2>6, <3>3 DEF Starting
    <3>. QED  BY <1>1, <1>2, <1>5, <1>6, <2>6, <3>3, <3>4, <3>5, StepWithProcess
  <2>. QED  BY <1>7, <2>2, <2>4, <2>5, <2>6
<1>. QED  BY <1>8, <1>9, <1>10

LEMMA McpStep == ASSUME McpInv, [McpNext]_mcpvars PROVE McpInv'
<1>1. ASSUME NEW r \in Asking,
             \/ Begin(r) \/ Reuse(r) \/ Restart(r) \/ StartAllowed(r) \/ StartRefused(r)
             \/ LookUp(r) \/ CallAnswered(r) \/ StopsWaiting(r) \/ ThreadStep(r) \/ DeadlinePasses(r)
      PROVE  McpInv'
  <2>1. CASE Begin(r)
    BY <2>1, BeginStep
  <2>2. CASE Reuse(r)
    BY <2>2, ReuseStep
  <2>3. CASE Restart(r)
    BY <2>3, RestartStep
  <2>4. CASE StartAllowed(r)
    BY <2>4, StartAllowedStep
  <2>5. CASE StartRefused(r)
    BY <2>5, StartRefusedStep
  <2>6. CASE LookUp(r)
    BY <2>6, LookUpStep
  <2>7. CASE CallAnswered(r)
    BY <2>7, CallAnsweredStep
  <2>8. CASE StopsWaiting(r)
    BY <2>8, StopsWaitingStep
  <2>9. CASE ThreadStep(r)
    BY <2>9, SendMessageStep, ReadLineStep, StopsWaitingStep DEF ThreadStep, TimesOut
  <2>10. CASE DeadlinePasses(r)
    BY <2>10, DeadlineStep
  <2>. QED  BY <1>1, <2>1, <2>2, <2>3, <2>4, <2>5, <2>6, <2>7, <2>8, <2>9, <2>10
<1>2. CASE UNCHANGED mcpvars
  BY <1>2 DEF mcpvars, McpInv, McpTypeOK, RequestOK, NoServerIsForgotten
<1>. QED  BY <1>1, <1>2, ServerWritesStep, ServerExitsStep, OwnerEditsStep DEF McpNext

LEMMA McpShows == McpInv => ServersAreAccountedFor
BY DEF McpInv, RequestOK, AnswersAreTheirOwn, ServersAreAccountedFor

-----------------------------------------------------------------------------
\* The ids of speech functions (FunctionIds)

\* What a call that reads the list knows: its lookup is the last one and recent enough that
\* nobody has begun another, and what it has read is no older than what was found so far.
ListingOK(c) ==
  /\ Listing(c) => /\ lookedAt = caller[c].since
                   /\ caller[c].since <= monotonic /\ monotonic < caller[c].since + LookupEvery
  /\ Calling(c, "listed") => foundId <= caller[c].fresh /\ caller[c].fresh <= current

IdsInv ==
  /\ FunctionIdsTypeOK
  /\ foundId <= current
  /\ \A c \in Callers : ListingOK(c)
  /\ \A c, d \in Callers : Listing(c) /\ Listing(d) => c = d

LEMMA IdsStart == FunctionIdsInit => IdsInv
<1>. SUFFICES ASSUME FunctionIdsInit PROVE IdsInv
  OBVIOUS
<1>1. Pinned \in Functions /\ 0 \in 0..MaxSeconds /\ NotLooked \in 0..NotLooked /\ Pinned <= Pinned
  BY FunctionIdsAssumption DEF Pinned, Functions, NotLooked
<1>2. NotCalling \in Caller
  BY <1>1 DEF NotCalling, Caller, CallSteps
<1>3. FunctionIdsTypeOK
  BY <1>1, <1>2 DEF FunctionIdsInit, FunctionIdsTypeOK
<1>4. \A c \in Callers : caller[c].step = "idle"
  BY DEF FunctionIdsInit, NotCalling
<1>. QED  BY <1>1, <1>3, <1>4 DEF FunctionIdsInit, IdsInv, ListingOK, Listing, Calling

LEMMA IdTypes ==
  ASSUME IdsInv
  PROVE  /\ current \in Nat /\ foundId \in Nat /\ monotonic \in Nat /\ LookupEvery \in Nat /\ LookupEvery > 0
         /\ MaxSeconds \in Nat /\ NotLooked = MaxSeconds + 1 /\ MaxFunctions \in Nat /\ Pinned \in Functions
         /\ lookedAt \in Nat /\ monotonic <= MaxSeconds /\ foundId \in Functions /\ current \in Functions
         /\ \A c \in Callers : caller[c] \in Caller /\ caller[c].since \in Nat /\ caller[c].fresh \in Nat
BY FunctionIdsAssumption DEF IdsInv, FunctionIdsTypeOK, Functions, NotLooked, Pinned, Caller

\* A call's step changes what was found only to what it has listed, and the time of the last
\* lookup only back to none.
Found(c) ==
  /\ UNCHANGED <<current, monotonic>>
  /\ foundId' = foundId \/ (caller[c].step = "listed" /\ foundId' = caller[c].fresh)
  /\ lookedAt' = lookedAt \/ (Listing(c) /\ lookedAt' = NotLooked)

\* A call that ends, is told to give up or begins anew, and does not read the list then.
LEMMA CallMoves ==
  ASSUME IdsInv, NEW c \in Callers,
         caller' \in [Callers -> Caller], \A d \in Callers \ {c} : caller'[d] = caller[d],
         caller'[c].step # "listing", caller'[c].step # "listed",
         Found(c)
  PROVE  IdsInv'
<1>1. caller \in [Callers -> Caller]
  BY DEF IdsInv, FunctionIdsTypeOK
<1>2. ~Listing(c)' /\ ~Calling(c, "listed")'
  BY DEF Listing, Calling
<1>3. \A d \in Callers \ {c} : Listing(d)' = Listing(d) /\ Calling(d, "listed")' = Calling(d, "listed")
  BY <1>1 DEF Listing, Calling
<1>4. foundId' \in Functions /\ foundId' <= current' /\ lookedAt' \in 0..NotLooked
  <2>1. NotLooked \in 0..NotLooked /\ NotLooked \in Nat
    BY IdTypes
  <2>2. foundId' \in Functions
    BY DEF Found, IdsInv, FunctionIdsTypeOK, Caller
  <2>3. foundId' <= current'
    BY DEF Found, IdsInv, ListingOK, Calling
  <2>. QED  BY <2>1, <2>2, <2>3 DEF Found, IdsInv, FunctionIdsTypeOK
<1>5. ASSUME NEW d \in Callers PROVE ListingOK(d)'
  <2>1. CASE d = c
    BY <1>2, <2>1 DEF ListingOK
  <2>2. CASE d # c /\ ~Listing(d)
    BY <1>3, <2>2 DEF Found, ListingOK, Listing, Calling
  <2>3. CASE d # c /\ Listing(d)
    <3>1. ~Listing(c) /\ ~Calling(c, "listed")
      BY <2>3 DEF IdsInv, Listing, Calling
    <3>2. foundId' = foundId /\ lookedAt' = lookedAt /\ caller'[d] = caller[d]
      BY <2>3, <3>1 DEF Found, Calling
    <3>. QED  BY <1>3, <2>3, <3>2 DEF Found, IdsInv, ListingOK
  <2>. QED  BY <2>1, <2>2, <2>3
<1>6. \A d, e \in Callers : Listing(d)' /\ Listing(e)' => d = e
  BY <1>2, <1>3 DEF IdsInv
<1>7. FunctionIdsTypeOK'
  BY <1>1, <1>4 DEF Found, IdsInv, FunctionIdsTypeOK
<1>. QED  BY <1>4, <1>5, <1>6, <1>7 DEF IdsInv

LEMMA NotCallingIsACall == ASSUME IdsInv PROVE NotCalling \in Caller /\ NotCalling.step = "idle"
<1>1. 0 \in 0..MaxSeconds
  BY IdTypes
<1>. QED  BY <1>1, IdTypes DEF NotCalling, Caller, CallSteps

LEMMA RepublishStep == ASSUME IdsInv, Republish PROVE IdsInv'
<1>1. /\ current < MaxFunctions /\ current' = current + 1 /\ UNCHANGED <<monotonic, foundId, lookedAt, caller>>
      /\ current \in Functions /\ MaxFunctions \in Nat
  BY IdTypes DEF Republish
<1>2. current' \in Functions
  BY <1>1 DEF Functions
<1>3. FunctionIdsTypeOK'
  BY <1>1, <1>2 DEF IdsInv, FunctionIdsTypeOK
<1>4. foundId' <= current'
  BY <1>1, IdTypes DEF IdsInv
<1>5. ASSUME NEW c \in Callers PROVE ListingOK(c)'
  BY <1>1, IdTypes DEF IdsInv, ListingOK, Listing, Calling
<1>. QED  BY <1>1, <1>3, <1>4, <1>5 DEF IdsInv, Listing

LEMMA SecondsPassStep == ASSUME IdsInv, SecondsPass PROVE IdsInv'
<1>1. /\ monotonic < MaxSeconds /\ monotonic' = monotonic + 1 /\ UNCHANGED <<current, foundId, lookedAt, caller>>
      /\ \A c \in Callers : Listing(c) => monotonic + 1 < caller[c].since + LookupEvery
  BY DEF SecondsPass
<1>2. monotonic' \in 0..MaxSeconds
  BY <1>1, IdTypes
<1>3. FunctionIdsTypeOK'
  BY <1>1, <1>2 DEF IdsInv, FunctionIdsTypeOK
<1>5. ASSUME NEW c \in Callers PROVE ListingOK(c)'
  BY <1>1, IdTypes DEF IdsInv, ListingOK, Listing, Calling
<1>. QED  BY <1>1, <1>3, <1>5 DEF IdsInv, Listing

LEMMA LookupStep == ASSUME IdsInv, NEW c \in Callers, Lookup(c) PROVE IdsInv'
<1>1. caller[c] \in Caller /\ caller[c].step = "gone" /\ UNCHANGED <<current, monotonic, foundId>>
  BY IdTypes DEF Lookup, Calling
<1>2. CASE GivesUp(c) /\ UNCHANGED lookedAt
  <2>. DEFINE call == [caller[c] EXCEPT !.step = "lost"]
  <2>1. call \in Caller /\ call.step = "lost"
    BY <1>1 DEF Caller, CallSteps
  <2>2. caller' = [caller EXCEPT ![c] = call]
    BY <1>2 DEF GivesUp, Becomes
  <2>. HIDE DEF call
  <2>3. caller' \in [Callers -> Caller] /\ caller'[c].step = "lost" /\ \A d \in Callers \ {c} : caller'[d] = caller[d]
    BY <2>1, <2>2 DEF IdsInv, FunctionIdsTypeOK
  <2>4. Found(c)
    BY <1>1, <1>2 DEF Found
  <2>. QED  BY <2>3, <2>4, CallMoves
<1>3. CASE ~LookedLately /\ lookedAt' = monotonic
           /\ Becomes(c, [caller[c] EXCEPT !.step = "listing", !.since = monotonic])
  <2>1. ASSUME NEW d \in Callers PROVE ~Listing(d)
    <3>1. SUFFICES ASSUME Listing(d) PROVE FALSE
      OBVIOUS
    <3>2. /\ lookedAt = caller[d].since /\ caller[d].since <= monotonic
          /\ monotonic < caller[d].since + LookupEvery
      BY <3>1 DEF IdsInv, ListingOK
    <3>. QED  BY <1>3, <3>2, IdTypes DEF LookedLately
  <2>. DEFINE call == [caller[c] EXCEPT !.step = "listing", !.since = monotonic]
  <2>2. monotonic \in 0..MaxSeconds /\ monotonic \in 0..NotLooked
    BY IdTypes
  <2>3. call \in Caller /\ call.step = "listing" /\ call.since = monotonic
    BY <1>1, <2>2 DEF Caller, CallSteps
  <2>4. caller' = [caller EXCEPT ![c] = call]
    BY <1>3 DEF Becomes
  <2>. HIDE DEF call
  <2>5. /\ caller \in [Callers -> Caller] /\ caller' \in [Callers -> Caller] /\ caller'[c] = call
        /\ \A d \in Callers \ {c} : caller'[d] = caller[d]
    BY <2>3, <2>4 DEF IdsInv, FunctionIdsTypeOK
  <2>6. \A d \in Callers \ {c} : ~Listing(d)' /\ ~Calling(d, "listed")'
    BY <2>1, <2>5 DEF Listing, Calling
  <2>7. FunctionIdsTypeOK'
    BY <1>1, <1>3, <2>2, <2>5 DEF IdsInv, FunctionIdsTypeOK
  <2>8. ListingOK(c)'
    BY <1>1, <1>3, <2>3, <2>5, IdTypes DEF ListingOK, Calling
  <2>9. \A d \in Callers : ListingOK(d)'
    BY <2>6, <2>8 DEF ListingOK
  <2>. QED  BY <1>1, <2>6, <2>7, <2>9 DEF IdsInv
<1>. QED  BY <1>2, <1>3 DEF Lookup

LEMMA ListedStep == ASSUME IdsInv, NEW c \in Callers, Listed(c) PROVE IdsInv'
<1>1. /\ caller[c] \in Caller /\ caller[c].step = "listing" /\ UNCHANGED <<current, monotonic, foundId, lookedAt>>
      /\ current \in Functions
  BY IdTypes DEF Listed, Calling
<1>2. CASE GivesUp(c)
  <2>. DEFINE call == [caller[c] EXCEPT !.step = "lost"]
  <2>1. call \in Caller /\ call.step = "lost"
    BY <1>1 DEF Caller, CallSteps
  <2>2. caller' = [caller EXCEPT ![c] = call]
    BY <1>2 DEF GivesUp, Becomes
  <2>. HIDE DEF call
  <2>3. caller' \in [Callers -> Caller] /\ caller'[c].step = "lost" /\ \A d \in Callers \ {c} : caller'[d] = caller[d]
    BY <2>1, <2>2 DEF IdsInv, FunctionIdsTypeOK
  <2>4. Found(c)
    BY <1>1 DEF Found
  <2>. QED  BY <2>3, <2>4, CallMoves
<1>3. CASE Becomes(c, [caller[c] EXCEPT !.step = "listed", !.fresh = current])
  <2>. DEFINE call == [caller[c] EXCEPT !.step = "listed", !.fresh = current]
  <2>1. call \in Caller /\ call.step = "listed" /\ call.fresh = current /\ call.since = caller[c].since
    BY <1>1 DEF Caller, CallSteps
  <2>2. caller' = [caller EXCEPT ![c] = call]
    BY <1>3 DEF Becomes
  <2>. HIDE DEF call
  <2>3. /\ caller \in [Callers -> Caller] /\ caller' \in [Callers -> Caller] /\ caller'[c] = call
        /\ \A d \in Callers \ {c} : caller'[d] = caller[d]
    BY <2>1, <2>2 DEF IdsInv, FunctionIdsTypeOK
  <2>4. Listing(c)
    BY <1>1 DEF Listing
  <2>5. \A d \in Callers \ {c} : ~Listing(d)
    BY <2>4 DEF IdsInv
  <2>6. \A d \in Callers \ {c} : ~Listing(d)' /\ ~Calling(d, "listed")'
    BY <2>3, <2>5 DEF Listing, Calling
  <2>7. FunctionIdsTypeOK'
    BY <1>1, <2>3 DEF IdsInv, FunctionIdsTypeOK
  <2>8. ListingOK(c)'
    <3>1. lookedAt = caller[c].since /\ caller[c].since <= monotonic /\ monotonic < caller[c].since + LookupEvery
          /\ foundId <= current /\ current <= current
      BY <2>4, IdTypes DEF IdsInv, ListingOK
    <3>. QED  BY <1>1, <2>1, <2>3, <3>1 DEF ListingOK
  <2>9. \A d \in Callers : ListingOK(d)'
    BY <2>6, <2>8 DEF ListingOK
  <2>. QED  BY <1>1, <2>6, <2>7, <2>9 DEF IdsInv
<1>. QED  BY <1>2, <1>3 DEF Listed

LEMMA AdoptStep == ASSUME IdsInv, NEW c \in Callers, Adopt(c) PROVE IdsInv'
<1>. DEFINE call == [caller[c] EXCEPT !.step = "attempting", !.used = caller[c].fresh]
<1>1. /\ caller[c] \in Caller /\ caller[c].step = "listed" /\ UNCHANGED <<current, monotonic, lookedAt>>
      /\ foundId' = caller[c].fresh /\ caller' = [caller EXCEPT ![c] = call]
  BY IdTypes DEF Adopt, Becomes, Calling
<1>2. call \in Caller /\ call.step = "attempting"
  BY <1>1 DEF Caller, CallSteps
<1>. HIDE DEF call
<1>3. caller' \in [Callers -> Caller] /\ caller'[c].step = "attempting" /\ \A d \in Callers \ {c} : caller'[d] = caller[d]
  BY <1>1, <1>2 DEF IdsInv, FunctionIdsTypeOK
<1>4. Found(c)
  BY <1>1 DEF Found
<1>. QED  BY <1>3, <1>4, CallMoves

\* The steps of a call that touch neither the list nor what was found.
LEMMA OtherStep ==
  ASSUME IdsInv, NEW c \in Callers,
         BeginCall(c) \/ AttemptEnds(c) \/ ToldGone(c) \/ LookupFails(c) \/ LookupTooLate(c) \/ LookupStopped(c)
  PROVE  IdsInv'
<1>. DEFINE anew == [NotCalling EXCEPT !.step = "attempting", !.used = foundId]
            gone == [caller[c] EXCEPT !.step = "gone"]
            lost == [caller[c] EXCEPT !.step = "lost"]
<1>1. caller[c] \in Caller /\ foundId \in Functions /\ NotCalling \in Caller /\ NotCalling.step = "idle"
  BY IdTypes, NotCallingIsACall
<1>2. anew \in Caller /\ anew.step = "attempting"
  <2>. HIDE DEF NotCalling
  <2>. QED  BY <1>1 DEF Caller, CallSteps
<1>3. gone \in Caller /\ gone.step = "gone" /\ lost \in Caller /\ lost.step = "lost"
  BY <1>1 DEF Caller, CallSteps
<1>4. ASSUME NEW X \in {anew, gone, lost, NotCalling}, Becomes(c, X), Found(c)
      PROVE  IdsInv'
  <2>1. X \in Caller /\ X.step \notin {"listing", "listed"} /\ caller' = [caller EXCEPT ![c] = X]
    BY <1>1, <1>2, <1>3, <1>4 DEF Becomes
  <2>2. /\ caller' \in [Callers -> Caller] /\ caller'[c].step \notin {"listing", "listed"}
        /\ \A d \in Callers \ {c} : caller'[d] = caller[d]
    BY <2>1 DEF IdsInv, FunctionIdsTypeOK
  <2>. QED  BY <1>4, <2>2, CallMoves
<1>5. CASE BeginCall(c)
  BY <1>4, <1>5 DEF Found, BeginCall
<1>6. CASE AttemptEnds(c)
  BY <1>4, <1>6 DEF Found, AttemptEnds, CallEnds
<1>7. CASE ToldGone(c)
  BY <1>4, <1>7 DEF Found, ToldGone, CallEnds
<1>8. CASE LookupFails(c)
  BY <1>4, <1>8 DEF Found, LookupFails, GivesUp
<1>9. CASE LookupTooLate(c)
  BY <1>4, <1>9 DEF Found, LookupTooLate, CallEnds
<1>10. CASE LookupStopped(c)
  BY <1>4, <1>10 DEF Found, LookupStopped, CallEnds, Listing, Calling
<1>. QED  BY <1>5, <1>6, <1>7, <1>8, <1>9, <1>10

LEMMA IdsStep == IdsInv /\ [FunctionIdsNext]_idvars => IdsInv'
<1>. SUFFICES ASSUME IdsInv, [FunctionIdsNext]_idvars PROVE IdsInv'
  OBVIOUS
<1>1. CASE Republish \/ SecondsPass
  BY <1>1, RepublishStep, SecondsPassStep
<1>2. ASSUME NEW c \in Callers,
             BeginCall(c) \/ AttemptEnds(c) \/ ToldGone(c) \/ LookupFails(c) \/ LookupTooLate(c) \/ LookupStopped(c)
      PROVE  IdsInv'
  BY <1>2, OtherStep
<1>3. ASSUME NEW c \in Callers, Lookup(c) \/ Listed(c) \/ Adopt(c) PROVE IdsInv'
  BY <1>3, LookupStep, ListedStep, AdoptStep
<1>4. CASE UNCHANGED idvars
  <2>1. UNCHANGED <<current, monotonic, foundId, lookedAt, caller>>
    BY <1>4 DEF idvars
  <2>2. \A c \in Callers : ListingOK(c)' = ListingOK(c) /\ Listing(c)' = Listing(c)
    BY <2>1 DEF ListingOK, Listing, Calling
  <2>3. FunctionIdsTypeOK'
    BY <2>1 DEF IdsInv, FunctionIdsTypeOK
  <2>. QED  BY <2>1, <2>2, <2>3 DEF IdsInv
<1>. QED  BY <1>1, <1>2, <1>3, <1>4 DEF FunctionIdsNext

\* No step puts an older id in the place of a newer one.
LEMMA NoOlderId ==
  ASSUME IdsInv, [FunctionIdsNext]_idvars PROVE foundId' >= foundId
<1>1. ASSUME NEW c \in Callers, Adopt(c) PROVE foundId' >= foundId
  BY <1>1, IdTypes DEF Adopt, IdsInv, ListingOK
<1>2. ASSUME foundId' = foundId PROVE foundId' >= foundId
  BY <1>2, IdTypes
<1>. QED
  BY <1>1, <1>2 DEF FunctionIdsNext, idvars, Republish, SecondsPass, BeginCall, AttemptEnds, ToldGone, Lookup, Listed,
     LookupFails, LookupTooLate, LookupStopped

-----------------------------------------------------------------------------
\* The parts one by one

LEMMA CompletionsShow == CompletionsInv => CompletionsAreHonest
BY DEF CompletionsInv

\* A call to a model is asked again only where that helps; a whole reply is given without the
\* model's thoughts; a reply that was cut off says so, whole or streamed, and the thoughts
\* that a stream brings as tokens are part of what it gives; the ladder is told why nothing
\* came (openai_compatible.py's chat loop and stream reader).
THEOREM ModelsAreQuotedHonestly == CompletionsSpec => []CompletionsAreHonest
BY CompletionsStart, CompletionsStep, CompletionsShow, PTL DEF CompletionsSpec

\* A page is shown the tokens of the tier that answered and of no other, whichever tiers
\* broke off, said nothing or cooled down before it, and none when none answered
\* (orchestrator.py's _tier_reply, model_status.py).
THEOREM PagesShowOneTier == ModelTiersSpec => []ShownIsTheAnswer
BY TiersStart, TiersStep, TiersShow, PTL DEF ModelTiersSpec

\* An autonomous run acts on no reply that was cut short and takes no step after Stop was
\* seen or its steps were used up (tasks.py).
THEOREM RunsActOnWholeReplies == AgentSpec => []RunsGoByWholeReplies
BY AgentStart, AgentStep, AgentShows, PTL DEF AgentSpec

LEMMA BatchesShow == BatchesInv => BatchesAreAccountedFor
BY DEF BatchesInv, BatchesAreAccountedFor

\* A specialist's desk is idle when nothing runs at it, and the latest runs stay on record,
\* whichever threads and processes end in which order (control_room.py).
THEOREM BatchesAreKeptInView == BatchesSpec => []BatchesAreAccountedFor
BY BatchesStart, BatchesStep, BatchesShow, PTL DEF BatchesSpec

\* Requests get the answers to their own messages, and a process that lives is the one in
\* use or in its starter's hands, whatever fails, expires or exits (tools/mcp.py).
THEOREM ToolServersAreHeld == McpSpec => []ServersAreAccountedFor
BY McpStart, McpStep, McpShows, PTL DEF McpSpec

LEMMA IdsInvariant == FunctionIdsSpec => []IdsInv
BY IdsStart, IdsStep, PTL DEF FunctionIdsSpec

\* No call puts the id of an older publication in the place of a newer one, although every
\* call may look the list up (nvcf.py's _current_id).
THEOREM NewestIdStays == FunctionIdsSpec => FoundIdsAreTheNewest
<1>1. IdsInv /\ [FunctionIdsNext]_idvars => [foundId' >= foundId]_idvars
  BY NoOlderId
<1>. QED  BY <1>1, IdsInvariant, PTL DEF FunctionIdsSpec, FoundIdsAreTheNewest
-----------------------------------------------------------------------------
\* All of them in one behaviour

\* Every part's invariant holds, whichever part the behaviour is of.
ServiceInv ==
  /\ ThrottleInv /\ GoogleInv /\ CompletionsInv /\ TiersInv
  /\ AgentInv /\ BatchesInv /\ McpInv /\ IdsInv

LEMMA ServiceStart == ServiceInit => ServiceInv
BY ThrottleStarts, GoogleStarts, CompletionsStart, TiersStart, AgentStart, BatchesStart, McpStart, IdsStart
   DEF ServiceInit, ServiceInv

\* A step of the run is one of every part, that of all but one of them a stutter.
LEMMA PartsStep ==
  ASSUME [ServiceNext]_servicevars
  PROVE  /\ [ThrottleNext]_throttlevars /\ [GoogleNext]_googlevars /\ [CompletionsNext]_completionvars
         /\ [ModelTiersNext]_tiervars /\ [AgentNext]_agentvars /\ [BatchesNext]_batchvars
         /\ [McpNext]_mcpvars /\ [FunctionIdsNext]_idvars
BY DEF ServiceNext, InPart, servicevars

LEMMA ServiceStep ==
  ASSUME ServiceInv, [ServiceNext]_servicevars PROVE ServiceInv'
BY PartsStep, ThrottleStep, GoogleStep, CompletionsStep, TiersStep, AgentStep, BatchesStep, McpStep, IdsStep
   DEF ServiceInv

LEMMA ServiceInvariant == ServiceSpec => []ServiceInv
BY ServiceStart, ServiceStep, PTL DEF ServiceSpec

\* Every part's state keeps its type.
THEOREM ServiceWellTyped == ServiceSpec => []ServiceTypeOK
<1>1. ServiceInv => ServiceTypeOK
  BY DEF ServiceInv, ServiceTypeOK, ThrottleInv, GoogleInv, CompletionsInv, TiersInv, AgentInv, BatchesInv, McpInv,
     IdsInv
<1>. QED  BY <1>1, ServiceInvariant, PTL

\* What a call gives of a whole reply has no thoughts in it, and of any reply says when it
\* was cut off; a page shows one tier's tokens, unless an exception ended its turn; an
\* autonomous run goes by no reply that was cut short (openai_compatible.py,
\* orchestrator.py, tasks.py).
THEOREM WholeReplies == ServiceSpec => []RepliesAreWhole
<1>1. ServiceInv => RepliesAreWhole
  BY CompletionsShow, TiersShow, AgentShows DEF ServiceInv, RepliesAreWhole
<1>. QED  BY <1>1, ServiceInvariant, PTL

\* What was started is accounted for: desks, runs and tool servers (control_room.py,
\* tools/mcp.py).
THEOREM AccountedWork == ServiceSpec => []WorkIsAccountedFor
<1>1. ServiceInv => WorkIsAccountedFor
  BY BatchesShow, McpShows DEF ServiceInv, WorkIsAccountedFor
<1>. QED  BY <1>1, ServiceInvariant, PTL
=============================================================================
