----------------------------- MODULE LiveProofs -----------------------------
(***************************************************************************)
(* What TLAPS proves of the parts of MCLive, for any number of threads,    *)
(* processes, updates, reminders, pages and requests: that a store on disk *)
(* implements its register, that what was settled stays so, that a stop    *)
(* that comes early is kept, and the types.  The tool server's and the     *)
(* gate's are proved in ServiceProofs and TurnsProofs.                     *)
(***************************************************************************)
EXTENDS MCLive, SequenceTheorems, FiniteSetTheorems, TLAPS

-----------------------------------------------------------------------------
\* A store on disk (Storage)

\* What a caller reads, and what the register holds.
Value == IF strict THEN file.updates ELSE Readable

Holds(s, u) == \E i \in DOMAIN s : s[i] = u

\* An update that a thread has taken on and not yet put into the file.
Pending(t) == worker[t].step \in {"queued", "thread", "locked", "read", "backed"} /\ worker[t].update # NoUpdate

\* What the step of a thread's operation implies: between its read and its replace it has what the
\* store holds, and so, before the replace, has the backup of a store that keeps one.
WorkerOK(t) ==
  LET w == worker[t] IN
  /\ w.step = "idle" => w = NoCall
  /\ w.step # "idle" /\ w.update # NoUpdate => w.update \in asked
  /\ w.step \in {"read", "backed"} => w.seen = Value /\ ~(strict /\ file.state = "damaged")
  /\ w.step \in {"backed", "written"} => w.update # NoUpdate
  /\ w.step = "backed" /\ ~strict => backup.updates = w.seen
  /\ w.step = "written" => file.state = "intact" /\ Holds(file.updates, w.update)

\* One thread is inside the file's lock; an update is taken on by one thread, and is in no
\* version until that thread has replaced the file.
ThreadsApart ==
  \A t, u \in Threads :
    /\ InFileLock(t) /\ InFileLock(u) => t = u
    /\ Pending(t) /\ worker[u].step # "idle" /\ worker[u].update = worker[t].update => t = u

VersionsOK ==
  /\ \A x \in Updates : Holds(file.updates, x) \/ Holds(backup.updates, x) => x \in asked
  /\ \A t \in Threads : Pending(t) => ~Holds(file.updates, worker[t].update) /\ ~Holds(backup.updates, worker[t].update)
  /\ file.state = "absent" => file.updates = <<>>
  /\ ~strict /\ file.state = "absent" => backup.updates = <<>>
  /\ ~strict /\ file.state = "intact" =>
       \/ file.updates = backup.updates
       \/ \E x \in Updates : file.updates = Append(backup.updates, x)

\* The inductive invariant: the backup is at most one update behind an intact file, so damage
\* costs at most the newest; a thread that is about to replace the file has what it holds.
StorageInv ==
  /\ StorageTypeOK
  /\ \A t \in Threads : WorkerOK(t)
  /\ ThreadsApart
  /\ VersionsOK

LEMMA HoldsOfAppend ==
  ASSUME NEW s \in Seq(Updates), NEW x \in Updates
  PROVE  /\ Append(s, x) \in Seq(Updates)
         /\ \A y : Holds(Append(s, x), y) <=> Holds(s, y) \/ y = x
<1>1. Append(s, x) \in Seq(Updates) /\ Len(Append(s, x)) = Len(s) + 1
  BY AppendProperties
<1>2. DOMAIN s = 1..Len(s) /\ DOMAIN Append(s, x) = 1..(Len(s) + 1) /\ Len(s) \in Nat
  BY <1>1
<1>3. \A i \in 1..Len(s) : Append(s, x)[i] = s[i]
  BY AppendProperties
<1>4. Append(s, x)[Len(s) + 1] = x
  BY AppendProperties
<1>. QED  BY <1>1, <1>2, <1>3, <1>4 DEF Holds

LEMMA NoCallOK == NoCall \in Worker
BY DEF NoCall, Worker, WorkerSteps

LEMMA StorageStarts == StorageInit => StorageInv
<1>. SUFFICES ASSUME StorageInit PROVE StorageInv
  OBVIOUS
<1>1. file = Absent /\ file.updates = <<>> /\ file.state = "absent"
  BY DEF StorageInit, Absent
<1>2. backup \in {Absent, Intact(<<>>)} /\ (~strict => backup = Absent)
  BY DEF StorageInit
<1>3. Absent \in Contents /\ Intact(<<>>) \in Contents
  BY DEF Absent, Intact, Contents
<1>4. backup.updates = <<>>
  BY <1>2 DEF Absent, Intact
<1>5. StorageTypeOK
  BY <1>1, <1>2, <1>3, NoCallOK, StorageAssumption DEF StorageInit, StorageTypeOK
<1>6. \A t \in Threads : worker[t] = NoCall
  BY DEF StorageInit
<1>7. \A t \in Threads : WorkerOK(t) /\ ~InFileLock(t) /\ ~Pending(t)
  <2>1. NoCall.step = "idle"
    BY DEF NoCall
  <2>. QED  BY <1>6, <2>1 DEF WorkerOK, InFileLock, Pending
<1>8. \A x : ~Holds(<<>>, x)
  BY DEF Holds
<1>. QED  BY <1>1, <1>4, <1>5, <1>7, <1>8 DEF StorageInv, ThreadsApart, VersionsOK

\* A step that moves one thread and leaves the file and its backup alone.
LEMMA OneWorkerMoves ==
  ASSUME StorageInv, NEW t \in Threads, NEW w \in Worker,
         worker' = [worker EXCEPT ![t] = w], UNCHANGED <<strict, file, backup, damage>>,
         asked \subseteq asked', asked' \subseteq Updates, reported' \subseteq Updates,
         WorkerOK(t)',
         InFileLock(t)' => InFileLock(t) \/ \A u \in Threads : ~InFileLock(u),
         w.step # "idle" /\ w.update # NoUpdate =>
           w.update \notin asked \/ (worker[t].step # "idle" /\ worker[t].update = w.update),
         Pending(t)' => w.update \notin asked \/ (Pending(t) /\ worker[t].update = w.update)
  PROVE  StorageInv'
<1>1. worker \in [Threads -> Worker] /\ asked \subseteq Updates
  BY DEF StorageInv, StorageTypeOK
<1>2. worker'[t] = w /\ \A u \in Threads : u # t => worker'[u] = worker[u]
  BY <1>1
<1>3. StorageTypeOK'
  BY <1>1 DEF StorageInv, StorageTypeOK
<1>4. ASSUME NEW u \in Threads, u # t PROVE WorkerOK(u)'
  BY <1>2, <1>4 DEF StorageInv, WorkerOK, Value, Readable
<1>5. ThreadsApart'
  <2>. SUFFICES ASSUME NEW v \in Threads, NEW u \in Threads
                PROVE  /\ InFileLock(v)' /\ InFileLock(u)' => v = u
                       /\ Pending(v)' /\ worker'[u].step # "idle" /\ worker'[u].update = worker'[v].update => v = u
    BY DEF ThreadsApart
  <2>1. \A x \in Threads : x # t => (InFileLock(x)' <=> InFileLock(x)) /\ (Pending(x)' <=> Pending(x))
    BY <1>2 DEF InFileLock, Pending
  <2>2. \A x \in Threads : worker[x].step # "idle" /\ worker[x].update # NoUpdate => worker[x].update \in asked
    BY DEF StorageInv, WorkerOK
  <2>3. \A x \in Threads : Pending(x) => worker[x].step # "idle" /\ worker[x].update # NoUpdate
    BY DEF Pending
  <2>4. Pending(t)' => w.step # "idle" /\ w.update # NoUpdate
    BY <1>2 DEF Pending
  <2>. QED  BY <1>2, <2>1, <2>2, <2>3, <2>4 DEF StorageInv, ThreadsApart
<1>6. VersionsOK'
  <2>1. \A x \in Updates : Holds(file.updates, x) \/ Holds(backup.updates, x) => x \in asked
    BY DEF StorageInv, VersionsOK
  <2>2. ASSUME NEW u \in Threads, Pending(u)'
        PROVE  ~Holds(file.updates, worker'[u].update) /\ ~Holds(backup.updates, worker'[u].update)
    <3>1. CASE u # t
      BY <1>2, <2>2, <3>1 DEF StorageInv, VersionsOK, Pending
    <3>2. CASE u = t
      <4>1. w.update \in Updates
        BY <1>2, <2>2, <3>2 DEF Pending, Worker
      <4>2. w.update \notin asked \/ (Pending(t) /\ worker[t].update = w.update)
        BY <2>2, <3>2
      <4>. QED  BY <1>2, <2>1, <3>2, <4>1, <4>2 DEF StorageInv, VersionsOK
    <3>. QED  BY <3>1, <3>2
  <2>. QED  BY <2>1, <2>2 DEF StorageInv, VersionsOK
<1>. QED  BY <1>2, <1>3, <1>4, <1>5, <1>6 DEF StorageInv

\* An operation that ends, one way or another, without its replace.
LEMMA CallEnds ==
  ASSUME StorageInv, NEW t \in Threads, worker' = [worker EXCEPT ![t] = NoCall],
         UNCHANGED <<strict, file, backup, asked, damage>>, reported' \subseteq Updates
  PROVE  StorageInv'
<1>1. worker'[t] = NoCall
  BY DEF StorageInv, StorageTypeOK
<1>2. WorkerOK(t)' /\ ~InFileLock(t)' /\ ~Pending(t)' /\ NoCall.step = "idle"
  BY <1>1 DEF WorkerOK, InFileLock, Pending, NoCall
<1>3. asked \subseteq Updates
  BY DEF StorageInv, StorageTypeOK
<1>. QED  BY <1>2, <1>3, NoCallOK, OneWorkerMoves

LEMMA StorageMoves ==
  ASSUME StorageInv, NEW t \in Threads,
         \/ ThreadLock(t) \/ FileLock(t) \/ LockGivesUp(t) \/ ReadStore(t) \/ ReadRaises(t)
         \/ CallReturns(t) \/ StoreFails(t) \/ \E u \in Updates \cup {NoUpdate} : CallStore(t, u)
  PROVE  StorageInv'
<1>1. /\ worker \in [Threads -> Worker] /\ worker[t] \in Worker
      /\ asked \subseteq Updates /\ reported \subseteq Updates /\ WorkerOK(t)
  BY DEF StorageInv, StorageTypeOK
<1>2. CASE ThreadLock(t)
  <2> DEFINE w == [worker[t] EXCEPT !.step = "thread"]
  <2>1. w \in Worker /\ worker'[t] = w /\ worker' = [worker EXCEPT ![t] = w]
    BY <1>1, <1>2 DEF ThreadLock, WorkerGoes, Worker, WorkerSteps
  <2>2. w.step = "thread" /\ w.update = worker[t].update /\ worker[t].step = "queued"
    BY <1>1, <1>2 DEF ThreadLock, WorkerAt, Worker
  <2> HIDE DEF w
  <2>3. WorkerOK(t)' /\ ~InFileLock(t)' /\ (Pending(t)' => Pending(t))
    BY <1>1, <1>2, <2>1, <2>2 DEF WorkerOK, InFileLock, Pending, ThreadLock
  <2>. QED  BY <1>1, <1>2, <2>1, <2>2, <2>3, OneWorkerMoves DEF ThreadLock
<1>3. CASE FileLock(t)
  <2> DEFINE w == [worker[t] EXCEPT !.step = "locked"]
  <2>1. w \in Worker /\ worker'[t] = w /\ worker' = [worker EXCEPT ![t] = w]
    BY <1>1, <1>3 DEF FileLock, WorkerGoes, Worker, WorkerSteps
  <2>2. w.step = "locked" /\ w.update = worker[t].update /\ worker[t].step = "thread"
    BY <1>1, <1>3 DEF FileLock, WorkerAt, Worker
  <2> HIDE DEF w
  <2>3. WorkerOK(t)' /\ (Pending(t)' => Pending(t))
    BY <1>1, <1>3, <2>1, <2>2 DEF WorkerOK, Pending, FileLock
  <2>. QED  BY <1>1, <1>3, <2>1, <2>2, <2>3, OneWorkerMoves DEF FileLock
<1>4. CASE ReadStore(t)
  <2> DEFINE w == [step |-> "read", update |-> worker[t].update, seen |-> Readable]
  <2>1. Readable \in Seq(Updates)
    BY DEF StorageInv, StorageTypeOK, Contents, Readable
  <2>2. w \in Worker /\ worker'[t] = w /\ worker' = [worker EXCEPT ![t] = w]
    BY <1>1, <1>4, <2>1 DEF ReadStore, Worker, WorkerSteps
  <2>3. w.step = "read" /\ w.update = worker[t].update /\ w.seen = Readable /\ worker[t].step = "locked"
    BY <1>4 DEF ReadStore, WorkerAt
  <2>4. Readable = Value /\ ~(strict /\ file.state = "damaged")
    BY <1>4 DEF ReadStore, Readable, Value
  <2> HIDE DEF w
  <2>5. WorkerOK(t)' /\ InFileLock(t) /\ (Pending(t)' => Pending(t))
    BY <1>1, <1>4, <2>2, <2>3, <2>4 DEF WorkerOK, InFileLock, Pending, ReadStore, Value, Readable
  <2>. QED  BY <1>1, <1>4, <2>2, <2>3, <2>5, OneWorkerMoves DEF ReadStore
<1>5. CASE LockGivesUp(t) \/ ReadRaises(t) \/ StoreFails(t)
  BY <1>1, <1>5, CallEnds DEF LockGivesUp, ReadRaises, StoreFails
<1>6. CASE CallReturns(t)
  <2>1. reported' \subseteq Updates
    BY <1>1, <1>6 DEF CallReturns, Worker
  <2>. QED  BY <1>6, <2>1, CallEnds DEF CallReturns
<1>7. ASSUME NEW u \in Updates \cup {NoUpdate}, CallStore(t, u) PROVE StorageInv'
  <2> DEFINE w == [step |-> "queued", update |-> u, seen |-> <<>>]
  <2>1. w \in Worker /\ worker'[t] = w /\ worker' = [worker EXCEPT ![t] = w]
    BY <1>1, <1>7 DEF CallStore, Worker, WorkerSteps
  <2>2. asked' = asked \cup ({u} \ {NoUpdate}) /\ u \notin asked
    BY <1>7 DEF CallStore
  <2>3. w.step = "queued" /\ w.update = u
    OBVIOUS
  <2> HIDE DEF w
  <2>4. WorkerOK(t)' /\ ~InFileLock(t)'
    BY <2>1, <2>2, <2>3 DEF WorkerOK, InFileLock
  <2>. QED  BY <1>1, <1>7, <2>1, <2>2, <2>3, <2>4, OneWorkerMoves DEF CallStore
<1>. QED  BY <1>2, <1>3, <1>4, <1>5, <1>6, <1>7

\* What may happen to the file while a thread has its lock is that thread's: of another nothing
\* changes that its step depends on.
LEMMA OnlyTheHolder ==
  ASSUME StorageInv, NEW t \in Threads, InFileLock(t), NEW w, worker' = [worker EXCEPT ![t] = w],
         UNCHANGED <<strict, asked>>, NEW u \in Threads, u # t
  PROVE  WorkerOK(u)' /\ ~InFileLock(u)' /\ worker'[u] = worker[u] /\ (Pending(u)' <=> Pending(u))
<1>1. worker'[u] = worker[u]
  BY DEF StorageInv, StorageTypeOK
<1>2. ~InFileLock(u) /\ WorkerOK(u)
  BY DEF StorageInv, ThreadsApart
<1>. QED  BY <1>1, <1>2 DEF WorkerOK, InFileLock, Pending

LEMMA TheHolderMovesAlone ==
  ASSUME StorageInv, NEW t \in Threads, InFileLock(t), NEW w, worker' = [worker EXCEPT ![t] = w],
         UNCHANGED <<strict, asked>>, w.update = worker[t].update, Pending(t)' => Pending(t)
  PROVE  ThreadsApart'
<1>1. worker'[t] = w
  BY DEF StorageInv, StorageTypeOK
<1>2. worker[t].step # "idle"
  BY DEF InFileLock
<1>3. \A u \in Threads : /\ Pending(u)' => Pending(u)
                         /\ worker'[u].update = worker[u].update
                         /\ worker'[u].step # "idle" => worker[u].step # "idle"
                         /\ InFileLock(u)' => u = t
  BY <1>1, <1>2, OnlyTheHolder
<1>. QED  BY <1>3 DEF StorageInv, ThreadsApart

LEMMA KeepBackupInv ==
  ASSUME StorageInv, NEW t \in Threads, KeepBackup(t)
  PROVE  StorageInv' /\ Value' = Value
<1> DEFINE w == [worker[t] EXCEPT !.step = "backed"]
<1>1. /\ worker \in [Threads -> Worker] /\ worker[t] \in Worker /\ WorkerOK(t) /\ VersionsOK
      /\ file \in Contents /\ backup \in Contents /\ strict \in BOOLEAN
  BY DEF StorageInv, StorageTypeOK
<1>2. w \in Worker /\ worker'[t] = w /\ worker' = [worker EXCEPT ![t] = w]
  BY <1>1 DEF KeepBackup, WorkerGoes, Worker, WorkerSteps
<1>3. w.step = "backed" /\ w.update = worker[t].update /\ w.seen = worker[t].seen /\ worker[t].step = "read"
  BY <1>1 DEF KeepBackup, WorkerAt, Worker
<1> HIDE DEF w
<1>4. UNCHANGED <<strict, file, asked, reported, damage>> /\ worker[t].update # NoUpdate
  BY DEF KeepBackup
<1>5. worker[t].seen = Value /\ ~(strict /\ file.state = "damaged")
  BY <1>1, <1>3 DEF WorkerOK
<1>6. Absent \in Contents /\ Absent.updates = <<>>
  BY DEF Absent, Contents
<1>7. backup' \in Contents /\ Value' = Value /\ (~strict => backup'.updates = Value)
  <2>1. CASE strict
    BY <1>4, <1>6, <2>1 DEF KeepBackup, Value
  <2>2. CASE ~strict /\ file.state = "intact"
    BY <1>1, <1>4, <2>2 DEF KeepBackup, Value, Readable
  <2>3. CASE ~strict /\ file.state = "damaged"
    BY <1>1, <1>4, <2>3 DEF KeepBackup, Value, Readable
  <2>4. CASE ~strict /\ file.state = "absent"
    BY <1>1, <1>4, <2>4 DEF KeepBackup, Value, Readable, VersionsOK
  <2>5. file.state \in {"intact", "damaged", "absent"}
    BY <1>1 DEF Contents
  <2>. QED  BY <2>1, <2>2, <2>3, <2>4, <2>5
<1>8. backup'.updates \in {<<>>, file.updates, backup.updates}
  BY <1>6 DEF KeepBackup
<1>9. InFileLock(t) /\ (Pending(t)' <=> Pending(t))
  BY <1>2, <1>3 DEF InFileLock, Pending
<1>10. WorkerOK(t)'
  BY <1>1, <1>2, <1>3, <1>4, <1>5, <1>7 DEF WorkerOK
<1>11. StorageTypeOK'
  BY <1>2, <1>4, <1>7 DEF StorageInv, StorageTypeOK
<1>12. ThreadsApart'
  BY <1>2, <1>3, <1>4, <1>9, TheHolderMovesAlone
<1>13. VersionsOK'
  <2>1. \A x : ~Holds(<<>>, x)
    BY DEF Holds
  <2>2. \A x : Holds(backup'.updates, x) => Holds(file.updates, x) \/ Holds(backup.updates, x)
    BY <1>8, <2>1
  <2>3. \A u \in Threads : (Pending(u)' <=> Pending(u)) /\ worker'[u].update = worker[u].update
    BY <1>2, <1>3, <1>4, <1>9, OnlyTheHolder
  <2>4. ~strict /\ file.state \in {"intact", "absent"} => backup'.updates = file.updates
    BY <1>7 DEF Value, Readable
  <2>. QED  BY <1>1, <1>4, <2>2, <2>3, <2>4 DEF VersionsOK
<1>. QED  BY <1>2, <1>4, <1>7, <1>9, <1>10, <1>11, <1>12, <1>13, OnlyTheHolder DEF StorageInv

LEMMA ReplaceInv ==
  ASSUME StorageInv, NEW t \in Threads, Replace(t)
  PROVE  /\ StorageInv'
         /\ worker[t].update \in Updates /\ ~Holds(Value, worker[t].update)
         /\ Value' = Append(Value, worker[t].update)
<1> DEFINE w == [worker[t] EXCEPT !.step = "written"]
           u == worker[t].update
<1>1. /\ worker \in [Threads -> Worker] /\ worker[t] \in Worker /\ WorkerOK(t) /\ VersionsOK
      /\ file \in Contents /\ backup \in Contents /\ strict \in BOOLEAN
  BY DEF StorageInv, StorageTypeOK
<1>2. w \in Worker /\ worker'[t] = w /\ worker' = [worker EXCEPT ![t] = w]
  BY <1>1 DEF Replace, WorkerGoes, Worker, WorkerSteps
<1>3. w.step = "written" /\ w.update = u /\ worker[t].step = "backed"
  BY <1>1 DEF Replace, WorkerAt, Worker
<1> HIDE DEF w
<1>4. UNCHANGED <<strict, backup, asked, reported, damage>>
  BY DEF Replace
<1>5. worker[t].seen = Value /\ u # NoUpdate /\ u \in asked /\ (~strict => backup.updates = Value)
  BY <1>1, <1>3 DEF WorkerOK
<1>6. u \in Updates /\ Value \in Seq(Updates) /\ Pending(t) /\ InFileLock(t)
  BY <1>1, <1>3, <1>5 DEF Worker, Pending, InFileLock
<1>7. file'.state = "intact" /\ file'.updates = Append(Value, u) /\ file' \in Contents
  BY <1>5, <1>6, HoldsOfAppend DEF Replace, Intact, Contents
<1>8. Value' = Append(Value, u)
  BY <1>1, <1>4, <1>7 DEF Value, Readable
<1>9. ~Holds(Value, u)
  BY <1>1, <1>6 DEF VersionsOK, Value, Readable
<1>10. \A x \in Updates : Holds(Value, x) => Holds(file.updates, x) \/ Holds(backup.updates, x)
  BY DEF Value, Readable
<1>11. \A x \in Updates : Holds(file'.updates, x) <=> Holds(Value, x) \/ x = u
  BY <1>6, <1>7, HoldsOfAppend
<1>12. WorkerOK(t)' /\ InFileLock(t)' /\ ~Pending(t)'
  BY <1>2, <1>3, <1>4, <1>5, <1>6, <1>7, <1>11 DEF WorkerOK, InFileLock, Pending
<1>13. StorageTypeOK'
  BY <1>2, <1>4, <1>7 DEF StorageInv, StorageTypeOK
<1>14. ThreadsApart'
  BY <1>2, <1>3, <1>4, <1>6, <1>12, TheHolderMovesAlone
<1>15. VersionsOK'
  <2>1. \A x \in Updates : Holds(file'.updates, x) \/ Holds(backup'.updates, x) => x \in asked'
    BY <1>1, <1>4, <1>5, <1>10, <1>11 DEF VersionsOK
  <2>2. ASSUME NEW v \in Threads, Pending(v)'
        PROVE  ~Holds(file'.updates, worker'[v].update) /\ ~Holds(backup'.updates, worker'[v].update)
    <3>1. v # t /\ worker'[v] = worker[v] /\ Pending(v)
      BY <1>2, <1>4, <1>6, <1>12, <2>2, OnlyTheHolder
    <3>2. worker[v].update \in Updates /\ worker[v].update # u
      BY <1>1, <1>3, <1>6, <3>1 DEF StorageInv, ThreadsApart, Pending, Worker
    <3>. QED  BY <1>1, <1>4, <1>10, <1>11, <3>1, <3>2 DEF VersionsOK
  <2>. QED  BY <1>4, <1>5, <1>6, <1>7, <2>1, <2>2 DEF VersionsOK
<1>. QED  BY <1>2, <1>4, <1>6, <1>8, <1>9, <1>12, <1>13, <1>14, <1>15, OnlyTheHolder DEF StorageInv

LEMMA ProcessDiesInv ==
  ASSUME StorageInv, NEW p \in Processes, ProcessDies(p)
  PROVE  StorageInv'
<1>1. /\ worker \in [Threads -> Worker]
      /\ \A t \in Threads : worker'[t] = worker[t] \/ worker'[t] = NoCall
      /\ worker' \in [Threads -> Worker]
  BY NoCallOK DEF StorageInv, StorageTypeOK, ProcessDies
<1>2. UNCHANGED <<strict, file, backup, asked, reported, damage>>
  BY DEF ProcessDies
<1>3. NoCall.step = "idle"
  BY DEF NoCall
<1>4. \A t \in Threads : WorkerOK(t)'
  BY <1>1, <1>2, <1>3 DEF StorageInv, WorkerOK, Value, Readable
<1>5. \A t \in Threads : /\ InFileLock(t)' => InFileLock(t)
                         /\ Pending(t)' => Pending(t) /\ worker'[t] = worker[t]
                         /\ worker'[t].step # "idle" => worker'[t] = worker[t]
  BY <1>1, <1>3 DEF InFileLock, Pending
<1>6. ThreadsApart'
  BY <1>5 DEF StorageInv, ThreadsApart
<1>7. VersionsOK'
  BY <1>2, <1>5 DEF StorageInv, VersionsOK
<1>. QED  BY <1>1, <1>2, <1>4, <1>6, <1>7 DEF StorageInv, StorageTypeOK

LEMMA DamageInv ==
  ASSUME StorageInv, Damage
  PROVE  /\ StorageInv'
         /\ Value' = Value \/ (~strict /\ \E x \in Updates : Value' \in Seq(Updates) /\ Value = Append(Value', x))
<1>1. file \in Contents /\ backup \in Contents /\ VersionsOK /\ file.state = "intact"
  BY DEF StorageInv, StorageTypeOK, Damage
<1>2. file'.state = "damaged" /\ file'.updates = file.updates /\ file' \in Contents
  BY <1>1 DEF Damage, Contents
<1>3. UNCHANGED <<strict, backup, worker, asked, reported>> /\ \A t \in Threads : ~InFileLock(t)
  BY DEF Damage
<1>4. StorageTypeOK'
  BY <1>2, <1>3, StorageAssumption DEF StorageInv, StorageTypeOK, Damage
<1>5. \A t \in Threads : WorkerOK(t)'
  BY <1>2, <1>3 DEF StorageInv, WorkerOK, InFileLock
<1>6. ThreadsApart'
  BY <1>3 DEF StorageInv, ThreadsApart, InFileLock, Pending
<1>7. VersionsOK'
  BY <1>1, <1>2, <1>3 DEF VersionsOK, Pending
<1>8. backup.updates \in Seq(Updates)
  BY <1>1 DEF Contents
<1>. QED  BY <1>1, <1>2, <1>3, <1>4, <1>5, <1>6, <1>7, <1>8 DEF StorageInv, VersionsOK, Value, Readable

LEMMA StorageSteps == StorageInv /\ [StorageNext]_storvars => StorageInv'
<1>. SUFFICES ASSUME StorageInv, [StorageNext]_storvars PROVE StorageInv'
  OBVIOUS
<1>1. CASE UNCHANGED storvars
  BY <1>1 DEF storvars, StorageInv, StorageTypeOK, WorkerOK, ThreadsApart, VersionsOK, Pending, InFileLock, Value, Readable
<1>2. ASSUME NEW t \in Threads, StorageStep(t) \/ \E u \in Updates \cup {NoUpdate} : CallStore(t, u)
      PROVE  StorageInv'
  BY <1>2, StorageMoves, KeepBackupInv, ReplaceInv DEF StorageStep
<1>. QED  BY <1>1, <1>2, DamageInv, ProcessDiesInv DEF StorageNext

\* What is read is what the register holds.
LEMMA RegisterIsValue ==
  /\ \A x : register!Contains(x) <=> Holds(Value, x)
  /\ \A x : register!Write(x) <=> /\ ~Holds(Value, x) /\ Value' = Append(Value, x)
                                  /\ UNCHANGED <<~strict, reported>>
  /\ \A x : register!Report(x) <=> /\ Holds(Value, x) /\ reported' = reported \cup {x}
                                   /\ UNCHANGED <<~strict, Value>>
  /\ register!RollBack <=> /\ ~strict /\ Value # <<>> /\ Value' = SubSeq(Value, 1, Len(Value) - 1)
                           /\ UNCHANGED <<~strict, reported>>
BY DEF register!Contains, register!Write, register!Report, register!RollBack, Holds, Value

LEMMA RegisterStarts == StorageInit => register!RegInit
BY DEF StorageInit, Absent, register!RegInit, Value, Readable

LEMMA RegisterSteps == StorageInv /\ [StorageNext]_storvars => [register!RegNext]_(register!regvars)
<1>. SUFFICES ASSUME StorageInv, [StorageNext]_storvars PROVE [register!RegNext]_(register!regvars)
  OBVIOUS
<1>. USE RegisterIsValue
<1>1. strict' = strict
  BY DEF StorageNext, StorageStep, storvars, Damage, ProcessDies, CallStore, ThreadLock, FileLock, LockGivesUp,
         ReadStore, ReadRaises, KeepBackup, Replace, CallReturns, StoreFails
<1>2. Value' = Value /\ reported' = reported => [register!RegNext]_(register!regvars)
  BY <1>1 DEF register!regvars, Value
<1>3. file' = file /\ backup' = backup => Value' = Value
  BY <1>1 DEF Value, Readable
<1>4. ASSUME NEW t \in Threads, KeepBackup(t) PROVE [register!RegNext]_(register!regvars)
  BY <1>2, <1>4, KeepBackupInv DEF KeepBackup
<1>5. ASSUME NEW t \in Threads, Replace(t) PROVE [register!RegNext]_(register!regvars)
  <2>1. register!Write(worker[t].update) /\ worker[t].update \in Updates
    BY <1>1, <1>5, ReplaceInv DEF Replace
  <2>. QED  BY <2>1 DEF register!RegNext
<1>6. ASSUME NEW t \in Threads, CallReturns(t) PROVE [register!RegNext]_(register!regvars)
  <2> DEFINE u == worker[t].update
  <2>1. Value' = Value /\ reported' = reported \cup ({u} \ {NoUpdate})
    BY <1>3, <1>6 DEF CallReturns
  <2>2. CASE u = NoUpdate
    BY <1>2, <2>1, <2>2
  <2>3. CASE u # NoUpdate
    <3>1. worker[t] \in Worker /\ WorkerOK(t) /\ worker[t].step = "written"
      BY <1>6, <2>3 DEF StorageInv, StorageTypeOK, CallReturns, WorkerAt
    <3>2. u \in Updates /\ Holds(Value, u)
      BY <2>3, <3>1 DEF Worker, WorkerOK, Value, Readable
    <3>3. register!Report(u)
      BY <1>1, <2>1, <2>3, <3>2
    <3>. QED  BY <3>2, <3>3 DEF register!RegNext
  <2>. QED  BY <2>2, <2>3
<1>7. ASSUME Damage PROVE [register!RegNext]_(register!regvars)
  <2>1. reported' = reported
    BY <1>7 DEF Damage
  <2>2. ASSUME ~strict, NEW x \in Updates, Value' \in Seq(Updates), Value = Append(Value', x)
        PROVE  register!RollBack
    <3>1. Len(Value) = Len(Value') + 1 /\ Value # <<>>
      BY <2>2, AppendProperties, EmptySeq
    <3>2. SubSeq(Value, 1, Len(Value) - 1) = Value'
      BY <2>2, <3>1
    <3>. QED  BY <1>1, <2>1, <2>2, <3>1, <3>2
  <2>. QED  BY <1>2, <1>7, <2>1, <2>2, DamageInv DEF register!RegNext
<1>8. ASSUME NEW t \in Threads,
             \/ ThreadLock(t) \/ FileLock(t) \/ LockGivesUp(t) \/ ReadStore(t) \/ ReadRaises(t) \/ StoreFails(t)
             \/ \E u \in Updates \cup {NoUpdate} : CallStore(t, u)
      PROVE  [register!RegNext]_(register!regvars)
  BY <1>2, <1>3, <1>8 DEF ThreadLock, FileLock, LockGivesUp, ReadStore, ReadRaises, StoreFails, CallStore
<1>9. ASSUME NEW p \in Processes, ProcessDies(p) PROVE [register!RegNext]_(register!regvars)
  BY <1>2, <1>3, <1>9 DEF ProcessDies
<1>10. CASE UNCHANGED storvars
  BY <1>2, <1>3, <1>10 DEF storvars
<1>. QED  BY <1>4, <1>5, <1>6, <1>7, <1>8, <1>9, <1>10 DEF StorageNext, StorageStep

\* A store of storage.py, with its temporary file, its backup and its two locks, with processes that
\* end anywhere and damage between operations, is its register to every caller: updates follow one
\* another, damage costs at most the newest and a strict store nothing, and what was reported is there.
THEOREM TheStoreIsItsRegister == StorageSpec => ImplementsRegister
BY StorageStarts, StorageSteps, RegisterStarts, RegisterSteps, PTL
   DEF StorageSpec, ImplementsRegister, register!RegSpec

-----------------------------------------------------------------------------
\* Reminders

LEMMA RemindersStart == RemindersInit => RemindersTypeOK
BY RemindersAssumption DEF RemindersInit, RemindersTypeOK, Times, Reminder, Voice, Silent, Operations

LEMMA SilentIsAVoice == Silent \in Voice
<1>1. "none" \in Operations /\ 0 \in Times
  BY RemindersAssumption DEF Operations, Times
<1>. QED  BY <1>1 DEF Silent, Voice

\* A command that has found what it is about, or has done with one of them.
LEMMA VoiceOf ==
  ASSUME RemindersTypeOK, NEW c \in Voices, NEW v \in Voice, voice' = [voice EXCEPT ![c] = v],
         UNCHANGED <<clock, snapshot, cards, announced, printed>>, reminders' \in [Reminders -> Reminder]
  PROVE  RemindersTypeOK'
BY DEF RemindersTypeOK

LEMMA Finds ==
  ASSUME RemindersTypeOK, NEW c \in Voices, NEW op \in Operations, NEW some \in SUBSET Reminders, NEW due \in Times,
         Find(c, op, some, due)
  PROVE  RemindersTypeOK' /\ reminders' = reminders
<1>. DEFINE v == [step |-> IF op = "remove all" THEN "asking" ELSE "found", op |-> op, found |-> some, due |-> due]
<1>1. v \in Voice /\ voice' = [voice EXCEPT ![c] = v]
  BY DEF Find, Voice
<1>. HIDE DEF v
<1>2. UNCHANGED <<clock, reminders, snapshot, cards, announced, printed>>
  BY DEF Find, Deliveries
<1>. QED  BY <1>1, <1>2, VoiceOf DEF RemindersTypeOK

LEMMA Moved ==
  ASSUME RemindersTypeOK, NEW i \in Reminders, NEW due \in Times, MovedTo(i, due)
  PROVE  /\ reminders' \in [Reminders -> Reminder]
         /\ \A j \in Reminders : reminders'[j].state = reminders[j].state
<1>1. [reminders[i] EXCEPT !.due = due] \in Reminder /\ [reminders[i] EXCEPT !.due = due].state = reminders[i].state
  BY DEF RemindersTypeOK, Reminder
<1>. QED  BY <1>1 DEF MovedTo, RemindersTypeOK

\* What has been settled stays so.
Settled(i) == reminders[i].state \in {"done", "removed"}

LEMMA ActsOnWhatItFound ==
  ASSUME RemindersTypeOK, NEW c \in Voices, NEW i \in Reminders,
         CompletesOrRemoves(c, i) \/ \E length \in Lengths : PutsOff(c, i, length)
  PROVE  RemindersTypeOK' /\ \A j \in Reminders : Settled(j) => Settled(j)'
<1>1. UNCHANGED <<clock, snapshot, cards, announced, printed>> /\ Settles(c, i)
  BY DEF CompletesOrRemoves, PutsOff, Deliveries
<1>2. PICK v \in Voice : voice' = [voice EXCEPT ![c] = v]
  <2>1. voice[c] \in Voice /\ Silent \in Voice
    BY SilentIsAVoice DEF RemindersTypeOK
  <2>2. [voice[c] EXCEPT !.found = voice[c].found \ {i}] \in Voice
    BY <2>1 DEF Voice
  <2>. QED  BY <1>1, <2>1, <2>2 DEF Settles
<1>3. reminders' \in [Reminders -> Reminder] /\ \A j \in Reminders : Settled(j) => Settled(j)'
  <2>1. CASE CompletesOrRemoves(c, i)
    <3>1. PICK s \in {"done", "removed"} :
            reminders' = reminders \/ reminders' = [reminders EXCEPT ![i].state = s]
      BY <2>1 DEF CompletesOrRemoves
    <3>2. [reminders[i] EXCEPT !.state = s] \in Reminder /\ [reminders[i] EXCEPT !.state = s].state = s
      BY DEF RemindersTypeOK, Reminder
    <3>. QED  BY <3>1, <3>2 DEF RemindersTypeOK, Settled
  <2>2. ASSUME NEW length \in Lengths, PutsOff(c, i, length)
        PROVE  reminders' \in [Reminders -> Reminder] /\ \A j \in Reminders : Settled(j) => Settled(j)'
    <3>1. PICK due \in Times : MovedTo(i, due)
      <4>1. clock \in Nat /\ voice[c].due \in Nat /\ length \in Nat /\ MaxTime \in Nat
        BY RemindersAssumption DEF RemindersTypeOK, Voice, Times
      <4>. QED  BY <2>2, <4>1 DEF PutsOff, Times, Latest
    <3>. QED  BY <3>1, Moved DEF Settled
  <2>. QED  BY <2>1, <2>2
<1>. QED  BY <1>1, <1>2, <1>3, VoiceOf

LEMMA PageActs ==
  ASSUME RemindersTypeOK, NEW t \in Tabs,
         Poll(t) \/ Announce(t) \/ Reload(t) \/ \E i \in Reminders : Dismiss(t, i)
  PROVE  RemindersTypeOK' /\ \A j \in Reminders : Settled(j) => Settled(j)'
<1>1. DueKeys \subseteq AnnouncementKeys
  BY DEF DueKeys
<1>2. Fresh(t) \subseteq AnnouncementKeys /\ {k[1] : k \in Fresh(t)} \subseteq Reminders
  BY DEF RemindersTypeOK, Fresh, AnnouncementKeys
<1>3. CASE Poll(t) \/ Announce(t) \/ Reload(t)
  <2>1. /\ UNCHANGED <<clock, reminders, voice, printed>>
        /\ snapshot' \in [Tabs -> SUBSET AnnouncementKeys]
        /\ announced' \in [Tabs -> SUBSET AnnouncementKeys]
    BY <1>1, <1>2, <1>3 DEF Poll, Announce, Reload, RemindersTypeOK
  <2>2. cards' \in [Tabs -> SUBSET Reminders]
    BY <1>2, <1>3 DEF Poll, Announce, Reload, RemindersTypeOK
  <2>. QED  BY <2>1, <2>2 DEF RemindersTypeOK, Settled
<1>4. ASSUME NEW i \in Reminders, Dismiss(t, i)
      PROVE  RemindersTypeOK' /\ \A j \in Reminders : Settled(j) => Settled(j)'
  <2>1. /\ UNCHANGED <<clock, voice, snapshot, announced, printed>>
        /\ cards' \in [Tabs -> SUBSET Reminders]
    BY <1>4 DEF Dismiss, RemindersTypeOK
  <2>2. reminders' \in [Reminders -> Reminder] /\ \A j \in Reminders : Settled(j) => Settled(j)'
    <3>1. [reminders[i] EXCEPT !.state = "done"] \in Reminder /\ [reminders[i] EXCEPT !.state = "done"].state = "done"
      BY DEF RemindersTypeOK, Reminder
    <3>2. CASE UNCHANGED reminders \/ reminders' = [reminders EXCEPT ![i].state = "done"]
      BY <3>1, <3>2 DEF RemindersTypeOK, Settled
    <3>3. ASSUME NEW length \in Lengths, clock + length <= MaxTime, MovedTo(i, clock + length)
          PROVE  reminders' \in [Reminders -> Reminder] /\ \A j \in Reminders : Settled(j) => Settled(j)'
      <4>1. clock + length \in Times
        BY <3>3, RemindersAssumption DEF RemindersTypeOK, Times
      <4>. QED  BY <3>3, <4>1, Moved DEF Settled
    <3>. QED  BY <1>4, <3>2, <3>3 DEF Dismiss
  <2>. QED  BY <2>1, <2>2 DEF RemindersTypeOK
<1>. QED  BY <1>3, <1>4

LEMMA RemindersStep ==
  RemindersTypeOK /\ [RemindersNext]_remvars => RemindersTypeOK' /\ \A j \in Reminders : Settled(j) => Settled(j)'
<1>. SUFFICES ASSUME RemindersTypeOK, [RemindersNext]_remvars
              PROVE  RemindersTypeOK' /\ \A j \in Reminders : Settled(j) => Settled(j)'
  OBVIOUS
<1>1. CASE ClockTicks
  BY <1>1, RemindersAssumption DEF ClockTicks, Deliveries, RemindersTypeOK, Settled, Times
<1>2. CASE PrintDue
  BY <1>2 DEF PrintDue, DueKeys, RemindersTypeOK, Settled
<1>3. ASSUME NEW i \in Reminders, NEW due \in Times, AddReminder(i, due)
      PROVE  RemindersTypeOK' /\ \A j \in Reminders : Settled(j) => Settled(j)'
  BY <1>3 DEF AddReminder, Deliveries, RemindersTypeOK, Reminder, Settled
<1>4. ASSUME NEW c \in Voices, NEW i \in Reminders,
             \/ FindToComplete(c, i) \/ FindToMove(c, i) \/ FindToCancel(c, i) \/ FindToSnooze(c, i) \/ FindToExtend(c, i)
      PROVE  RemindersTypeOK' /\ \A j \in Reminders : Settled(j) => Settled(j)'
  <2>1. PICK op \in Operations, due \in Times : Find(c, op, {i}, due)
    <3>1. 0 \in Times /\ reminders[i].due \in Times /\ {"done", "move", "remove", "extend"} \subseteq Operations
      BY RemindersAssumption DEF RemindersTypeOK, Reminder, Times, Operations
    <3>. QED  BY <1>4, <3>1 DEF FindToComplete, FindToMove, FindToCancel, FindToSnooze, FindToExtend
  <2>. QED  BY <2>1, Finds DEF Settled
<1>5. ASSUME NEW c \in Voices, FindAll(c)
      PROVE  RemindersTypeOK' /\ \A j \in Reminders : Settled(j) => Settled(j)'
  <2>1. 0 \in Times /\ "remove all" \in Operations
    BY RemindersAssumption DEF Times, Operations
  <2>2. Find(c, "remove all", {i \in Reminders : Active(i)}, 0)
    BY <1>5 DEF FindAll
  <2>. QED  BY <2>1, <2>2, Finds DEF Settled
<1>6. ASSUME NEW c \in Voices, NEW yes \in BOOLEAN, AnswerRemoveAll(c, yes)
      PROVE  RemindersTypeOK' /\ \A j \in Reminders : Settled(j) => Settled(j)'
  <2>1. voice[c] \in Voice /\ Silent \in Voice
    BY SilentIsAVoice DEF RemindersTypeOK
  <2>4. [voice[c] EXCEPT !.step = "found"] \in Voice
    BY <2>1 DEF Voice
  <2>2. PICK v \in Voice : voice' = [voice EXCEPT ![c] = v]
    BY <1>6, <2>1, <2>4 DEF AnswerRemoveAll
  <2>3. UNCHANGED <<clock, reminders, snapshot, cards, announced, printed>>
    BY <1>6 DEF AnswerRemoveAll, Deliveries
  <2>. QED  BY <2>2, <2>3, VoiceOf DEF RemindersTypeOK, Settled
<1>7. CASE UNCHANGED remvars
  BY <1>7 DEF remvars, RemindersTypeOK, Settled
<1>. QED  BY <1>1, <1>2, <1>3, <1>4, <1>5, <1>6, <1>7, ActsOnWhatItFound, PageActs DEF RemindersNext

\* Two commands may find the same reminder before either acts, a page may act on a card it opened
\* long ago, and none of them brings back what the user has done or removed (reminders.py).
THEOREM NothingSettledRingsAgain == RemindersSpec => SettledStaysSettled
<1>1. RemindersTypeOK /\ [RemindersNext]_remvars
        => [\A i \in Reminders : reminders[i].state \in {"done", "removed"}
                                   => reminders'[i].state \in {"done", "removed"}]_remvars
  BY RemindersStep DEF Settled
<1>2. RemindersTypeOK /\ [RemindersNext]_remvars => RemindersTypeOK'
  BY RemindersStep
<1>. QED  BY <1>1, <1>2, RemindersStart, PTL DEF RemindersSpec, SettledStaysSettled

-----------------------------------------------------------------------------
\* Stop

Kept == {c \in Calls : pending[c] > 0}

\* A stop that came before its request is kept until it is too old, or found no room; a request
\* that runs although it was stopped began when the stop was too old, or never kept.
StopOK(c) ==
  pressed[c] # Unpressed /\ c \notin crowded =>
    /\ call[c] = "new" => pending[c] = pressed[c] + MaxAge \/ pressed[c] + MaxAge <= moment
    /\ c \in Running /\ c \notin halted => pressed[c] + MaxAge <= began[c]

StoppingInv ==
  /\ StoppingTypeOK /\ IsFiniteSet(Kept)
  /\ \A c \in Calls : StopOK(c)

LEMMA StoppingStarts == StoppingInit => StoppingInv
<1>. SUFFICES ASSUME StoppingInit PROVE StoppingInv
  OBVIOUS
<1>1. MaxMoments \in Nat /\ MaxAge \in Nat /\ MaxPending \in Nat
  BY StoppingAssumption
<1>2. {c \in Calls : pending[c] > 0} = {} /\ Kept = {}
  BY DEF StoppingInit, Kept
<1>3. Cardinality({c \in Calls : pending[c] > 0}) <= MaxPending /\ IsFiniteSet(Kept)
  BY <1>1, <1>2, FS_EmptySet
<1>4. StoppingTypeOK
  BY <1>1, <1>3 DEF StoppingInit, StoppingTypeOK, Moments, Unpressed, CallSteps
<1>5. \A c \in Calls : pressed[c] = Unpressed
  BY DEF StoppingInit
<1>. QED  BY <1>3, <1>4, <1>5 DEF StoppingInv, StopOK

\* A thread goes on by itself: what is kept of stops is left alone.
LEMMA ThreadGoesOn ==
  ASSUME StoppingInv, NEW c \in Calls, c \in Running, NEW to \in CallSteps, to # "new",
         call' = [call EXCEPT ![c] = to],
         UNCHANGED <<moment, pending, halted, pressed, began, crowded>>,
         sockets' \subseteq Calls, shut' \subseteq Calls
  PROVE  StoppingInv'
<1>1. StoppingTypeOK' /\ Kept' = Kept
  BY DEF StoppingInv, StoppingTypeOK, Kept
<1>2. \A d \in Calls : (call'[d] = "new" => call[d] = "new") /\ (d \in Running' => d \in Running)
  BY DEF StoppingInv, StoppingTypeOK, Running
<1>3. \A d \in Calls : StopOK(d)'
  BY <1>2 DEF StoppingInv, StopOK, Unpressed
<1>. QED  BY <1>1, <1>3 DEF StoppingInv

LEMMA OwnStepKeeps ==
  ASSUME StoppingInv, NEW c \in Calls, OwnStep(c) \/ LineComes(c) \/ ReadEnds(c) \/ PollEnds(c)
  PROVE  StoppingInv'
<1>1. /\ UNCHANGED <<moment, pending, halted, pressed, began, crowded>>
      /\ sockets' \subseteq Calls /\ shut' \subseteq Calls
  BY DEF OwnStep, LineComes, ReadEnds, PollEnds, CheckStop, WorkDone, ListSocket, ReadIfNotStopped, CallLeaves, Ghosts,
         StoppingInv, StoppingTypeOK
<1>2. PICK from \in CallSteps \ {"new", "done"}, to \in CallSteps \ {"new"} : CallGoes(c, from, to)
  BY DEF OwnStep, LineComes, ReadEnds, PollEnds, CheckStop, WorkDone, ListSocket, ReadIfNotStopped, CallLeaves, CallSteps
<1>3. c \in Running /\ call' = [call EXCEPT ![c] = to]
  BY <1>2 DEF CallGoes, Running
<1>. QED  BY <1>1, <1>2, <1>3, ThreadGoesOn

LEMMA MomentPassesKeeps ==
  ASSUME StoppingInv, MomentPasses
  PROVE  StoppingInv'
<1>1. UNCHANGED <<pending, call, halted, sockets, shut, pressed, began, crowded>> /\ moment' = moment + 1
  BY DEF MomentPasses, Ghosts
<1>2. moment \in Nat /\ MaxMoments \in Nat /\ MaxAge \in Nat /\ moment' \in Moments
  BY StoppingAssumption DEF StoppingInv, StoppingTypeOK, Moments, MomentPasses
<1>3. StoppingTypeOK' /\ Kept' = Kept
  BY <1>1, <1>2 DEF StoppingInv, StoppingTypeOK, Kept
<1>4. \A c \in Calls : StopOK(c)'
  <2>1. \A c \in Calls : pressed[c] \in Nat
    BY <1>2 DEF StoppingInv, StoppingTypeOK, Unpressed
  <2>. QED  BY <1>1, <1>2, <2>1 DEF StoppingInv, StopOK, Running, Unpressed
<1>. QED  BY <1>3, <1>4 DEF StoppingInv

LEMMA CallBeginsKeeps ==
  ASSUME StoppingInv, NEW c \in Calls, CallBegins(c)
  PROVE  StoppingInv'
<1>1. /\ call[c] = "new" /\ call' = [call EXCEPT ![c] = "checking"]
      /\ halted' = IF pending[c] > moment THEN halted \cup {c} ELSE halted
      /\ pending' = [pending EXCEPT ![c] = 0] /\ began' = [began EXCEPT ![c] = moment]
      /\ UNCHANGED <<moment, sockets, shut, pressed, crowded>>
  BY DEF CallBegins, CallGoes, StillKept
<1>2. /\ pending \in [Calls -> 0..(MaxMoments + MaxAge)] /\ call \in [Calls -> CallSteps]
      /\ moment \in Moments /\ began \in [Calls -> Moments] /\ pressed \in [Calls -> 0..Unpressed]
      /\ MaxMoments \in Nat /\ MaxAge \in Nat /\ MaxPending \in Nat
  BY StoppingAssumption DEF StoppingInv, StoppingTypeOK
<1>3. Kept' \subseteq Kept /\ IsFiniteSet(Kept) /\ Cardinality(Kept) <= MaxPending
  BY <1>1, <1>2 DEF StoppingInv, StoppingTypeOK, Kept
<1>4. IsFiniteSet(Kept') /\ Cardinality(Kept') <= MaxPending
  <2>1. IsFiniteSet(Kept') /\ Cardinality(Kept') <= Cardinality(Kept)
    BY <1>3, FS_Subset
  <2>2. Cardinality(Kept) \in Nat /\ Cardinality(Kept') \in Nat
    BY <1>3, <2>1, FS_CardinalityType
  <2>. QED  BY <1>2, <1>3, <2>1, <2>2
<1>5. StoppingTypeOK'
  <2>1. pending' \in [Calls -> 0..(MaxMoments + MaxAge)] /\ began' \in [Calls -> Moments]
    BY <1>1, <1>2
  <2>2. call' \in [Calls -> CallSteps] /\ halted' \subseteq Calls
    BY <1>1, <1>2 DEF CallSteps, StoppingInv, StoppingTypeOK
  <2>. QED  BY <1>1, <1>4, <2>1, <2>2 DEF StoppingInv, StoppingTypeOK, Kept
<1>6. ASSUME NEW d \in Calls PROVE StopOK(d)'
  <2>1. CASE d # c
    BY <1>1, <1>2, <2>1 DEF StoppingInv, StopOK, Running, Unpressed
  <2>2. CASE d = c
    <3>1. StopOK(c) /\ call'[c] = "checking" /\ began'[c] = moment
      BY <1>1, <1>2 DEF StoppingInv
    <3>2. pending[c] > moment => c \in halted'
      BY <1>1
    <3>3. pressed[c] \in Nat /\ moment \in Nat /\ pending[c] \in Nat
      BY <1>2 DEF Unpressed, Moments
    <3>. QED  BY <1>1, <1>2, <2>2, <3>1, <3>2, <3>3 DEF StopOK, Unpressed
  <2>. QED  BY <2>1, <2>2
<1>. QED  BY <1>4, <1>5, <1>6 DEF StoppingInv

\* The stops that are kept when one more comes, and the room for it.
LEMMA PressStopKeeps ==
  ASSUME StoppingInv, NEW c \in Calls, PressStop(c)
  PROVE  StoppingInv'
<1>. DEFINE kept == {d \in Calls : pending[d] >= moment /\ pending[d] > 0}
<1>1. /\ pending \in [Calls -> 0..(MaxMoments + MaxAge)] /\ call \in [Calls -> CallSteps]
      /\ moment \in Moments /\ began \in [Calls -> Moments] /\ pressed \in [Calls -> 0..Unpressed]
      /\ halted \subseteq Calls /\ shut \subseteq Calls /\ sockets \subseteq Calls /\ crowded \subseteq Calls
      /\ MaxMoments \in Nat /\ MaxAge \in Nat \ {0} /\ MaxPending \in Nat
  BY StoppingAssumption DEF StoppingInv, StoppingTypeOK
<1>2. /\ pressed[c] = Unpressed /\ pressed' = [pressed EXCEPT ![c] = moment]
      /\ UNCHANGED <<moment, call, sockets, began>>
  BY DEF PressStop
<1>3. IsFiniteSet(kept) /\ Cardinality(kept) <= MaxPending /\ Cardinality(kept) \in Nat
  <2>1. kept \subseteq Kept /\ IsFiniteSet(Kept) /\ Cardinality(Kept) <= MaxPending
    BY DEF StoppingInv, StoppingTypeOK, Kept
  <2>2. IsFiniteSet(kept) /\ Cardinality(kept) <= Cardinality(Kept)
    BY <2>1, FS_Subset
  <2>3. Cardinality(Kept) \in Nat /\ Cardinality(kept) \in Nat
    BY <2>1, <2>2, FS_CardinalityType
  <2>. QED  BY <1>1, <2>1, <2>2, <2>3
<1>4. c \in Running =>
        /\ pending' = [d \in Calls |-> IF d \in kept THEN pending[d] ELSE 0]
        /\ halted' = halted \cup {c} /\ shut' = shut \cup (sockets \cap {c}) /\ crowded' = crowded
  BY DEF PressStop
<1>5. c \notin Running =>
        /\ pending' = [d \in Calls |-> IF d = c /\ Room(kept) THEN moment + MaxAge ELSE IF d \in kept THEN pending[d] ELSE 0]
        /\ halted' = halted /\ shut' = shut
        /\ crowded' = IF Room(kept) THEN crowded ELSE crowded \cup {c}
  BY DEF PressStop
<1>6. /\ pending' \in [Calls -> 0..(MaxMoments + MaxAge)]
      /\ halted' \subseteq Calls /\ shut' \subseteq Calls /\ crowded' \subseteq Calls
  <2>1. moment + MaxAge \in 0..(MaxMoments + MaxAge) /\ 0 \in 0..(MaxMoments + MaxAge)
    BY <1>1 DEF Moments
  <2>2. \A d \in Calls : pending[d] \in 0..(MaxMoments + MaxAge)
    BY <1>1
  <2>3. pending' \in [Calls -> 0..(MaxMoments + MaxAge)]
    BY <1>4, <1>5, <2>1, <2>2
  <2>. QED  BY <1>1, <1>4, <1>5, <2>3
<1>7. IsFiniteSet(Kept') /\ Cardinality(Kept') <= MaxPending
  <2>1. CASE c \notin Running /\ Room(kept)
    <3>1. Kept' \subseteq kept \cup {c}
      BY <1>5, <1>6, <2>1 DEF Kept
    <3>2. IsFiniteSet(kept \cup {c}) /\ Cardinality(kept \cup {c}) <= Cardinality(kept) + 1
      <4>. HIDE DEF kept
      <4>1. IsFiniteSet(kept \cup {c})
            /\ (Cardinality(kept \cup {c}) = Cardinality(kept) \/ Cardinality(kept \cup {c}) = Cardinality(kept) + 1)
        BY <1>3, FS_AddElement
      <4>. QED  BY <1>3, <4>1
    <3>3. IsFiniteSet(Kept') /\ Cardinality(Kept') <= Cardinality(kept \cup {c})
      BY <3>1, <3>2, FS_Subset
    <3>4. Cardinality(kept) < MaxPending
      BY <2>1 DEF Room
    <3>5. Cardinality(Kept') \in Nat /\ Cardinality(kept \cup {c}) \in Nat
      BY <3>2, <3>3, FS_CardinalityType
    <3>. HIDE DEF kept
    <3>. QED  BY <1>1, <1>3, <3>2, <3>3, <3>4, <3>5
  <2>2. CASE c \in Running \/ ~Room(kept)
    <3>1. Kept' \subseteq kept
      BY <1>4, <1>5, <1>6, <2>2 DEF Kept
    <3>2. IsFiniteSet(Kept') /\ Cardinality(Kept') <= Cardinality(kept)
      BY <1>3, <3>1, FS_Subset
    <3>3. Cardinality(Kept') \in Nat
      BY <3>2, FS_CardinalityType
    <3>. HIDE DEF kept
    <3>. QED  BY <1>1, <1>3, <3>2, <3>3
  <2>. QED  BY <2>1, <2>2
<1>8. StoppingTypeOK'
  <2>1. pressed' \in [Calls -> 0..Unpressed]
    BY <1>1, <1>2 DEF Moments, Unpressed
  <2>. QED  BY <1>1, <1>2, <1>6, <1>7, <2>1 DEF StoppingTypeOK, Kept
<1>9. ASSUME NEW d \in Calls PROVE StopOK(d)'
  <2>1. CASE d # c
    <3>1. pressed'[d] = pressed[d] /\ (d \in halted' <=> d \in halted) /\ (d \in crowded' <=> d \in crowded)
      BY <1>1, <1>2, <1>4, <1>5, <2>1
    <3>2. pending'[d] = IF d \in kept THEN pending[d] ELSE 0
      BY <1>4, <1>5, <2>1
    <3>3. pressed[d] \in Nat /\ moment \in Nat /\ pending[d] \in Nat
      BY <1>1 DEF Unpressed, Moments
    <3>4. pending[d] = pressed[d] + MaxAge => pending'[d] = pending[d] \/ pressed[d] + MaxAge <= moment
      BY <1>1, <3>2, <3>3
    <3>5. StopOK(d)
      BY DEF StoppingInv
    <3>. HIDE DEF kept
    <3>. QED  BY <1>2, <3>1, <3>4, <3>5 DEF StopOK, Running, Unpressed
  <2>2. CASE d = c
    <3>1. pressed'[c] = moment /\ call'[c] = call[c]
      BY <1>1, <1>2
    <3>2. CASE c \in Running
      BY <1>2, <1>4, <2>2, <3>2 DEF StopOK, Running
    <3>3. CASE c \notin Running
      <4>1. c \notin crowded' => pending'[c] = moment + MaxAge
        BY <1>5, <1>6, <3>3
      <4>2. c \notin Running'
        BY <1>2, <3>3 DEF Running
      <4>. QED  BY <2>2, <3>1, <4>1, <4>2 DEF StopOK
    <3>. QED  BY <3>2, <3>3
  <2>. QED  BY <2>1, <2>2
<1>. QED  BY <1>7, <1>8, <1>9 DEF StoppingInv

LEMMA StoppingSteps == StoppingInv /\ [StoppingNext]_stopvars => StoppingInv'
<1>. SUFFICES ASSUME StoppingInv, [StoppingNext]_stopvars PROVE StoppingInv'
  OBVIOUS
<1>1. CASE UNCHANGED stopvars
  BY <1>1 DEF stopvars, StoppingInv, StoppingTypeOK, Kept, StopOK, Running, Unpressed
<1>. QED  BY <1>1, MomentPassesKeeps, PressStopKeeps, CallBeginsKeeps, OwnStepKeeps DEF StoppingNext

\* A stop that comes before its request ends it when it begins, unless it is a minute old by then
\* or came when as many stops as are kept were waiting (cancellation.py).
THEOREM AnEarlyStopIsKept == StoppingSpec => []EarlyStopIsKept
<1>1. StoppingInv => EarlyStopIsKept
  BY DEF StoppingInv, StopOK, EarlyStopIsKept, Running
<1>. QED  BY <1>1, StoppingStarts, StoppingSteps, PTL DEF StoppingSpec

-----------------------------------------------------------------------------
\* The parts in one run

LiveInv == StorageInv /\ RemindersTypeOK /\ StoppingInv

\* Whichever part steps, the variables of the three have the types the code gives them: the file
\* and its backup hold updates, no more stops are kept than there is room for.
THEOREM LiveWellTyped == LiveSpec => []LiveTypeOK
<1>1. LiveInit => LiveInv
  BY StorageStarts, RemindersStart, StoppingStarts DEF LiveInit, LiveInv
<1>2. LiveInv /\ [LiveNext]_livevars => LiveInv'
  <2>1. [LiveNext]_livevars => [StorageNext]_storvars
    BY DEF LiveNext, InPart, livevars
  <2>2. [LiveNext]_livevars => [RemindersNext]_remvars
    BY DEF LiveNext, InPart, livevars
  <2>3. [LiveNext]_livevars => [StoppingNext]_stopvars
    BY DEF LiveNext, InPart, livevars
  <2>. QED  BY <2>1, <2>2, <2>3, StorageSteps, RemindersStep, StoppingSteps DEF LiveInv
<1>3. LiveInv => LiveTypeOK
  BY DEF LiveInv, LiveTypeOK, StorageInv, StoppingInv
<1>. QED  BY <1>1, <1>2, <1>3, PTL DEF LiveSpec

=============================================================================
