------------------------------ MODULE Storage ------------------------------
(***************************************************************************)
(* One JSON store on disk (storage.py): the file, its backup and the lock  *)
(* that serialises every read-modify-write of it, between the threads of a *)
(* process by an RLock and between processes by flock.                     *)
(*                                                                         *)
(* An update is read_json, a change, and atomic_write_text, under one      *)
(* file_lock (`synchronized').  The file is the sequence of the updates    *)
(* that made it, so a lost update is one missing from it.  What a write    *)
(* does to its temporary file shows only when os.replace puts it in place, *)
(* so a replace is one step and a crash before it changes nothing.  Damage *)
(* is anything that leaves bytes no reader can parse; it comes between     *)
(* operations.                                                             *)
(***************************************************************************)
EXTENDS Sequences, Naturals

CONSTANTS
  Threads, Processes,
  HomeOf,     \* the process of each thread
  Updates,    \* read-modify-writes, each asked for once
  MaxDamage,  \* bound: how often the file is damaged
  NoUpdate

ASSUME StorageAssumption ==
  /\ HomeOf \in [Threads -> Processes]
  /\ MaxDamage \in Nat
  /\ NoUpdate \notin Updates

VARIABLES
  strict,     \* the store is read by read_json_strict and keeps no backup
  file,       \* the store itself
  backup,     \* <file>.bak
  worker,     \* where each thread is in its operation; update NoUpdate only reads
  asked,      \* updates some thread took on
  reported,   \* updates whose caller was told they are done
  damage      \* bound: damage so far

storvars == <<strict, file, backup, worker, asked, reported, damage>>

\* A damaged file keeps the updates its bytes stood for: no reader sees them.
Contents == [state: {"absent", "damaged", "intact"}, updates: Seq(Updates)]
WorkerSteps == {"idle", "queued", "thread", "locked", "read", "backed", "written"}
Worker == [step: WorkerSteps, update: Updates \cup {NoUpdate}, seen: Seq(Updates)]

StorageTypeOK ==
  /\ strict \in BOOLEAN
  /\ file \in Contents /\ backup \in Contents
  /\ worker \in [Threads -> Worker]
  /\ asked \subseteq Updates /\ reported \subseteq Updates
  /\ damage \in 0..MaxDamage

Absent == [state |-> "absent", updates |-> <<>>]
Intact(s) == [state |-> "intact", updates |-> s]
NoCall == [step |-> "idle", update |-> NoUpdate, seen |-> <<>>]

\* A strict store may find a backup that a version before it left.
StorageInit ==
  /\ strict \in BOOLEAN
  /\ file = Absent
  /\ backup \in {Absent} \cup (IF strict THEN {Intact(<<>>)} ELSE {})
  /\ worker = [t \in Threads |-> NoCall]
  /\ asked = {} /\ reported = {} /\ damage = 0

-----------------------------------------------------------------------------
WorkerAt(t, s) == worker[t].step = s
WorkerGoes(t, s) == worker' = [worker EXCEPT ![t] = [worker[t] EXCEPT !.step = s]]

\* The thread has the process's RLock, and the one that has flock as well.
InThreadLock(t) == worker[t].step \in {"thread", "locked", "read", "backed", "written"}
InFileLock(t) == worker[t].step \in {"locked", "read", "backed", "written"}

\* What a reader gets: read_json falls back to the backup, or to the default.
Readable == IF file.state = "damaged" THEN backup.updates ELSE file.updates

CallStore(t, u) ==
  /\ WorkerAt(t, "idle")
  /\ u \notin asked
  /\ worker' = [worker EXCEPT ![t] = [step |-> "queued", update |-> u, seen |-> <<>>]]
  /\ asked' = asked \cup ({u} \ {NoUpdate})
  /\ UNCHANGED <<strict, file, backup, reported, damage>>

\* with lock: the process's RLock for this path.
ThreadLock(t) ==
  /\ WorkerAt(t, "queued")
  /\ \A other \in Threads : HomeOf[other] = HomeOf[t] => ~InThreadLock(other)
  /\ WorkerGoes(t, "thread")
  /\ UNCHANGED <<strict, file, backup, asked, reported, damage>>

\* flock, or msvcrt.locking.
FileLock(t) ==
  /\ WorkerAt(t, "thread")
  /\ \A other \in Threads : ~InFileLock(other)
  /\ WorkerGoes(t, "locked")
  /\ UNCHANGED <<strict, file, backup, asked, reported, damage>>

\* LK_LOCK tries ten times and raises: the operation fails.
LockGivesUp(t) ==
  /\ WorkerAt(t, "thread")
  /\ \E other \in Threads : other # t /\ InFileLock(other)
  /\ worker' = [worker EXCEPT ![t] = NoCall]
  /\ UNCHANGED <<strict, file, backup, asked, reported, damage>>

\* read_json and read_json_strict of what can be read.
ReadStore(t) ==
  /\ WorkerAt(t, "locked")
  /\ ~(strict /\ file.state = "damaged")
  /\ worker' = [worker EXCEPT ![t] =
                  [step |-> "read", update |-> worker[t].update, seen |-> Readable]]
  /\ UNCHANGED <<strict, file, backup, asked, reported, damage>>

\* StorageDamaged: a strict store is not read from its backup.
ReadRaises(t) ==
  /\ WorkerAt(t, "locked")
  /\ strict /\ file.state = "damaged"
  /\ worker' = [worker EXCEPT ![t] = NoCall]
  /\ UNCHANGED <<strict, file, backup, asked, reported, damage>>

\* Mutant of KeepBackup: a damaged file is kept as the backup too.
KeepAnyBackup(t) ==
  /\ WorkerAt(t, "read") /\ worker[t].update # NoUpdate
  /\ IF strict
     THEN backup' = Absent
     ELSE backup' = IF file.state = "absent" THEN backup ELSE Intact(file.updates)
  /\ WorkerGoes(t, "backed")
  /\ UNCHANGED <<strict, file, asked, reported, damage>>

\* atomic_write_text before the replace: the intact previous copy becomes the
\* backup (damaged bytes go to a copy of their own), and without backups any
\* is removed.
KeepBackup(t) ==
  /\ WorkerAt(t, "read") /\ worker[t].update # NoUpdate
  /\ IF strict
     THEN backup' = Absent
     ELSE backup' = IF file.state = "intact" THEN file ELSE backup
  /\ WorkerGoes(t, "backed")
  /\ UNCHANGED <<strict, file, asked, reported, damage>>

\* os.replace of the temporary file.
Replace(t) ==
  /\ WorkerAt(t, "backed")
  /\ file' = Intact(Append(worker[t].seen, worker[t].update))
  /\ WorkerGoes(t, "written")
  /\ UNCHANGED <<strict, backup, asked, reported, damage>>

\* Both locks are released and the caller goes on.
CallReturns(t) ==
  /\ WorkerAt(t, "written") \/ (WorkerAt(t, "read") /\ worker[t].update = NoUpdate)
  /\ worker' = [worker EXCEPT ![t] = NoCall]
  /\ reported' = reported \cup ({worker[t].update} \ {NoUpdate})
  /\ UNCHANGED <<strict, file, backup, asked, damage>>

\* An OSError while reading or writing: the temporary file is unlinked, the
\* file is as it was, and the locks are released on the way out.
StoreFails(t) ==
  /\ worker[t].step \in {"locked", "read", "backed"}
  /\ worker' = [worker EXCEPT ![t] = NoCall]
  /\ UNCHANGED <<strict, file, backup, asked, reported, damage>>

\* A process ends anywhere: its locks go with it, its temporary file stays.
ProcessDies(p) ==
  /\ \E t \in Threads : HomeOf[t] = p /\ ~WorkerAt(t, "idle")
  /\ worker' = [t \in Threads |-> IF HomeOf[t] = p THEN NoCall ELSE worker[t]]
  /\ UNCHANGED <<strict, file, backup, asked, reported, damage>>

Damage ==
  /\ damage < MaxDamage
  /\ file.state = "intact" /\ \A t \in Threads : ~InFileLock(t)
  /\ file' = [file EXCEPT !.state = "damaged"]
  /\ damage' = damage + 1
  /\ UNCHANGED <<strict, backup, worker, asked, reported>>

StorageStep(t) ==
  \/ ThreadLock(t) \/ FileLock(t) \/ LockGivesUp(t) \/ ReadStore(t) \/ ReadRaises(t)
  \/ KeepBackup(t) \/ Replace(t) \/ CallReturns(t) \/ StoreFails(t)

StorageNext ==
  \/ Damage
  \/ \E p \in Processes : ProcessDies(p)
  \/ \E t \in Threads : StorageStep(t) \/ \E u \in Updates \cup {NoUpdate} : CallStore(t, u)

StorageFairness == \A t \in Threads : WF_storvars(StorageStep(t))

StorageSpec == StorageInit /\ [][StorageNext]_storvars /\ StorageFairness
-----------------------------------------------------------------------------
\* The file's lock is given up, whatever happens to the operation inside it.
TheLockIsReleased ==
  (\E t \in Threads : InFileLock(t)) ~> (\A t \in Threads : ~InFileLock(t))

\* Updates take effect one after another, each on what the last one left;
\* damage costs at most the newest, and never anything of a strict store; and
\* what is reported done is in the store at that moment.
register == INSTANCE Register WITH
  forgiving <- ~strict,
  value <- IF strict THEN file.updates ELSE Readable,
  answered <- reported

ImplementsRegister == register!RegSpec

\* A store is its register to every caller, and no caller keeps it for itself.
StoreKeepsItsWord == ImplementsRegister /\ TheLockIsReleased
=============================================================================
