------------------------------- MODULE Memory -------------------------------
(***************************************************************************)
(* What the assistant remembers (memory.py): facts, notes and list items   *)
(* in one file, and the copy of it each process works on.                  *)
(*                                                                         *)
(* Every method runs under the file's lock, so a call is one step, and     *)
(* writes the whole copy.  The methods storage._REFRESH names reload the   *)
(* file first; the others work on the copy as it is, and a write of theirs *)
(* undoes whatever another process wrote since.  The order of the notes is *)
(* left out: which one is the newest is any of them.                       *)
(***************************************************************************)
CONSTANTS
  Holders,       \* the processes over one data directory
  Keys, Values,  \* a fact is a key and its value
  Notes, Items   \* items are those of one list

Facts == Keys \X Values
Entries == Facts \cup Notes \cup Items

VARIABLES
  there,       \* memory.json exists
  remembered,  \* what it holds
  copy,        \* MemoryStore._data of each process
  told,        \* history: what the user was told is remembered, and not dropped
  behind,      \* history: what changed in the file since a process read it, or
               \* in its copy with a write that failed
  adrift       \* history: what a process was behind with when it wrote its copy
               \* without reading the file, and the user told nothing of since

memvars == <<there, remembered, copy, told, behind, adrift>>

MemoryTypeOK ==
  /\ there \in BOOLEAN
  /\ remembered \subseteq Entries
  /\ copy \in [Holders -> SUBSET Entries]
  /\ behind \in [Holders -> SUBSET Entries]
  /\ told \subseteq Entries /\ adrift \subseteq Entries

MemoryInit ==
  /\ there = FALSE /\ remembered = {} /\ told = {} /\ adrift = {}
  /\ copy = [p \in Holders |-> {}]
  /\ behind = [p \in Holders |-> {}]

-----------------------------------------------------------------------------
SymmetricDifference(S, T) == (S \ T) \cup (T \ S)

\* Mutant of Fresh: the methods are missing from _REFRESH.
NotReloaded(p) == copy[p]

\* What a method that reloads works on: load leaves the copy when no file is there.
Fresh(p) == IF there THEN remembered ELSE copy[p]

\* History: what such a method may write without having seen it, which is nothing
\* once there is a file.
Unseen(p) == IF there THEN {} ELSE behind[p]

\* save: the copy is changed first, so a write that fails leaves it changed.
\* unknown is what the process is behind with as it writes.
Save(p, base, unknown, removed, added) ==
  LET changed == removed \cup added IN
  /\ copy' = [copy EXCEPT ![p] = (base \ removed) \cup added]
  /\ \/ /\ there' = TRUE /\ remembered' = (base \ removed) \cup added
        /\ told' = (told \ removed) \cup added
        /\ behind' = [q \in Holders |-> IF q = p THEN {} ELSE behind[q] \cup changed \cup unknown]
        /\ adrift' = (adrift \cup unknown) \ changed
     \/ /\ behind' = [behind EXCEPT ![p] = unknown \cup changed]
        /\ UNCHANGED <<there, remembered, told, adrift>>

\* A method that reloads first, and one that does not.
Reloaded(p, removed, added) == Save(p, Fresh(p), Unseen(p), removed, added)
AsItIs(p, removed, added) == Save(p, copy[p], behind[p], removed, added)

FactsOf(k) == {f \in Facts : f[1] = k}

SetProfileValue(p, k, v) == Reloaded(p, FactsOf(k), {<<k, v>>})

AddNote(p, n) == n \notin Fresh(p) /\ Reloaded(p, {}, {n})

\* get_profile and dump.
GetProfile(p) ==
  /\ copy' = [copy EXCEPT ![p] = Fresh(p)]
  /\ behind' = [behind EXCEPT ![p] = Unseen(p)]
  /\ UNCHANGED <<there, remembered, told, adrift>>

SetProfileValues(p, some, v) ==
  AsItIs(p, UNION {FactsOf(k) : k \in some}, some \X {v})

AddToList(p, i) == i \notin copy[p] /\ AsItIs(p, {}, {i})

RemoveFromList(p, i) == i \in copy[p] /\ AsItIs(p, {i}, {})

ClearList(p) == copy[p] \cap Items # {} /\ AsItIs(p, Items, {})

ForgetProfileValue(p, f) == f \in copy[p] /\ AsItIs(p, {f}, {})

ForgetNotes(p, some) == some # {} /\ some \subseteq copy[p] /\ AsItIs(p, some, {})

ForgetLastNote(p) == \E n \in Notes \cap copy[p] : AsItIs(p, {n}, {})

\* The process is started again and its store loads the file.
Starts(p) ==
  /\ copy' = [copy EXCEPT ![p] = remembered]
  /\ behind' = [behind EXCEPT ![p] = {}]
  /\ UNCHANGED <<there, remembered, told, adrift>>

MemoryNext ==
  \E p \in Holders :
    \/ GetProfile(p) \/ Starts(p) \/ ClearList(p) \/ ForgetLastNote(p)
    \/ \E k \in Keys, v \in Values : SetProfileValue(p, k, v)
    \/ \E some \in SUBSET Keys, v \in Values : some # {} /\ SetProfileValues(p, some, v)
    \/ \E f \in Facts : ForgetProfileValue(p, f)
    \/ \E n \in Notes : AddNote(p, n)
    \/ \E some \in SUBSET Notes : ForgetNotes(p, some)
    \/ \E i \in Items : AddToList(p, i) \/ RemoveFromList(p, i)

MemorySpec == MemoryInit /\ [][MemoryNext]_memvars
-----------------------------------------------------------------------------
\* What a process works on differs from the file only in what it is behind with.
CopiesAgree == \A p \in Holders : SymmetricDifference(copy[p], remembered) \subseteq behind[p]

\* The file holds what the user was told it holds, but for entries that changed
\* unseen by a process which then wrote its copy by a method that does not read
\* the file first: these may be lost, or come back, and no others, and not once
\* the user is told of them anew.  A method that reads first loses nothing.
RememberedAsTold == SymmetricDifference(remembered, told) \subseteq adrift
=============================================================================
