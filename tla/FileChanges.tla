---------------------------- MODULE FileChanges ----------------------------
(***************************************************************************)
(* The tools that change the user's files: fileops.py (move, copy, rename, *)
(* delete, undo), files.py (write, convert, organize) and codefix.py (fix  *)
(* a script).  Each looks, asks with a card that may stay open for two     *)
(* minutes, and acts; and all the while the user, and other turns, change  *)
(* the same files.                                                         *)
(*                                                                         *)
(* A path holds an object or 0.  An object stands for what _identity tells *)
(* apart: the inode, the modified time and, for a copy, the contents, so   *)
(* an edit in place is another object.  A check and the call after it are  *)
(* one step where no card and no write lies between them.                  *)
(***************************************************************************)
EXTENDS Naturals, Sequences, SequencesExt

CONSTANTS
  Turns,
  Paths,
  MaxObjects,  \* bound: objects ever made
  MaxChanges,  \* bound: changes ever put into the journal
  JournalKept  \* JOURNAL_KEPT

ASSUME FileChangesAssumption ==
  MaxObjects \in Nat \ {0} /\ MaxChanges \in Nat /\ JournalKept \in Nat

Objects == 1..MaxObjects
Places == Paths \cup {"nowhere"}

VARIABLES
  posix,   \* os.rename replaces what is at its target; on Windows it raises
  tree,    \* what is at each path
  made,    \* objects so far
  journal, \* the newest changes, oldest first
  changes, \* entries ever written to the journal
  turn     \* the file operation each turn is in

filevars == <<posix, tree, made, journal, changes, turn>>

FileOperations == {"move", "copy", "rename", "delete", "organize", "write", "fix", "undo"}
Entry == [at: 0..MaxChanges, op: {"move", "copy", "delete"}, src: Paths, dst: Places, id: 0..MaxObjects]
Turn == [step: {"idle", "asking", "allowed", "changed", "backed"},
         op: FileOperations, src: Places, dst: Places, id: 0..MaxObjects, at: 0..MaxChanges]

FileChangesTypeOK ==
  /\ posix \in BOOLEAN
  /\ tree \in [Paths -> 0..MaxObjects]
  /\ made \in 0..MaxObjects
  /\ journal \in Seq(Entry) /\ Len(journal) <= JournalKept
  /\ changes \in 0..MaxChanges
  /\ turn \in [Turns -> Turn]

NoOperation == [step |-> "idle", op |-> "move", src |-> "nowhere", dst |-> "nowhere", id |-> 0, at |-> 0]

FileChangesInit ==
  /\ posix \in BOOLEAN
  /\ \E p \in Paths : tree = [q \in Paths |-> IF q = p THEN 1 ELSE 0]
  /\ made = 1
  /\ journal = <<>> /\ changes = 0
  /\ turn = [t \in Turns |-> NoOperation]

-----------------------------------------------------------------------------
Occupied(p) == tree[p] # 0
TurnAt(t, step, ops) == turn[t].step = step /\ turn[t].op \in ops
TurnGoes(t, step) == turn' = [turn EXCEPT ![t] = [turn[t] EXCEPT !.step = step]]
TurnEnds(t) == turn' = [turn EXCEPT ![t] = NoOperation]
Asks(t, op, src, dst, id, at) ==
  turn' = [turn EXCEPT ![t] =
             [step |-> "asking", op |-> op, src |-> src, dst |-> dst, id |-> id, at |-> at]]

\* The user: a new or edited file at a path, a file taken away.
UserPuts(p) ==
  /\ made < MaxObjects
  /\ made' = made + 1
  /\ tree' = [tree EXCEPT ![p] = made']
  /\ UNCHANGED <<posix, journal, changes, turn>>

UserRemoves(p) ==
  /\ Occupied(p)
  /\ tree' = [tree EXCEPT ![p] = 0]
  /\ UNCHANGED <<posix, made, journal, changes, turn>>

-----------------------------------------------------------------------------
\* move, copy, rename and organize: the destination must be free.
AskToMove(t, op, src, dst) ==
  /\ TurnAt(t, "idle", FileOperations)
  /\ op \in {"move", "copy", "rename", "organize"}
  /\ src # dst /\ Occupied(src) /\ ~Occupied(dst)
  /\ Asks(t, op, src, dst, 0, 0)
  /\ UNCHANGED <<posix, tree, made, journal, changes>>

AskToDelete(t, src) ==
  /\ TurnAt(t, "idle", FileOperations)
  /\ ~posix /\ Occupied(src)
  /\ Asks(t, "delete", src, "nowhere", 0, 0)
  /\ UNCHANGED <<posix, tree, made, journal, changes>>

\* write_text and convert say on the card whether they overwrite; a fix has
\* read the script and run it.
AskToWrite(t, op, dst) ==
  /\ TurnAt(t, "idle", FileOperations)
  /\ op = "write" \/ (op = "fix" /\ Occupied(dst))
  /\ Asks(t, op, "nowhere", dst, tree[dst], 0)
  /\ UNCHANGED <<posix, tree, made, journal, changes>>

\* The newest change, or the newest of one kind.
NewestOf(i, kinds) ==
  /\ journal[i].op \in kinds
  /\ \A j \in DOMAIN journal : j > i => journal[j].op \notin kinds

Recorded(at) == {i \in DOMAIN journal : journal[i].at = at}
Without(at) == IF Recorded(at) = {} THEN journal ELSE RemoveAt(journal, CHOOSE i \in Recorded(at) : TRUE)

\* A deletion is only taken out of the journal: Windows puts it back.
AskToUndo(t, kinds) ==
  /\ TurnAt(t, "idle", FileOperations)
  /\ \E i \in DOMAIN journal :
       LET last == journal[i] IN
         /\ NewestOf(i, kinds)
         /\ \/ /\ last.op = "delete"
               /\ journal' = Without(last.at)
               /\ UNCHANGED turn
            \/ /\ last.op # "delete"
               /\ Occupied(last.dst) /\ tree[last.dst] = last.id
               /\ last.op = "move" => ~Occupied(last.src)
               /\ last.op = "copy" => ~posix
               /\ Asks(t, "undo", IF last.op = "move" THEN last.src ELSE "nowhere", last.dst, last.id, last.at)
               /\ UNCHANGED journal
  /\ UNCHANGED <<posix, tree, made, changes>>

\* The card: allowed, or the turn ends with what it says.
Answered(t, allowed) ==
  /\ TurnAt(t, "asking", FileOperations)
  /\ IF allowed THEN TurnGoes(t, "allowed") ELSE TurnEnds(t)
  /\ UNCHANGED <<posix, tree, made, journal, changes>>

-----------------------------------------------------------------------------
\* shutil.move, and rename on POSIX, replace a file at their target.
MovedOnto(src, dst) == tree' = [tree EXCEPT ![dst] = tree[src], ![src] = 0]

\* Mutant of FreeName: what is at the destination was looked at before the card.
FreeNameAsItWas(t) == TRUE

\* Looked at again after the card; rename leaves that to the system.
FreeName(t) ==
  IF turn[t].op = "rename" THEN posix \/ ~Occupied(turn[t].dst) ELSE ~Occupied(turn[t].dst)

Move(t) ==
  /\ TurnAt(t, "allowed", {"move", "rename", "organize"})
  /\ FreeName(t) /\ Occupied(turn[t].src)
  /\ MovedOnto(turn[t].src, turn[t].dst)
  /\ IF turn[t].op = "organize" THEN TurnEnds(t) ELSE TurnGoes(t, "changed")
  /\ UNCHANGED <<posix, made, journal, changes>>

Copy(t) ==
  /\ TurnAt(t, "allowed", {"copy"})
  /\ FreeName(t) /\ Occupied(turn[t].src) /\ made < MaxObjects
  /\ made' = made + 1
  /\ tree' = [tree EXCEPT ![turn[t].dst] = made']
  /\ TurnGoes(t, "changed")
  /\ UNCHANGED <<posix, journal, changes>>

\* The recycler; it may refuse, and then nothing has happened.
Delete(t) ==
  /\ TurnAt(t, "allowed", {"delete"})
  /\ Occupied(turn[t].src)
  /\ tree' = [tree EXCEPT ![turn[t].src] = 0]
  /\ TurnGoes(t, "changed")
  /\ UNCHANGED <<posix, made, journal, changes>>

\* Mutant of Newest: the journal only grows.
AllOf(history) == history

\* history[-JOURNAL_KEPT:]
Newest(history) == IF Len(history) > JournalKept THEN Tail(history) ELSE history

\* _record, with the identity of what is at the target now.
Record(t) ==
  /\ TurnAt(t, "changed", {"move", "rename", "copy", "delete"})
  /\ changes < MaxChanges
  /\ turn[t].op # "delete" => Occupied(turn[t].dst)
  /\ LET entry == [at |-> changes + 1, op |-> IF turn[t].op = "rename" THEN "move" ELSE turn[t].op,
                   src |-> turn[t].src, dst |-> turn[t].dst,
                   id |-> IF turn[t].op = "delete" THEN 0 ELSE tree[turn[t].dst]]
     IN journal' = Newest(Append(journal, entry))
  /\ changes' = changes + 1
  /\ TurnEnds(t)
  /\ UNCHANGED <<posix, tree, made>>

\* A move goes back if its place is still free; a copy goes to the bin.
Undo(t) ==
  /\ TurnAt(t, "allowed", {"undo"})
  /\ Occupied(turn[t].dst)
  /\ IF turn[t].src = "nowhere"
     THEN tree' = [tree EXCEPT ![turn[t].dst] = 0]
     ELSE ~Occupied(turn[t].src) /\ MovedOnto(turn[t].dst, turn[t].src)
  /\ TurnGoes(t, "changed")
  /\ UNCHANGED <<posix, made, journal, changes>>

\* _drop
DropEntry(t) ==
  /\ TurnAt(t, "changed", {"undo"})
  /\ journal' = Without(turn[t].at)
  /\ TurnEnds(t)
  /\ UNCHANGED <<posix, tree, made, changes>>

\* write_text and convert do not look again.
Write(t) ==
  /\ TurnAt(t, "allowed", {"write"})
  /\ made < MaxObjects
  /\ made' = made + 1
  /\ tree' = [tree EXCEPT ![turn[t].dst] = made']
  /\ TurnEnds(t)
  /\ UNCHANGED <<posix, journal, changes>>

\* A fix goes on only while the script is the one that was read: once before
\* the old version is backed up and once after.
BackUp(t) ==
  /\ TurnAt(t, "allowed", {"fix"})
  /\ tree[turn[t].dst] = turn[t].id
  /\ TurnGoes(t, "backed")
  /\ UNCHANGED <<posix, tree, made, journal, changes>>

WriteFix(t) ==
  /\ TurnAt(t, "backed", {"fix"})
  /\ tree[turn[t].dst] = turn[t].id /\ made < MaxObjects
  /\ made' = made + 1
  /\ tree' = [tree EXCEPT ![turn[t].dst] = made']
  /\ TurnEnds(t)
  /\ UNCHANGED <<posix, journal, changes>>

\* A check after the card says no, the system raises, or the process dies:
\* a change made by then is not in the journal, or not out of it.
Gives(t) ==
  /\ turn[t].step # "idle"
  /\ TurnEnds(t)
  /\ UNCHANGED <<posix, tree, made, journal, changes>>

FileChangesNext ==
  \/ \E p \in Paths : UserPuts(p) \/ UserRemoves(p)
  \/ \E t \in Turns :
       \/ \E op \in FileOperations, p \in Paths, q \in Paths : AskToMove(t, op, p, q)
       \/ \E p \in Paths : AskToDelete(t, p) \/ AskToWrite(t, "write", p) \/ AskToWrite(t, "fix", p)
       \/ \E kinds \in {{"move"}, {"copy"}, {"move", "copy", "delete"}} : AskToUndo(t, kinds)
       \/ \E allowed \in BOOLEAN : Answered(t, allowed)
       \/ Move(t) \/ Copy(t) \/ Delete(t) \/ Record(t) \/ Undo(t) \/ DropEntry(t)
       \/ Write(t) \/ BackUp(t) \/ WriteFix(t)
       \/ Gives(t)

FileChangesSpec == FileChangesInit /\ [][FileChangesNext]_filevars
-----------------------------------------------------------------------------
\* Objects that are at a path now and at none after the step.
Gone == {tree[p] : p \in Paths} \ {tree'[p] : p \in Paths}

\* Whatever came or was edited while a card was open, a change puts nothing in
\* its place: only a write, which says that it may, and a rename on POSIX,
\* where the system replaces, take away a file but the one they are about.
NothingIsOverwritten ==
  [][\A t \in Turns, o \in Gone \ {0} : turn'[t] # turn[t] =>
       \/ turn[t].op = "write" \/ (posix /\ turn[t].op = "rename")
       \/ turn[t].op = "delete" /\ o = tree[turn[t].src]
       \/ turn[t].op = "undo" /\ turn[t].src = "nowhere" /\ o = tree[turn[t].dst]
       \/ turn[t].op = "fix" /\ o = turn[t].id]_filevars

\* Undo moves or bins the very object that the change it undoes left there
\* (_identity: "so undo never acts on something else put there since").
UndoActsOnItsOwn ==
  [][\A t \in Turns :
       TurnAt(t, "allowed", {"undo"}) /\ turn'[t] # turn[t] /\ tree' # tree =>
         tree[turn[t].dst] = turn[t].id]_filevars
=============================================================================
