----------------------------- MODULE ListsProofs -----------------------------
(***************************************************************************)
(* What MCLists checks on small instances, for every value of the          *)
(* constants: the inductive invariant of each part, the theorems about it, *)
(* and those about all parts in one behaviour.  The calendar's lemmas      *)
(* count days from the last of the month before (Eve), months from year 0  *)
(* (Start), and weeks by their quotient: an answer about a date is then a  *)
(* comparison of numbers, the same in every year.                          *)
(***************************************************************************)
EXTENDS MCLists, FiniteSetTheorems, SequenceTheorems, WellFoundedInduction, TLAPS

-----------------------------------------------------------------------------
\* Changes to files


\* What an operation that was asked for has to do with.
Bearing(u) ==
  u.step # "idle" =>
    /\ u.op \in {"move", "copy", "rename", "organize"} => u.src \in Paths /\ u.dst \in Paths /\ u.src # u.dst
    /\ u.op = "delete" => u.src \in Paths
    /\ u.op \in {"write", "fix", "undo"} => u.dst \in Paths

\* A change in the journal that left something somewhere says where.
Journalled == {e \in Entry : e.op # "delete" => e.dst \in Paths}

FilesInv ==
  /\ posix \in BOOLEAN
  /\ tree \in [Paths -> 0..MaxObjects]
  /\ made \in 0..MaxObjects
  /\ journal \in Seq(Journalled) /\ Len(journal) <= JournalKept
  /\ changes \in 0..MaxChanges
  /\ turn \in [Turns -> Turn]
  /\ \A t \in Turns : Bearing(turn[t])

LEMMA FilesShow == FilesInv => FileChangesTypeOK
<1>. SUFFICES ASSUME FilesInv PROVE FileChangesTypeOK
  OBVIOUS
<1>1. Journalled \subseteq Entry
  BY DEF Journalled
<1>2. journal \in Seq(Entry)
  BY <1>1, SeqMonotonic DEF FilesInv
<1>. QED  BY <1>2 DEF FilesInv, FileChangesTypeOK

LEMMA NoOperationFits == NoOperation \in Turn /\ NoOperation.step = "idle" /\ Bearing(NoOperation)
<1>1. NoOperation \in Turn
  BY FileChangesAssumption DEF NoOperation, Turn, Places, FileOperations
<1>. QED  BY <1>1 DEF NoOperation, Bearing

LEMMA FilesStart == FileChangesInit => FilesInv
<1>. SUFFICES ASSUME FileChangesInit PROVE FilesInv
  OBVIOUS
<1>1. 1 \in 0..MaxObjects /\ 0 \in 0..MaxObjects /\ 0 \in 0..MaxChanges
  BY FileChangesAssumption
<1>2. journal \in Seq(Journalled) /\ Len(journal) <= JournalKept
  BY FileChangesAssumption, EmptySeq DEF FileChangesInit
<1>. QED  BY <1>1, <1>2, NoOperationFits DEF FileChangesInit, FilesInv

\* The operation of one turn changes.
LEMMA OneTurn ==
  ASSUME FilesInv, NEW t \in Turns, NEW u \in Turn, Bearing(u), turn' = [turn EXCEPT ![t] = u]
  PROVE  turn' \in [Turns -> Turn] /\ \A x \in Turns : Bearing(turn[x])'
<1>1. turn' \in [Turns -> Turn] /\ turn'[t] = u /\ \A x \in Turns \ {t} : turn'[x] = turn[x]
  BY DEF FilesInv
<1>2. \A x \in Turns : Bearing(turn'[x])
  BY <1>1 DEF FilesInv
<1>. QED  BY <1>1, <1>2 DEF Bearing

LEMMA TurnEnding ==
  ASSUME FilesInv, NEW t \in Turns, TurnEnds(t)
  PROVE  turn' \in [Turns -> Turn] /\ \A x \in Turns : Bearing(turn[x])'
BY NoOperationFits, OneTurn DEF TurnEnds

LEMMA TurnGoing ==
  ASSUME FilesInv, NEW t \in Turns, turn[t].step # "idle",
         NEW s \in {"allowed", "changed", "backed"}, TurnGoes(t, s)
  PROVE  turn' \in [Turns -> Turn] /\ \A x \in Turns : Bearing(turn[x])'
<1>1. turn[t] \in Turn /\ Bearing(turn[t])
  BY DEF FilesInv
<1>2. PICK u : u = [turn[t] EXCEPT !.step = s]
  OBVIOUS
<1>3. u \in Turn /\ u.op = turn[t].op /\ u.src = turn[t].src /\ u.dst = turn[t].dst
  BY <1>1, <1>2 DEF Turn
<1>4. Bearing(u)
  BY <1>1, <1>3 DEF Bearing
<1>. QED  BY <1>2, <1>3, <1>4, OneTurn DEF TurnGoes

\* The card of an operation on these paths.
LEMMA TurnAsking ==
  ASSUME FilesInv, NEW t \in Turns, NEW op \in FileOperations, NEW src \in Places, NEW dst \in Places,
         NEW id \in 0..MaxObjects, NEW at \in 0..MaxChanges, Asks(t, op, src, dst, id, at),
         op \in {"move", "copy", "rename", "organize"} => src \in Paths /\ dst \in Paths /\ src # dst,
         op = "delete" => src \in Paths,
         op \in {"write", "fix", "undo"} => dst \in Paths
  PROVE  turn' \in [Turns -> Turn] /\ \A x \in Turns : Bearing(turn[x])'
<1>1. PICK u \in Turn : u = [step |-> "asking", op |-> op, src |-> src, dst |-> dst, id |-> id, at |-> at]
  BY DEF Turn
<1>2. Bearing(u)
  BY <1>1 DEF Bearing
<1>. QED  BY <1>1, <1>2, OneTurn DEF Asks

\* An object is put at a place, or a place is emptied.
LEMMA OnePlace ==
  ASSUME FilesInv, NEW p, NEW o \in 0..MaxObjects, tree' = [tree EXCEPT ![p] = o]
  PROVE  tree' \in [Paths -> 0..MaxObjects]
BY DEF FilesInv

LEMMA NewObject ==
  ASSUME FilesInv, made < MaxObjects, made' = made + 1
  PROVE  made' \in 0..MaxObjects
BY FileChangesAssumption DEF FilesInv

\* An entry is taken out of the journal.
LEMMA Dropping ==
  ASSUME FilesInv, NEW at PROVE Without(at) \in Seq(Journalled) /\ Len(Without(at)) <= JournalKept
<1>1. Len(journal) \in Nat /\ JournalKept \in Nat /\ DOMAIN journal = 1..Len(journal)
  BY FileChangesAssumption, LenProperties DEF FilesInv
<1>2. CASE Recorded(at) = {}
  BY <1>2 DEF Without, FilesInv
<1>3. CASE Recorded(at) # {}
  <2>1. PICK i \in 1..Len(journal) : Without(at) = RemoveAt(journal, i)
    BY <1>1, <1>3 DEF Without, Recorded
  <2>2. \A j \in 1..Len(journal) : journal[j] \in Journalled
    BY ElementOfSeq DEF FilesInv
  <2>. DEFINE older == SubSeq(journal, 1, i - 1)
              newer == SubSeq(journal, i + 1, Len(journal))
  <2>3. older \in Seq(Journalled) /\ Len(older) = i - 1
    <3>1. i - 1 \in Int /\ 1 \in Int /\ \A j \in 1..(i - 1) : journal[j] \in Journalled
      BY <1>1, <2>2
    <3>2. Len(older) = IF 1 <= i - 1 THEN i - 1 - 1 + 1 ELSE 0
      BY <3>1, SubSeqProperties
    <3>3. older \in Seq(Journalled)
      BY <3>1, SubSeqProperties
    <3>. HIDE DEF older
    <3>. QED  BY <1>1, <3>2, <3>3
  <2>4. newer \in Seq(Journalled) /\ Len(newer) = Len(journal) - i
    <3>1. i + 1 \in Int /\ Len(journal) \in Int /\ \A j \in (i + 1)..Len(journal) : journal[j] \in Journalled
      BY <1>1, <2>2
    <3>2. Len(newer) = IF i + 1 <= Len(journal) THEN Len(journal) - (i + 1) + 1 ELSE 0
      BY <3>1, SubSeqProperties
    <3>3. newer \in Seq(Journalled)
      BY <3>1, SubSeqProperties
    <3>4. Len(journal) \in Int /\ i \in Int /\ i <= Len(journal)
      BY <1>1
    <3>5. Len(newer) = Len(journal) - i
      <4>. HIDE DEF newer
      <4>1. CASE i + 1 <= Len(journal)
        BY <3>2, <3>4, <4>1
      <4>2. CASE ~(i + 1 <= Len(journal))
        BY <3>2, <3>4, <4>2
      <4>. QED  BY <4>1, <4>2
    <3>. QED  BY <3>3, <3>5
  <2>5. Without(at) = older \o newer
    BY <2>1 DEF RemoveAt
  <2>. HIDE DEF older, newer
  <2>6. Without(at) \in Seq(Journalled) /\ Len(Without(at)) = Len(older) + Len(newer)
    BY <2>3, <2>4, <2>5, ConcatProperties
  <2>. QED  BY <1>1, <2>3, <2>4, <2>6 DEF FilesInv
<1>. QED  BY <1>2, <1>3

\* And one is put in, the oldest falling out when there are too many.
LEMMA Recording ==
  ASSUME FilesInv, NEW e \in Journalled
  PROVE  Newest(Append(journal, e)) \in Seq(Journalled) /\ Len(Newest(Append(journal, e))) <= JournalKept
<1>1. Len(journal) \in Nat /\ JournalKept \in Nat /\ Len(journal) <= JournalKept
  BY FileChangesAssumption, LenProperties DEF FilesInv
<1>2. Append(journal, e) \in Seq(Journalled) /\ Len(Append(journal, e)) = Len(journal) + 1
  BY AppendProperties DEF FilesInv
<1>3. PICK s \in Seq(Journalled) : s = Append(journal, e) /\ Len(s) = Len(journal) + 1
  BY <1>2
<1>4. s # <<>>
  BY <1>1, <1>3, EmptySeq
<1>5. Tail(s) \in Seq(Journalled) /\ Len(Tail(s)) = Len(journal)
  <2>1. Tail(s) \in Seq(Journalled) /\ Len(Tail(s)) = Len(s) - 1
    BY <1>4, HeadTailProperties
  <2>. QED  BY <1>1, <1>3, <2>1
<1>. QED  BY <1>1, <1>3, <1>5 DEF Newest

LEMMA AskStep ==
  ASSUME FilesInv, NEW t \in Turns,
         \/ \E op \in FileOperations, p, q \in Paths : AskToMove(t, op, p, q)
         \/ \E p \in Paths : AskToDelete(t, p) \/ AskToWrite(t, "write", p) \/ AskToWrite(t, "fix", p)
         \/ \E allowed \in BOOLEAN : Answered(t, allowed)
         \/ Gives(t)
  PROVE  FilesInv'
<1>1. UNCHANGED <<posix, tree, made, journal, changes>>
  BY DEF AskToMove, AskToDelete, AskToWrite, Answered, Gives
<1>2. 0 \in 0..MaxObjects /\ 0 \in 0..MaxChanges /\ Paths \subseteq Places /\ "nowhere" \in Places
      /\ \A p \in Paths : tree[p] \in 0..MaxObjects
  BY FileChangesAssumption DEF Places, FilesInv
<1>3. ASSUME NEW op \in FileOperations, NEW p \in Paths, NEW q \in Paths, AskToMove(t, op, p, q)
      PROVE  turn' \in [Turns -> Turn] /\ \A x \in Turns : Bearing(turn[x])'
  BY <1>2, <1>3, TurnAsking DEF AskToMove
<1>4. ASSUME NEW p \in Paths, AskToDelete(t, p)
      PROVE  turn' \in [Turns -> Turn] /\ \A x \in Turns : Bearing(turn[x])'
  <2>1. "delete" \in FileOperations
    BY DEF FileOperations
  <2>. QED  BY <1>2, <1>4, <2>1, TurnAsking DEF AskToDelete
<1>5. ASSUME NEW op \in {"write", "fix"}, NEW p \in Paths, AskToWrite(t, op, p)
      PROVE  turn' \in [Turns -> Turn] /\ \A x \in Turns : Bearing(turn[x])'
  <2>1. op \in FileOperations
    BY DEF FileOperations
  <2>. QED  BY <1>2, <1>5, <2>1, TurnAsking DEF AskToWrite
<1>6. ASSUME NEW allowed \in BOOLEAN, Answered(t, allowed)
      PROVE  turn' \in [Turns -> Turn] /\ \A x \in Turns : Bearing(turn[x])'
  BY <1>6, TurnGoing, TurnEnding DEF Answered, TurnAt
<1>7. CASE Gives(t)
  BY <1>7, <1>1, TurnEnding DEF Gives, FilesInv
<1>. QED  BY <1>1, <1>3, <1>4, <1>5, <1>6, <1>7 DEF FilesInv

LEMMA AskToUndoStep ==
  ASSUME FilesInv, NEW t \in Turns, NEW kinds, AskToUndo(t, kinds)
  PROVE  FilesInv'
<1>1. DOMAIN journal = 1..Len(journal)
  BY LenProperties DEF FilesInv
<1>2. PICK i \in 1..Len(journal) :
        LET e == journal[i] IN
           \/ /\ journal' = Without(e.at)
              /\ UNCHANGED turn
           \/ /\ e.op # "delete"
              /\ Asks(t, "undo", IF e.op = "move" THEN e.src ELSE "nowhere", e.dst, e.id, e.at)
              /\ UNCHANGED journal
  BY <1>1 DEF AskToUndo
<1>3. PICK e \in Journalled : e = journal[i]
  BY <1>2, ElementOfSeq DEF FilesInv
<1>4. UNCHANGED <<posix, tree, made, changes>>
  BY DEF AskToUndo
<1>5. CASE journal' = Without(e.at) /\ UNCHANGED turn
  <2>1. journal' \in Seq(Journalled) /\ Len(journal') <= JournalKept
    BY <1>5, Dropping
  <2>. QED  BY <1>4, <1>5, <2>1 DEF FilesInv, Bearing
<1>6. CASE /\ e.op # "delete"
           /\ Asks(t, "undo", IF e.op = "move" THEN e.src ELSE "nowhere", e.dst, e.id, e.at)
           /\ UNCHANGED journal
  <2>1. PICK src \in Places : src = IF e.op = "move" THEN e.src ELSE "nowhere"
    BY <1>3 DEF Journalled, Entry, Places
  <2>2. PICK dst \in Places, id \in 0..MaxObjects, at \in 0..MaxChanges : dst = e.dst /\ id = e.id /\ at = e.at
    BY <1>3 DEF Journalled, Entry
  <2>3. dst \in Paths
    BY <1>3, <1>6, <2>2 DEF Journalled
  <2>4. Asks(t, "undo", src, dst, id, at) /\ "undo" \in FileOperations
    BY <1>6, <2>1, <2>2 DEF FileOperations
  <2>5. turn' \in [Turns -> Turn] /\ \A x \in Turns : Bearing(turn[x])'
    BY <2>3, <2>4, TurnAsking
  <2>. QED  BY <1>4, <1>6, <2>5 DEF FilesInv
<1>. QED  BY <1>2, <1>3, <1>5, <1>6

LEMMA MoveStep == ASSUME FilesInv, NEW t \in Turns, Move(t) \/ Undo(t) PROVE FilesInv'
<1>1. /\ turn[t].step = "allowed" /\ UNCHANGED <<posix, made, journal, changes>>
      /\ turn[t] \in Turn /\ 0 \in 0..MaxObjects
  BY FileChangesAssumption DEF Move, Undo, TurnAt, FilesInv
<1>2. turn' \in [Turns -> Turn] /\ \A x \in Turns : Bearing(turn[x])'
  BY <1>1, TurnGoing, TurnEnding DEF Move, Undo
<1>3. ASSUME NEW p \in Paths, NEW q, MovedOnto(p, q) PROVE tree' \in [Paths -> 0..MaxObjects]
  BY <1>1, <1>3 DEF MovedOnto, FilesInv
<1>4. CASE Move(t)
  <2>1. turn[t].src \in Paths /\ MovedOnto(turn[t].src, turn[t].dst)
    BY <1>4, <1>1 DEF Move, TurnAt, FilesInv, Bearing
  <2>. QED  BY <1>1, <1>2, <1>3, <2>1 DEF FilesInv
<1>5. CASE Undo(t)
  <2>1. turn[t].dst \in Paths
    BY <1>5, <1>1 DEF Undo, TurnAt, FilesInv, Bearing
  <2>2. tree' \in [Paths -> 0..MaxObjects]
    BY <1>1, <1>3, <1>5, <2>1, OnePlace DEF Undo
  <2>. QED  BY <1>1, <1>2, <2>2 DEF FilesInv
<1>. QED  BY <1>4, <1>5

LEMMA PutStep ==
  ASSUME FilesInv, NEW t \in Turns, Copy(t) \/ Delete(t) \/ Write(t) \/ WriteFix(t) \/ BackUp(t) PROVE FilesInv'
<1>1. /\ turn[t].step # "idle" /\ UNCHANGED <<posix, journal, changes>>
  BY DEF Copy, Delete, Write, WriteFix, BackUp, TurnAt
<1>2. turn' \in [Turns -> Turn] /\ \A x \in Turns : Bearing(turn[x])'
  BY <1>1, TurnGoing, TurnEnding DEF Copy, Delete, Write, WriteFix, BackUp
<1>3. made' \in 0..MaxObjects
  BY NewObject DEF Copy, Delete, Write, WriteFix, BackUp, FilesInv
<1>4. tree' \in [Paths -> 0..MaxObjects]
  BY <1>3, FileChangesAssumption DEF Copy, Delete, Write, WriteFix, BackUp, FilesInv
<1>. QED  BY <1>1, <1>2, <1>3, <1>4 DEF FilesInv

LEMMA JournalStep == ASSUME FilesInv, NEW t \in Turns, Record(t) \/ DropEntry(t) PROVE FilesInv'
<1>1. turn' \in [Turns -> Turn] /\ \A x \in Turns : Bearing(turn[x])'
  BY TurnEnding DEF Record, DropEntry
<1>2. CASE DropEntry(t)
  <2>1. journal' \in Seq(Journalled) /\ Len(journal') <= JournalKept
    BY <1>2, Dropping DEF DropEntry
  <2>. QED  BY <1>1, <1>2, <2>1 DEF DropEntry, FilesInv
<1>3. CASE Record(t)
  <2>1. /\ turn[t].step = "changed" /\ turn[t].op \in {"move", "rename", "copy", "delete"}
        /\ turn[t] \in Turn /\ Bearing(turn[t]) /\ changes \in 0..MaxChanges /\ MaxChanges \in Nat
        /\ changes < MaxChanges /\ changes' = changes + 1 /\ UNCHANGED <<posix, tree, made>>
    BY <1>3, FileChangesAssumption DEF Record, TurnAt, FilesInv
  <2>2. changes' \in 0..MaxChanges /\ 0 \in 0..MaxObjects
    BY <2>1, FileChangesAssumption
  <2>3. turn[t].src \in Paths /\ (turn[t].op # "delete" => turn[t].dst \in Paths) /\ turn[t].dst \in Places
    BY <2>1 DEF Bearing, Turn
  <2>4. PICK op \in {"move", "copy", "delete"} :
          op = (IF turn[t].op = "rename" THEN "move" ELSE turn[t].op) /\ (op = "delete" <=> turn[t].op = "delete")
    BY <2>1
  <2>5. PICK id \in 0..MaxObjects : id = IF turn[t].op = "delete" THEN 0 ELSE tree[turn[t].dst]
    BY <2>1, <2>2, <2>3 DEF FilesInv
  <2>6. PICK e : e = [at |-> changes + 1, op |-> op, src |-> turn[t].src, dst |-> turn[t].dst, id |-> id]
    OBVIOUS
  <2>7. e \in Journalled
    BY <2>1, <2>2, <2>3, <2>4, <2>6 DEF Journalled, Entry
  <2>8. journal' = Newest(Append(journal, e))
    BY <1>3, <2>4, <2>5, <2>6 DEF Record
  <2>9. journal' \in Seq(Journalled) /\ Len(journal') <= JournalKept
    BY <2>7, <2>8, Recording
  <2>. QED  BY <1>1, <2>1, <2>2, <2>9 DEF FilesInv
<1>. QED  BY <1>2, <1>3

LEMMA FilesStep == ASSUME FilesInv, [FileChangesNext]_filevars PROVE FilesInv'
<1>1. CASE UNCHANGED filevars
  BY <1>1 DEF filevars, FilesInv, Bearing
<1>2. ASSUME NEW p \in Paths, UserPuts(p) \/ UserRemoves(p) PROVE FilesInv'
  <2>1. made' \in 0..MaxObjects /\ 0 \in 0..MaxObjects
    BY <1>2, NewObject, FileChangesAssumption DEF UserPuts, UserRemoves, FilesInv
  <2>2. tree' \in [Paths -> 0..MaxObjects]
    BY <1>2, <2>1, OnePlace DEF UserPuts, UserRemoves
  <2>. QED  BY <1>2, <2>1, <2>2 DEF UserPuts, UserRemoves, FilesInv, Bearing
<1>. QED  BY <1>1, <1>2, AskStep, AskToUndoStep, MoveStep, PutStep, JournalStep DEF FileChangesNext

\* The objects that a step of an operation takes away are its own.
LEMMA FilesAreLeft ==
  ASSUME FilesInv, [FileChangesNext]_filevars, NEW t \in Turns, NEW o \in Gone \ {0}, turn'[t] # turn[t]
  PROVE  \/ turn[t].op = "write" \/ (posix /\ turn[t].op = "rename")
         \/ turn[t].op = "delete" /\ o = tree[turn[t].src]
         \/ turn[t].op = "undo" /\ turn[t].src = "nowhere" /\ o = tree[turn[t].dst]
         \/ turn[t].op = "fix" /\ o = turn[t].id
<1>1. PICK p \in Paths : o = tree[p] /\ o # 0 /\ \A q \in Paths : tree'[q] # o
  BY DEF Gone
<1>2. tree' # tree /\ turn' # turn
  BY <1>1
<1>3. PICK u \in Turns : Move(u) \/ Copy(u) \/ Delete(u) \/ Undo(u) \/ Write(u) \/ WriteFix(u)
  BY <1>2 DEF FileChangesNext, filevars, UserPuts, UserRemoves, AskToMove, AskToDelete, AskToWrite, AskToUndo,
              Answered, Record, DropEntry, BackUp, Gives
<1>4. u = t
  BY <1>3 DEF Move, Copy, Delete, Undo, Write, WriteFix, TurnGoes, TurnEnds, FilesInv
<1>5. /\ turn[t].step # "idle" /\ turn[t] \in Turn /\ Bearing(turn[t]) /\ tree \in [Paths -> 0..MaxObjects]
  BY <1>3, <1>4 DEF Move, Copy, Delete, Undo, Write, WriteFix, TurnAt, FilesInv
<1>6. ASSUME NEW src \in Paths, NEW dst \in Paths, src # dst, MovedOnto(src, dst) PROVE o = tree[dst]
  <2>1. /\ tree'[dst] = tree[src] /\ \A q \in Paths \ {src, dst} : tree'[q] = tree[q]
    BY <1>5, <1>6 DEF MovedOnto
  <2>. QED  BY <1>1, <1>6, <2>1
<1>7. CASE Move(t)
  <2>1. /\ turn[t].src \in Paths /\ turn[t].dst \in Paths /\ turn[t].src # turn[t].dst
        /\ MovedOnto(turn[t].src, turn[t].dst) /\ FreeName(t)
    BY <1>5, <1>7 DEF Move, TurnAt, Bearing
  <2>2. o = tree[turn[t].dst]
    BY <1>6, <2>1
  <2>. QED  BY <1>1, <2>1, <2>2 DEF FreeName, Occupied
<1>8. CASE Copy(t)
  <2>1. /\ turn[t].op = "copy" /\ FreeName(t) /\ \A q \in Paths \ {turn[t].dst} : tree'[q] = tree[q]
    BY <1>5, <1>8 DEF Copy, TurnAt
  <2>. QED  BY <1>1, <2>1 DEF FreeName, Occupied
<1>9. CASE Delete(t)
  <2>1. turn[t].op = "delete" /\ \A q \in Paths \ {turn[t].src} : tree'[q] = tree[q]
    BY <1>5, <1>9 DEF Delete, TurnAt
  <2>. QED  BY <1>1, <2>1
<1>10. CASE Write(t)
  BY <1>10 DEF Write, TurnAt
<1>11. CASE WriteFix(t)
  <2>1. /\ turn[t].op = "fix" /\ tree[turn[t].dst] = turn[t].id
        /\ \A q \in Paths \ {turn[t].dst} : tree'[q] = tree[q]
    BY <1>5, <1>11 DEF WriteFix, TurnAt
  <2>. QED  BY <1>1, <2>1
<1>12. CASE Undo(t)
  <2>1. turn[t].op = "undo" /\ turn[t].dst \in Paths /\ Occupied(turn[t].dst)
    BY <1>5, <1>12 DEF Undo, TurnAt, Bearing
  <2>2. CASE turn[t].src = "nowhere"
    <3>1. \A q \in Paths \ {turn[t].dst} : tree'[q] = tree[q]
      BY <1>5, <1>12, <2>2 DEF Undo
    <3>. QED  BY <1>1, <2>1, <2>2, <3>1
  <2>3. CASE turn[t].src # "nowhere"
    <3>1. ~Occupied(turn[t].src) /\ MovedOnto(turn[t].dst, turn[t].src) /\ turn[t].src \in Paths
      BY <1>5, <1>12, <2>3 DEF Undo, Turn, Places
    <3>2. o = tree[turn[t].src]
      BY <1>6, <2>1, <3>1 DEF Occupied
    <3>. QED  BY <1>1, <3>1, <3>2 DEF Occupied
  <2>. QED  BY <2>2, <2>3
<1>. QED  BY <1>3, <1>4, <1>7, <1>8, <1>9, <1>10, <1>11, <1>12
-----------------------------------------------------------------------------
\* Project folders


AMaker == [step: {"idle", "asking", "allowed", "filling"}, name: 0..MaxFolders, next: 1..(PlannedFiles + 1)]

\* A turn that fills a folder fills its own, unless that was removed.
FillsItsOwn(m) ==
  maker[m].step = "filling" =>
    maker[m].name \in NameNumbers /\ (m \notin robbed => folder[maker[m].name].of = m)

WorkspacesInv == WorkspacesTypeOK /\ \A m \in Makers : FillsItsOwn(m)

LEMMA WorkTypes ==
  ASSUME WorkspacesInv
  PROVE  /\ MaxFolders \in Nat /\ PlannedFiles \in Nat /\ {"user", "none"} \cap Makers = {}
         /\ maker \in [Makers -> AMaker] /\ folder \in [NameNumbers -> NewFolder]
         /\ robbed \subseteq {m \in Makers : maker[m].step = "filling"}
         /\ NotMaking \in AMaker /\ NotMaking.step = "idle"
         /\ NoFolder \in NewFolder /\ NoFolder.of = "none"
         /\ \A s \in {"asking", "allowed"} : /\ [NotMaking EXCEPT !.step = s] \in AMaker
                                             /\ [NotMaking EXCEPT !.step = s].step = s
         /\ \A of \in Makers \cup {"user"} : /\ [NoFolder EXCEPT !.of = of] \in NewFolder
                                             /\ [NoFolder EXCEPT !.of = of].of = of
<1>1. [i \in 1..PlannedFiles |-> "none"] \in [1..PlannedFiles -> Makers \cup {"none"}]
  OBVIOUS
<1>2. /\ NoFolder \in NewFolder /\ NoFolder.of = "none"
      /\ \A of \in Makers \cup {"user"} : /\ [NoFolder EXCEPT !.of = of] \in NewFolder
                                          /\ [NoFolder EXCEPT !.of = of].of = of
  BY <1>1 DEF NewFolder, NoFolder
<1>3. /\ NotMaking \in AMaker /\ NotMaking.step = "idle"
      /\ \A s \in {"asking", "allowed"} : /\ [NotMaking EXCEPT !.step = s] \in AMaker
                                          /\ [NotMaking EXCEPT !.step = s].step = s
  BY WorkspacesAssumption DEF AMaker, NotMaking
<1>. QED  BY <1>2, <1>3, WorkspacesAssumption DEF WorkspacesInv, WorkspacesTypeOK, AMaker

LEMMA WorkAgain ==
  ASSUME maker \in [Makers -> AMaker], folder \in [NameNumbers -> NewFolder],
         robbed \subseteq {m \in Makers : maker[m].step = "filling"}, \A m \in Makers : FillsItsOwn(m)
  PROVE  WorkspacesInv
BY DEF WorkspacesInv, WorkspacesTypeOK, AMaker

LEMMA WorkspacesStart == WorkspacesInit => WorkspacesInv
<1>. SUFFICES ASSUME WorkspacesInit PROVE WorkspacesInv
  OBVIOUS
<1>1. /\ NotMaking \in AMaker /\ NotMaking.step = "idle" /\ NoFolder \in NewFolder
  BY WorkspacesAssumption DEF AMaker, NewFolder, NotMaking, NoFolder
<1>. QED  BY <1>1, WorkAgain DEF WorkspacesInit, FillsItsOwn

\* Only the turn changes, and it does not start to fill.
LEMMA MakerMoves ==
  ASSUME WorkspacesInv, NEW m \in Makers, NEW q \in AMaker, maker' = [maker EXCEPT ![m] = q], UNCHANGED folder,
         q.step # "filling", robbed' = robbed \ {m}
  PROVE  WorkspacesInv'
<1>1. /\ maker' \in [Makers -> AMaker] /\ maker'[m] = q
      /\ \A k \in Makers \ {m} : maker'[k] = maker[k]
  BY WorkTypes
<1>2. folder' \in [NameNumbers -> NewFolder] /\ folder' = folder
  BY WorkTypes
<1>3. ASSUME NEW k \in Makers PROVE FillsItsOwn(k)'
  BY <1>1, <1>2 DEF WorkspacesInv, FillsItsOwn
<1>4. robbed' \subseteq {k \in Makers : maker'[k].step = "filling"}
  BY <1>1, WorkTypes
<1>. QED  BY <1>1, <1>2, <1>3, <1>4, WorkAgain DEF WorkspacesInv, WorkspacesTypeOK, AMaker

\* One folder changes, and the turns that lose theirs by it, but the one that does it, were
\* robbed or are now.
LEMMA FolderStep ==
  ASSUME WorkspacesInv, NEW n \in NameNumbers, NEW f \in NewFolder, folder' = [folder EXCEPT ![n] = f],
         NEW m \in Makers, NEW q \in AMaker, maker' = [maker EXCEPT ![m] = q],
         q.step = "filling" => q.name \in NameNumbers /\ (m \notin robbed' => q.name = n /\ f.of = m),
         robbed' \subseteq {k \in Makers : maker'[k].step = "filling"},
         robbed \ {m} \subseteq robbed',
         \A k \in Fillers(n) : k = m \/ k \in robbed' \/ f.of = folder[n].of
  PROVE  WorkspacesInv'
<1>1. /\ maker' \in [Makers -> AMaker] /\ maker'[m] = q
      /\ \A k \in Makers \ {m} : maker'[k] = maker[k]
      /\ folder' \in [NameNumbers -> NewFolder] /\ folder'[n] = f
      /\ \A k \in NameNumbers \ {n} : folder'[k] = folder[k]
  BY WorkTypes
<1>2. FillsItsOwn(m)'
  BY <1>1 DEF FillsItsOwn
<1>3. ASSUME NEW k \in Makers, k # m, maker[k].step = "filling"
      PROVE  maker[k].name \in NameNumbers /\ (k \notin robbed' => folder'[maker[k].name].of = k)
  <2>1. maker[k].name \in NameNumbers /\ (k \notin robbed => folder[maker[k].name].of = k)
    BY <1>3 DEF WorkspacesInv, FillsItsOwn
  <2>2. CASE maker[k].name # n
    BY <1>1, <1>3, <2>1, <2>2
  <2>3. CASE maker[k].name = n
    BY <1>1, <1>3, <2>1, <2>3 DEF Fillers
  <2>. QED  BY <2>2, <2>3
<1>4. ASSUME NEW k \in Makers PROVE FillsItsOwn(k)'
  BY <1>1, <1>2, <1>3 DEF FillsItsOwn
<1>. QED  BY <1>1, <1>4, WorkAgain DEF WorkspacesInv, WorkspacesTypeOK, AMaker

\* The user makes a folder, or takes one from the turns that fill it.
LEMMA UsersFolderStep ==
  ASSUME WorkspacesInv, NEW n \in NameNumbers, UserMakesFolder(n) \/ UserRemovesFolder(n)
  PROVE  WorkspacesInv'
<1>1. PICK f \in NewFolder : folder' = [folder EXCEPT ![n] = f]
  BY WorkTypes DEF UserMakesFolder, UserRemovesFolder
<1>2. /\ maker' = maker /\ maker' \in [Makers -> AMaker]
      /\ folder' \in [NameNumbers -> NewFolder]
      /\ \A k \in NameNumbers \ {n} : folder'[k] = folder[k]
      /\ robbed \subseteq robbed' /\ robbed' \subseteq {k \in Makers : maker'[k].step = "filling"}
  BY <1>1, WorkTypes DEF UserMakesFolder, UserRemovesFolder, Fillers
<1>3. ASSUME NEW k \in Makers PROVE FillsItsOwn(k)'
  <2>1. FillsItsOwn(k) /\ k # "none"
    BY WorkTypes DEF WorkspacesInv
  <2>2. maker[k].step = "filling" /\ k \notin robbed' => maker[k].name # n
    BY <1>2, <2>1 DEF UserMakesFolder, UserRemovesFolder, FillsItsOwn, Taken, Fillers
  <2>. QED  BY <1>2, <2>1, <2>2 DEF FillsItsOwn
<1>. QED  BY <1>2, <1>3, WorkAgain DEF WorkspacesInv, WorkspacesTypeOK, AMaker

LEMMA ClaimStep == ASSUME WorkspacesInv, NEW m \in Makers, Claim(m) PROVE WorkspacesInv'
<1>1. PICK n \in NameNumbers :
        /\ ~Taken(n)
        /\ folder' = [folder EXCEPT ![n] = [NoFolder EXCEPT !.of = m]]
        /\ maker' = [maker EXCEPT ![m] = [step |-> "filling", name |-> n, next |-> 1]]
  BY DEF Claim, Claimable
<1>2. [step |-> "filling", name |-> n, next |-> 1] \in AMaker
  BY WorkTypes DEF AMaker, NameNumbers
<1>3. [NoFolder EXCEPT !.of = m] \in NewFolder /\ [NoFolder EXCEPT !.of = m].of = m
  BY WorkTypes
<1>4. maker[m].step = "allowed" /\ robbed' = robbed
  BY DEF Claim, MakerAt
<1>5. robbed' \subseteq {k \in Makers : maker'[k].step = "filling"}
  BY <1>1, <1>4, WorkTypes
<1>6. \A k \in Fillers(n) : k \in robbed'
  BY <1>1, <1>4, WorkTypes DEF Fillers, WorkspacesInv, FillsItsOwn, Taken
<1>. QED  BY <1>1, <1>2, <1>3, <1>4, <1>5, <1>6, FolderStep

LEMMA WriteFileStep == ASSUME WorkspacesInv, NEW m \in Makers, WriteFile(m) PROVE WorkspacesInv'
<1>1. /\ maker[m].step = "filling" /\ maker[m].next <= PlannedFiles /\ maker[m] \in AMaker
      /\ maker[m].name \in NameNumbers /\ (m \notin robbed => folder[maker[m].name].of = m)
  BY WorkTypes DEF WriteFile, MakerAt, WorkspacesInv, FillsItsOwn
<1>2. PICK n \in NameNumbers : n = maker[m].name
  BY <1>1
<1>3. maker[m].next \in 1..(PlannedFiles + 1) /\ PlannedFiles \in Nat
  BY <1>1, WorkTypes DEF AMaker
<1>4. PICK i \in 1..PlannedFiles : i = maker[m].next
  BY <1>1, <1>3
<1>5. PICK f : f = [of |-> IF Taken(n) THEN folder[n].of ELSE m, files |-> [folder[n].files EXCEPT ![i] = m]]
  OBVIOUS
<1>6. folder[n] \in NewFolder
  BY WorkTypes
<1>7. f \in NewFolder /\ (m \notin robbed => f.of = m) /\ (f.of = folder[n].of \/ ~Taken(n))
  <2>1. [folder[n].files EXCEPT ![i] = m] \in [1..PlannedFiles -> Makers \cup {"none"}]
    BY <1>6 DEF NewFolder
  <2>2. f.of \in Makers \cup {"user", "none"}
    BY <1>5, <1>6 DEF NewFolder
  <2>. QED  BY <1>1, <1>2, <1>5, <2>1, <2>2 DEF NewFolder
<1>8. folder' = [folder EXCEPT ![n] = f]
  BY <1>2, <1>4, <1>5 DEF WriteFile
<1>9. maker[m].next + 1 \in 1..(PlannedFiles + 1)
  BY <1>1, <1>3
<1>10. PICK q : q = [maker[m] EXCEPT !.next = maker[m].next + 1]
  OBVIOUS
<1>11. q \in AMaker /\ q.step = "filling" /\ q.name = n
  BY <1>1, <1>2, <1>9, <1>10 DEF AMaker
<1>12. maker' = [maker EXCEPT ![m] = q] /\ robbed' = robbed
  BY <1>10 DEF WriteFile
<1>13. robbed' \subseteq {k \in Makers : maker'[k].step = "filling"}
  BY <1>11, <1>12, WorkTypes
<1>14. ~Taken(n) => \A k \in Fillers(n) : k \in robbed'
  BY <1>12, WorkTypes DEF Fillers, WorkspacesInv, FillsItsOwn, Taken
<1>. QED  BY <1>7, <1>8, <1>11, <1>12, <1>13, <1>14, FolderStep

LEMMA CreateFailsStep == ASSUME WorkspacesInv, NEW m \in Makers, CreateFails(m) PROVE WorkspacesInv'
<1>1. maker[m].step = "filling" /\ maker[m].name \in NameNumbers
  BY DEF CreateFails, MakerAt, WorkspacesInv, FillsItsOwn
<1>2. PICK n \in NameNumbers : n = maker[m].name
  BY <1>1
<1>3. /\ folder' = [folder EXCEPT ![n] = NoFolder] /\ maker' = [maker EXCEPT ![m] = NotMaking]
      /\ robbed' = (robbed \cup Fillers(n)) \ {m}
  BY <1>2 DEF CreateFails
<1>4. robbed' \subseteq {k \in Makers : maker'[k].step = "filling"}
  BY <1>3, WorkTypes DEF Fillers
<1>5. \A k \in Fillers(n) : k = m \/ k \in robbed'
  BY <1>3
<1>6. NotMaking.step # "filling"
  BY WorkTypes
<1>. QED  BY <1>3, <1>4, <1>5, <1>6, WorkTypes, FolderStep

LEMMA WorkspacesStep == ASSUME WorkspacesInv, [WorkspacesNext]_wsvars PROVE WorkspacesInv'
<1>1. CASE UNCHANGED wsvars
  BY <1>1 DEF wsvars, WorkspacesInv, WorkspacesTypeOK, FillsItsOwn
<1>2. ASSUME NEW m \in Makers, AskToCreate(m) \/ CreateAllowed(m) PROVE WorkspacesInv'
  <2>1. robbed' = robbed \ {m}
    BY <1>2, WorkTypes DEF AskToCreate, CreateAllowed, MakerAt
  <2>. QED  BY <1>2, <2>1, WorkTypes, MakerMoves DEF AskToCreate, CreateAllowed
<1>3. ASSUME NEW m \in Makers, Created(m) \/ CreateStops(m) PROVE WorkspacesInv'
  BY <1>3, WorkTypes, MakerMoves DEF Created, CreateStops
<1>. QED  BY <1>1, <1>2, <1>3, UsersFolderStep, ClaimStep, WriteFileStep, CreateFailsStep DEF WorkspacesNext

\* Every step of a turn that was not robbed leaves the folders of the others as they are.
LEMMA FoldersAreLeft ==
  ASSUME WorkspacesInv, [WorkspacesNext]_wsvars, NEW n \in NameNumbers, NEW m \in Makers,
         folder'[n] # folder[n], maker'[m] # maker[m]
  PROVE  folder[n].of \in {m, "none"} \/ m \in robbed
<1>1. PICK k \in Makers : Claim(k) \/ WriteFile(k) \/ CreateFails(k)
  BY DEF WorkspacesNext, wsvars, UserMakesFolder, UserRemovesFolder, AskToCreate, CreateAllowed, Created,
         CreateStops
<1>2. k = m
  BY <1>1, WorkTypes DEF Claim, WriteFile, CreateFails
<1>3. CASE Claim(m)
  BY <1>3, WorkTypes DEF Claim, Claimable, Taken
<1>4. CASE WriteFile(m) \/ CreateFails(m)
  <2>1. maker[m].name \in NameNumbers /\ (m \notin robbed => folder[maker[m].name].of = m)
    BY <1>4 DEF WriteFile, CreateFails, MakerAt, WorkspacesInv, FillsItsOwn
  <2>2. PICK f : folder' = [folder EXCEPT ![maker[m].name] = f]
    BY <1>4 DEF WriteFile, CreateFails
  <2>. QED  BY <2>1, <2>2, WorkTypes
<1>. QED  BY <1>1, <1>2, <1>3, <1>4
-----------------------------------------------------------------------------
\* Memory


MemoryInv == MemoryTypeOK /\ CopiesAgree /\ RememberedAsTold

\* A save that starts from what differs from the file only in what it is said to be unaware
\* of: it leaves every other entry as the user was told it is.
LEMMA SaveStep ==
  ASSUME MemoryInv, NEW p \in Holders, NEW base \in SUBSET Entries, NEW unknown \in SUBSET Entries,
         SymmetricDifference(base, remembered) \subseteq unknown,
         NEW removed \in SUBSET Entries, NEW new \in SUBSET Entries, Save(p, base, unknown, removed, new)
  PROVE  MemoryInv'
<1>. DEFINE changed == removed \cup new
<1>1. /\ copy \in [Holders -> SUBSET Entries] /\ behind \in [Holders -> SUBSET Entries]
      /\ remembered \subseteq Entries /\ told \subseteq Entries /\ adrift \subseteq Entries
      /\ there \in BOOLEAN /\ changed \subseteq Entries
  BY DEF MemoryInv, MemoryTypeOK
<1>2. /\ copy' \in [Holders -> SUBSET Entries] /\ copy'[p] = (base \ removed) \cup new
      /\ \A q \in Holders \ {p} : copy'[q] = copy[q]
  BY <1>1 DEF Save
<1>3. /\ \A q \in Holders : SymmetricDifference(copy[q], remembered) \subseteq behind[q]
      /\ SymmetricDifference(remembered, told) \subseteq adrift
  BY DEF MemoryInv, CopiesAgree, RememberedAsTold
<1>4. CASE /\ behind' = [behind EXCEPT ![p] = unknown \cup changed]
           /\ UNCHANGED <<there, remembered, told, adrift>>
  <2>1. /\ behind' \in [Holders -> SUBSET Entries] /\ behind'[p] = unknown \cup changed
        /\ \A q \in Holders \ {p} : behind'[q] = behind[q]
    BY <1>1, <1>4
  <2>2. SymmetricDifference(copy'[p], remembered') \subseteq behind'[p]
    BY <1>2, <1>4, <2>1 DEF SymmetricDifference
  <2>3. CopiesAgree'
    BY <1>2, <1>3, <1>4, <2>1, <2>2 DEF CopiesAgree
  <2>. QED  BY <1>1, <1>2, <1>3, <1>4, <2>1, <2>3 DEF MemoryInv, MemoryTypeOK, RememberedAsTold
<1>5. CASE /\ there' = TRUE /\ remembered' = (base \ removed) \cup new
           /\ told' = (told \ removed) \cup new
           /\ behind' = [q \in Holders |-> IF q = p THEN {} ELSE behind[q] \cup changed \cup unknown]
           /\ adrift' = (adrift \cup unknown) \ changed
  <2>1. MemoryTypeOK'
    BY <1>1, <1>2, <1>5 DEF MemoryTypeOK
  <2>2. CopiesAgree'
    <3>1. ASSUME NEW q \in Holders, q # p
          PROVE  SymmetricDifference(copy'[q], remembered') \subseteq behind'[q]
      <4>1. copy'[q] = copy[q] /\ behind'[q] = behind[q] \cup changed \cup unknown
        BY <1>2, <1>5, <3>1
      <4>2. SymmetricDifference(copy[q], remembered) \subseteq behind[q]
        BY <1>3
      <4>. QED  BY <1>5, <4>1, <4>2 DEF SymmetricDifference
    <3>2. SymmetricDifference(copy'[p], remembered') = {}
      BY <1>2, <1>5 DEF SymmetricDifference
    <3>. QED  BY <3>1, <3>2 DEF CopiesAgree
  <2>3. RememberedAsTold'
    BY <1>3, <1>5 DEF RememberedAsTold, SymmetricDifference
  <2>. QED  BY <2>1, <2>2, <2>3 DEF MemoryInv
<1>. QED  BY <1>4, <1>5 DEF Save

\* What a method that reloads, and one that does not, is unaware of is what it is said to be.
LEMMA Unaware ==
  ASSUME MemoryInv, NEW p \in Holders
  PROVE  /\ Fresh(p) \in SUBSET Entries /\ Unseen(p) \in SUBSET Entries
         /\ SymmetricDifference(Fresh(p), remembered) \subseteq Unseen(p)
         /\ copy[p] \in SUBSET Entries /\ behind[p] \in SUBSET Entries
         /\ SymmetricDifference(copy[p], remembered) \subseteq behind[p]
BY DEF MemoryInv, MemoryTypeOK, CopiesAgree, Fresh, Unseen, SymmetricDifference

LEMMA ReloadedStep ==
  ASSUME MemoryInv, NEW p \in Holders, NEW removed \in SUBSET Entries, NEW new \in SUBSET Entries,
         Reloaded(p, removed, new) \/ AsItIs(p, removed, new)
  PROVE  MemoryInv'
BY Unaware, SaveStep DEF Reloaded, AsItIs

\* A process reads the file, or finds none.
LEMMA ReadStep ==
  ASSUME MemoryInv, NEW p \in Holders, NEW base \in SUBSET Entries, NEW unknown \in SUBSET Entries,
         SymmetricDifference(base, remembered) \subseteq unknown,
         copy' = [copy EXCEPT ![p] = base], behind' = [behind EXCEPT ![p] = unknown],
         UNCHANGED <<there, remembered, told, adrift>>
  PROVE  MemoryInv'
<1>1. /\ copy' \in [Holders -> SUBSET Entries] /\ behind' \in [Holders -> SUBSET Entries]
      /\ copy'[p] = base /\ behind'[p] = unknown
      /\ \A q \in Holders \ {p} : copy'[q] = copy[q] /\ behind'[q] = behind[q]
  BY DEF MemoryInv, MemoryTypeOK
<1>2. CopiesAgree'
  BY <1>1 DEF MemoryInv, CopiesAgree, SymmetricDifference
<1>3. MemoryTypeOK' /\ RememberedAsTold'
  BY <1>1 DEF MemoryInv, MemoryTypeOK, RememberedAsTold, SymmetricDifference
<1>. QED  BY <1>2, <1>3 DEF MemoryInv

LEMMA MemoryStarts == MemoryInit => MemoryInv
BY DEF MemoryInit, MemoryInv, MemoryTypeOK, CopiesAgree, RememberedAsTold, SymmetricDifference

LEMMA MemoryStep == ASSUME MemoryInv, [MemoryNext]_memvars PROVE MemoryInv'
<1>1. /\ remembered \in SUBSET Entries /\ \A p \in Holders : copy[p] \in SUBSET Entries
      /\ Facts \in SUBSET Entries /\ Notes \in SUBSET Entries /\ Items \in SUBSET Entries
      /\ {} \in SUBSET Entries /\ \A e \in Entries : {e} \in SUBSET Entries
      /\ \A k \in Keys : FactsOf(k) \in SUBSET Entries
      /\ \A some \in SUBSET Keys : UNION {FactsOf(k) : k \in some} \in SUBSET Entries
  BY DEF MemoryInv, MemoryTypeOK, Entries, FactsOf
<1>2. CASE UNCHANGED memvars
  BY <1>2 DEF memvars, MemoryInv, MemoryTypeOK, CopiesAgree, RememberedAsTold, SymmetricDifference
<1>3. ASSUME NEW p \in Holders, GetProfile(p) \/ Starts(p) PROVE MemoryInv'
  <2>1. SymmetricDifference(remembered, remembered) \subseteq {}
    BY DEF SymmetricDifference
  <2>. QED  BY <1>1, <1>3, <2>1, Unaware, ReadStep DEF GetProfile, Starts
<1>4. ASSUME NEW p \in Holders, NEW k \in Keys, NEW v \in Values, SetProfileValue(p, k, v) PROVE MemoryInv'
  <2>1. <<k, v>> \in Entries
    BY DEF Entries, Facts
  <2>. QED  BY <1>1, <1>4, <2>1, ReloadedStep DEF SetProfileValue
<1>5. ASSUME NEW p \in Holders, NEW some \in SUBSET Keys, NEW v \in Values, SetProfileValues(p, some, v)
      PROVE  MemoryInv'
  <2>1. some \X {v} \in SUBSET Entries
    BY DEF Entries, Facts
  <2>. QED  BY <1>1, <1>5, <2>1, ReloadedStep DEF SetProfileValues
<1>6. ASSUME NEW p \in Holders, ClearList(p) \/ ForgetLastNote(p) PROVE MemoryInv'
  BY <1>1, <1>6, ReloadedStep DEF ClearList, ForgetLastNote
<1>7. ASSUME NEW p \in Holders, NEW f \in Facts, ForgetProfileValue(p, f) PROVE MemoryInv'
  BY <1>1, <1>7, ReloadedStep DEF ForgetProfileValue
<1>8. ASSUME NEW p \in Holders, NEW n \in Notes, AddNote(p, n) PROVE MemoryInv'
  BY <1>1, <1>8, ReloadedStep DEF AddNote
<1>9. ASSUME NEW p \in Holders, NEW some \in SUBSET Notes, ForgetNotes(p, some) PROVE MemoryInv'
  BY <1>1, <1>9, ReloadedStep DEF ForgetNotes
<1>10. ASSUME NEW p \in Holders, NEW i \in Items, AddToList(p, i) \/ RemoveFromList(p, i) PROVE MemoryInv'
  BY <1>1, <1>10, ReloadedStep DEF AddToList, RemoveFromList
<1>11. CASE MemoryNext
  BY <1>11, <1>3, <1>4, <1>5, <1>6, <1>7, <1>8, <1>9, <1>10 DEF MemoryNext
<1>. QED  BY <1>2, <1>11
-----------------------------------------------------------------------------
\* The job tracker


\* Also of the jobs that were removed: the packages are of the resume there is, and a PDF is
\* of the package beside it.
PackagesFit ==
  \A j \in JobIds : /\ tracked[j].package # NoPackage => tracked[j].package.resume = resume
                    /\ tracked[j].pdf # NoPackage => tracked[j].pdf = tracked[j].package

JobsInv == JobsTypeOK /\ PackagesFit

LEMMA JobTypes ==
  ASSUME JobsTypeOK
  PROVE  /\ MaxJobs \in Nat /\ MaxResume \in Nat /\ MaxDrafts \in Nat
         /\ NoPackage \in Packages /\ NoPackage.resume = 0
         /\ \A j \in JobIds : tracked[j] \in TrackedJob
         /\ \A r \in JobRequests : tailoring[r] \in Tailoring
BY JobsAssumption DEF JobsTypeOK, NoPackage, Packages

\* One job is replaced by another record of it.
LEMMA OneJob ==
  ASSUME JobsInv, NEW j \in JobIds, NEW job \in TrackedJob, tracked' = [tracked EXCEPT ![j] = job], resume' = resume,
         job.package # NoPackage => job.package.resume = resume,
         job.pdf # NoPackage => job.pdf = job.package
  PROVE  tracked' \in [JobIds -> TrackedJob] /\ PackagesFit'
<1>1. /\ tracked' \in [JobIds -> TrackedJob] /\ tracked'[j] = job
      /\ \A i \in JobIds \ {j} : tracked'[i] = tracked[i]
  BY DEF JobsInv, JobsTypeOK
<1>. QED  BY <1>1 DEF JobsInv, PackagesFit

LEMMA OneTailoring ==
  ASSUME JobsInv, NEW r \in JobRequests, NEW t \in Tailoring, tailoring' = [tailoring EXCEPT ![r] = t]
  PROVE  tailoring' \in [JobRequests -> Tailoring]
BY DEF JobsInv, JobsTypeOK

LEMMA JobsStart == JobsInit => JobsInv
<1>. SUFFICES ASSUME JobsInit PROVE JobsInv
  OBVIOUS
<1>. DEFINE lead(p) == [there |-> FALSE, posting |-> p, stage |-> "lead", reached |-> "lead",
                        package |-> NoPackage, pdf |-> NoPackage]
            idle(j) == [step |-> "idle", job |-> j, resume |-> 0, package |-> NoPackage]
<1>1. PICK p \in Postings, i \in JobIds :
        tracked = [j \in JobIds |-> lead(p)] /\ tailoring = [r \in JobRequests |-> idle(i)]
  BY DEF JobsInit
<1>2. NoPackage \in Packages /\ 0 \in 0..MaxResume /\ 0 \in 0..MaxDrafts /\ 1 \in 1..(MaxJobs + 1)
  BY JobsAssumption DEF NoPackage, Packages
<1>3. lead(p) \in TrackedJob /\ lead(p).package = NoPackage /\ lead(p).pdf = NoPackage
  BY <1>2 DEF TrackedJob, Stages
<1>4. idle(i) \in Tailoring
  BY <1>2 DEF Tailoring
<1>. HIDE DEF lead, idle
<1>5. JobsTypeOK
  BY <1>1, <1>2, <1>3, <1>4 DEF JobsInit, JobsTypeOK
<1>. QED  BY <1>1, <1>3, <1>5 DEF JobsInv, PackagesFit

LEMMA AddJobStep ==
  ASSUME JobsInv, NEW p \in Postings, NEW s \in Stages, AddJob(p, s) PROVE JobsInv'
<1>. DEFINE job == [there |-> TRUE, posting |-> p, stage |-> s,
                    reached |-> IF s = "rejected" THEN "applied" ELSE s,
                    package |-> NoPackage, pdf |-> NoPackage]
<1>1. /\ nextJob \in JobIds /\ nextJob' \in 1..(MaxJobs + 1) /\ tracked' = [tracked EXCEPT ![nextJob] = job]
      /\ UNCHANGED <<resume, drafts, tailoring>>
  BY JobTypes DEF JobsInv, JobsTypeOK, AddJob, JobIds
<1>2. job \in TrackedJob /\ job.package = NoPackage /\ job.pdf = NoPackage
  <2>1. (IF s = "rejected" THEN "applied" ELSE s) \in Stages
    BY DEF Stages
  <2>. QED  BY <2>1, JobTypes DEF TrackedJob, JobsInv
<1>. HIDE DEF job
<1>3. tracked' \in [JobIds -> TrackedJob] /\ PackagesFit'
  BY <1>1, <1>2, OneJob
<1>. QED  BY <1>1, <1>3 DEF JobsInv, JobsTypeOK

LEMMA UpdateStageStep ==
  ASSUME JobsInv, NEW j \in JobIds, NEW s \in Stages, UpdateStage(j, s) PROVE JobsInv'
<1>. DEFINE reached == IF s # "rejected" /\ Progress[s] > Progress[tracked[j].reached]
                       THEN s ELSE tracked[j].reached
            job == [tracked[j] EXCEPT !.stage = s, !.reached = reached]
<1>1. tracked[j] \in TrackedJob /\ UNCHANGED <<nextJob, resume, drafts, tailoring>>
  BY JobTypes DEF JobsInv, UpdateStage
<1>2. reached \in Stages
  BY <1>1 DEF TrackedJob
<1>3. tracked' = [tracked EXCEPT ![j].stage = s, ![j].reached = reached]
  BY DEF UpdateStage
<1>. HIDE DEF reached
<1>4. job \in TrackedJob /\ job.package = tracked[j].package /\ job.pdf = tracked[j].pdf
  BY <1>1, <1>2 DEF TrackedJob
<1>5. tracked' = [tracked EXCEPT ![j] = job]
  BY <1>3
<1>. HIDE DEF job
<1>6. tracked' \in [JobIds -> TrackedJob] /\ PackagesFit'
  BY <1>1, <1>4, <1>5, OneJob DEF JobsInv, PackagesFit
<1>. QED  BY <1>1, <1>6 DEF JobsInv, JobsTypeOK

LEMMA RemoveJobStep ==
  ASSUME JobsInv, NEW j \in JobIds, RemoveJob(j) PROVE JobsInv'
<1>. DEFINE job == [tracked[j] EXCEPT !.there = FALSE]
<1>1. /\ tracked[j] \in TrackedJob /\ UNCHANGED <<nextJob, resume, drafts, tailoring>>
      /\ tracked' = [tracked EXCEPT ![j].there = FALSE]
  BY JobTypes DEF JobsInv, RemoveJob
<1>2. job \in TrackedJob /\ job.package = tracked[j].package /\ job.pdf = tracked[j].pdf
  BY <1>1 DEF TrackedJob
<1>3. tracked' = [tracked EXCEPT ![j] = job]
  BY <1>1
<1>. HIDE DEF job
<1>4. /\ job.package # NoPackage => job.package.resume = resume
      /\ job.pdf # NoPackage => job.pdf = job.package
  BY <1>2 DEF JobsInv, PackagesFit
<1>5. tracked' \in [JobIds -> TrackedJob] /\ PackagesFit'
  BY <1>1, <1>2, <1>3, <1>4, OneJob
<1>. QED  BY <1>1, <1>5 DEF JobsInv, JobsTypeOK

LEMMA AllJobsStep == ASSUME JobsInv, ClearLeads \/ ChangeResume PROVE JobsInv'
<1>1. CASE ClearLeads
  <2>1. /\ UNCHANGED <<nextJob, resume, drafts, tailoring>>
        /\ tracked' = [j \in JobIds |-> IF tracked[j].stage = "lead"
                                        THEN [tracked[j] EXCEPT !.there = FALSE] ELSE tracked[j]]
    BY <1>1 DEF ClearLeads
  <2>2. \A j \in JobIds : /\ tracked'[j] \in TrackedJob /\ tracked'[j].package = tracked[j].package
                          /\ tracked'[j].pdf = tracked[j].pdf
    BY <2>1, JobTypes DEF JobsInv, TrackedJob
  <2>3. tracked' \in [JobIds -> TrackedJob]
    BY <2>1, <2>2
  <2>. QED  BY <2>1, <2>2, <2>3 DEF JobsInv, JobsTypeOK, PackagesFit
<1>2. CASE ChangeResume
  <2>0. resume' \in 0..MaxResume
    <3>1. resume \in 0..MaxResume /\ MaxResume \in Nat
      BY JobTypes DEF JobsInv, JobsTypeOK
    <3>2. resume < MaxResume /\ resume' = resume + 1
      BY <1>2 DEF ChangeResume
    <3>. QED  BY <3>1, <3>2
  <2>1. /\ UNCHANGED <<nextJob, drafts, tailoring>>
        /\ tracked' = [j \in JobIds |-> [tracked[j] EXCEPT !.package = NoPackage, !.pdf = NoPackage]]
    BY <1>2 DEF ChangeResume
  <2>2. \A j \in JobIds : /\ tracked'[j] \in TrackedJob /\ tracked'[j].package = NoPackage
                          /\ tracked'[j].pdf = NoPackage
    BY <2>1, JobTypes DEF JobsInv, TrackedJob
  <2>3. tracked' \in [JobIds -> TrackedJob]
    BY <2>1, <2>2
  <2>. QED  BY <2>0, <2>1, <2>2, <2>3 DEF JobsInv, JobsTypeOK, PackagesFit
<1>. QED  BY <1>1, <1>2

\* A request goes on, gives up, or stores what it has.
LEMMA TailoringStep ==
  ASSUME JobsInv, NEW r \in JobRequests,
         \/ GivesUp(r) \/ BeginRender(r) \/ StoreTailoring(r) \/ StorePdf(r)
         \/ \E j \in JobIds : BeginTailoring(r, j)
  PROVE  JobsInv'
<1>1. /\ JobsTypeOK /\ PackagesFit /\ tailoring[r] \in Tailoring /\ tailoring[r].job \in JobIds
      /\ tracked[tailoring[r].job] \in TrackedJob /\ NoPackage \in Packages
      /\ MaxDrafts \in Nat /\ drafts \in 0..MaxDrafts /\ resume \in 0..MaxResume
  BY JobTypes DEF JobsInv, JobsTypeOK, Tailoring
<1>2. CASE GivesUp(r)
  <2>1. [tailoring[r] EXCEPT !.step = "idle"] \in Tailoring
    BY <1>1 DEF Tailoring
  <2>2. tailoring' \in [JobRequests -> Tailoring]
    BY <1>2, <2>1, OneTailoring DEF GivesUp, Become
  <2>. QED  BY <1>1, <1>2, <2>2 DEF GivesUp, JobsInv, JobsTypeOK, PackagesFit
<1>3. CASE BeginRender(r)
  <2>1. [tailoring[r] EXCEPT !.step = "rendering", !.package = tracked[tailoring[r].job].package] \in Tailoring
    BY <1>1 DEF Tailoring, TrackedJob
  <2>2. tailoring' \in [JobRequests -> Tailoring]
    BY <1>3, <2>1, OneTailoring DEF BeginRender, Become
  <2>. QED  BY <1>1, <1>3, <2>2 DEF BeginRender, JobsInv, JobsTypeOK, PackagesFit
<1>4. ASSUME NEW j \in JobIds, BeginTailoring(r, j) PROVE JobsInv'
  <2>1. [step |-> "drafting", job |-> j, resume |-> resume, package |-> NoPackage] \in Tailoring
    BY <1>1 DEF Tailoring
  <2>2. tailoring' \in [JobRequests -> Tailoring]
    BY <1>4, <2>1, OneTailoring DEF BeginTailoring, Become
  <2>. QED  BY <1>1, <1>4, <2>2 DEF BeginTailoring, JobsInv, JobsTypeOK, PackagesFit
<1>5. CASE StoreTailoring(r)
  <2>. DEFINE package == [resume |-> tailoring[r].resume, draft |-> drafts + 1]
              job == [tracked[tailoring[r].job] EXCEPT !.package = package, !.pdf = NoPackage]
  <2>1. /\ drafts' = drafts + 1 /\ drafts' \in 0..MaxDrafts /\ resume = tailoring[r].resume
        /\ UNCHANGED <<nextJob, resume>>
        /\ tracked' = [tracked EXCEPT ![tailoring[r].job].package = package, ![tailoring[r].job].pdf = NoPackage]
        /\ tailoring' = [tailoring EXCEPT ![r] = [tailoring[r] EXCEPT !.step = "tailored"]]
    BY <1>1, <1>5 DEF StoreTailoring, Become
  <2>2. package \in Packages /\ package.resume = resume
    BY <1>1, <2>1 DEF Packages
  <2>. HIDE DEF package
  <2>3. job \in TrackedJob /\ job.package = package /\ job.pdf = NoPackage
    BY <1>1, <2>2 DEF TrackedJob
  <2>4. tracked' = [tracked EXCEPT ![tailoring[r].job] = job]
    BY <2>1
  <2>. HIDE DEF job
  <2>5. PICK j \in JobIds : j = tailoring[r].job
    BY <1>1
  <2>6. tracked' \in [JobIds -> TrackedJob] /\ PackagesFit'
    BY <2>1, <2>2, <2>3, <2>4, <2>5, OneJob
  <2>7. [tailoring[r] EXCEPT !.step = "tailored"] \in Tailoring
    BY <1>1 DEF Tailoring
  <2>8. tailoring' \in [JobRequests -> Tailoring]
    BY <2>1, <2>7, OneTailoring
  <2>. QED  BY <1>1, <2>1, <2>6, <2>8 DEF JobsInv, JobsTypeOK
<1>6. CASE StorePdf(r)
  <2>. DEFINE job == [tracked[tailoring[r].job] EXCEPT !.pdf = tailoring[r].package]
  <2>1. /\ UNCHANGED <<nextJob, resume, drafts>> /\ tracked[tailoring[r].job].package = tailoring[r].package
        /\ tracked' = [tracked EXCEPT ![tailoring[r].job].pdf = tailoring[r].package]
        /\ tailoring' = [tailoring EXCEPT ![r] = [tailoring[r] EXCEPT !.step = "idle"]]
    BY <1>6 DEF StorePdf, Become
  <2>2. job \in TrackedJob /\ job.package = tailoring[r].package /\ job.pdf = tailoring[r].package
    BY <1>1, <2>1 DEF TrackedJob, Tailoring
  <2>3. tracked' = [tracked EXCEPT ![tailoring[r].job] = job]
    BY <2>1
  <2>. HIDE DEF job
  <2>4. PICK j \in JobIds : j = tailoring[r].job
    BY <1>1
  <2>5. job.package # NoPackage => job.package.resume = resume
    BY <1>1, <2>1, <2>2, <2>4 DEF PackagesFit
  <2>6. tracked' \in [JobIds -> TrackedJob] /\ PackagesFit'
    BY <2>1, <2>2, <2>3, <2>4, <2>5, OneJob
  <2>7. [tailoring[r] EXCEPT !.step = "idle"] \in Tailoring
    BY <1>1 DEF Tailoring
  <2>8. tailoring' \in [JobRequests -> Tailoring]
    BY <2>1, <2>7, OneTailoring
  <2>. QED  BY <1>1, <2>1, <2>6, <2>8 DEF JobsInv, JobsTypeOK
<1>. QED  BY <1>2, <1>3, <1>4, <1>5, <1>6

LEMMA JobsStep == ASSUME JobsInv, [JobsNext]_jobvars PROVE JobsInv'
<1>1. CASE UNCHANGED jobvars
  BY <1>1 DEF jobvars, JobsInv, JobsTypeOK, PackagesFit
<1>2. ASSUME NEW p \in Postings, ImportLead(p) PROVE JobsInv'
  BY <1>2, AddJobStep DEF ImportLead, Stages
<1>3. ASSUME NEW r \in JobRequests,
             \/ DraftFails(r) \/ StoreTailoring(r) \/ TailoringIsStale(r)
             \/ BeginRender(r) \/ NothingToRender(r) \/ StorePdf(r) \/ RenderFails(r)
             \/ \E j \in JobIds : BeginTailoring(r, j)
      PROVE  JobsInv'
  BY <1>3, TailoringStep DEF DraftFails, TailoringIsStale, NothingToRender, RenderFails
<1>. QED  BY <1>1, <1>2, <1>3, AddJobStep, UpdateStageStep, RemoveJobStep, AllJobsStep DEF JobsNext

LEMMA JobsShow == JobsInv => TailoredToThisResume
BY DEF JobsInv, PackagesFit, TailoredToThisResume
-----------------------------------------------------------------------------
\* The index of documents


Named(docs) == {[source |-> d.source, id |-> d.id] : d \in docs}
IdsAreUnique(docs) == \A d, e \in docs : d.id = e.id => d = e

KnowledgeInv ==
  /\ KnowledgeTypeOK /\ IndexKeepsWhatWasAdded
  /\ IdsAreUnique(index.store.docs)
  /\ \A d \in index.store.docs : d.id < index.store.next

\* To prune what a store holds and then to name it is to prune the names: as many
\* generated documents are newer than a document as names are newer than its name.
LEMMA PruningByName ==
  ASSUME NEW docs \in SUBSET Document, IdsAreUnique(docs)
  PROVE  Named(Pruned(docs)) = Pruned(Named(docs))
<1>. DEFINE newer(D, i) == {e \in {d \in D : d.source \in Generated} : e.id > i}
<1>1. ASSUME NEW i \in 1..MaxWrites PROVE Cardinality(newer(docs, i)) = Cardinality(newer(Named(docs), i))
  <2>. DEFINE S == newer(docs, i)
              T == newer(Named(docs), i)
              name == [d \in S |-> [source |-> d.source, id |-> d.id]]
              number == [d \in S |-> d.id]
  <2>1. number \in Injection(S, 1..MaxWrites)
    BY DEF Injection, IsInjective, IdsAreUnique, Document
  <2>2. IsFiniteSet(S)
    <3>1. IsFiniteSet(1..MaxWrites)
      BY KnowledgeAssumption, FS_Interval
    <3>. QED  BY <2>1, <3>1, FS_Injection
  <2>3. \A d \in S : [source |-> d.source, id |-> d.id] \in T
    BY DEF Named
  <2>4. \A n \in T : \E d \in S : n = [source |-> d.source, id |-> d.id]
    BY DEF Named
  <2>5. \A d, e \in S : name[d] = name[e] => d = e
    <3>1. SUFFICES ASSUME NEW d \in S, NEW e \in S, name[d] = name[e] PROVE d = e
      OBVIOUS
    <3>2. name[d].id = d.id /\ name[e].id = e.id
      OBVIOUS
    <3>. QED  BY <3>1, <3>2 DEF IdsAreUnique
  <2>6. name \in [S -> T] /\ \A d \in S : name[d] = [source |-> d.source, id |-> d.id]
    BY <2>3
  <2>. HIDE DEF S, T, name
  <2>7. name \in Bijection(S, T)
    BY <2>4, <2>5, <2>6 DEF Bijection, Injection, Surjection, IsInjective
  <2>8. Cardinality(S) = Cardinality(T)
    BY <2>2, <2>7, FS_Bijection DEF ExistsBijection
  <2>. QED  BY <2>8 DEF S, T
<1>2. /\ Pruned(docs) = {d \in docs : ~(d.source \in Generated /\ Cardinality(newer(docs, d.id)) >= Cap)}
      /\ Pruned(Named(docs)) = {d \in Named(docs) : ~(d.source \in Generated
                                                      /\ Cardinality(newer(Named(docs), d.id)) >= Cap)}
  BY DEF Pruned
<1>3. \A d \in docs : d.id \in 1..MaxWrites
  BY DEF Document
<1>. HIDE DEF newer
<1>. QED  BY <1>1, <1>2, <1>3 DEF Named

LEMMA PruningDrops == ASSUME NEW docs PROVE Pruned(docs) \subseteq docs
BY DEF Pruned

\* A store is written, or is left in the copy of the process alone.
LEMMA ChangeStep ==
  ASSUME KnowledgeInv, NEW p \in Readers, NEW store \in Store, NEW documents, Change(p, store, documents),
         IdsAreUnique(store.docs), \A d \in store.docs : d.id < store.next, Named(store.docs) = documents
  PROVE  KnowledgeInv'
<1>1. /\ MaxWrites \in Nat /\ index.tag \in 0..MaxWrites /\ index \in Tagged /\ NoCopy \in Tagged
      /\ parsed \in [Readers -> Tagged]
  BY KnowledgeAssumption DEF KnowledgeInv, KnowledgeTypeOK, Tagged, NoCopy, Nothing, Store
<1>2. documents \subseteq [source: Sources, id: 1..MaxWrites]
  BY DEF Named, Store, Document
<1>3. CASE /\ index.tag < MaxWrites
           /\ index' = [tag |-> index.tag + 1, store |-> store]
           /\ parsed' = [parsed EXCEPT ![p] = NoCopy]
           /\ added' = documents
  <2>1. index.tag + 1 \in 0..MaxWrites
    BY <1>1, <1>3
  <2>2. index' \in Tagged /\ index'.store = store
    BY <1>3, <2>1 DEF Tagged
  <2>3. parsed' \in [Readers -> Tagged]
    BY <1>1, <1>3
  <2>4. KnowledgeTypeOK'
    BY <1>2, <1>3, <2>2, <2>3 DEF KnowledgeTypeOK
  <2>5. IndexKeepsWhatWasAdded'
    BY <1>3, <2>2 DEF IndexKeepsWhatWasAdded, Named
  <2>. QED  BY <2>2, <2>4, <2>5 DEF KnowledgeInv
<1>4. CASE /\ parsed' = [parsed EXCEPT ![p] = IF index.tag = 0 THEN NoCopy ELSE [tag |-> index.tag, store |-> store]]
           /\ UNCHANGED <<index, added>>
  <2>1. [tag |-> index.tag, store |-> store] \in Tagged
    BY <1>1 DEF Tagged
  <2>2. parsed' \in [Readers -> Tagged]
    BY <1>1, <1>4, <2>1
  <2>. QED  BY <1>4, <2>2 DEF KnowledgeInv, KnowledgeTypeOK, IndexKeepsWhatWasAdded
<1>. QED  BY <1>3, <1>4 DEF Change

LEMMA KnowledgeStarts == KnowledgeInit => KnowledgeInv
<1>. SUFFICES ASSUME KnowledgeInit PROVE KnowledgeInv
  OBVIOUS
<1>1. NoCopy \in Tagged /\ NoCopy.store = Nothing /\ Nothing.docs = {}
  BY KnowledgeAssumption DEF Tagged, NoCopy, Nothing, Store
<1>. QED  BY <1>1 DEF KnowledgeInit, KnowledgeInv, KnowledgeTypeOK, IndexKeepsWhatWasAdded, IdsAreUnique

LEMMA KnowledgeStep == ASSUME KnowledgeInv, [KnowledgeNext]_knowvars PROVE KnowledgeInv'
<1>. DEFINE store == index.store
<1>1. /\ MaxWrites \in Nat /\ index \in Tagged /\ store \in Store /\ store.docs \in SUBSET Document
      /\ store.next \in 1..(MaxWrites + 1) /\ IdsAreUnique(store.docs)
      /\ \A d \in store.docs : d.id < store.next
      /\ Named(store.docs) = added
  BY KnowledgeAssumption
  DEF KnowledgeInv, KnowledgeTypeOK, Tagged, Store, IndexKeepsWhatWasAdded, Named
<1>2. CASE UNCHANGED knowvars
  BY <1>2 DEF knowvars, KnowledgeInv, KnowledgeTypeOK, IndexKeepsWhatWasAdded
<1>3. ASSUME NEW p \in Readers, NEW read \in Tagged, parsed' = [parsed EXCEPT ![p] = read],
             UNCHANGED <<index, added>>
      PROVE  KnowledgeInv'
  BY <1>3 DEF KnowledgeInv, KnowledgeTypeOK, IndexKeepsWhatWasAdded
<1>4. ASSUME NEW p \in Readers, LeaveIndex(p) \/ ReadIndex(p) \/ Prune(p) PROVE KnowledgeInv'
  <2>1. parsed[p] \in Tagged
    BY DEF KnowledgeInv, KnowledgeTypeOK
  <2>. QED  BY <1>1, <1>3, <1>4, <2>1 DEF LeaveIndex, ReadIndex, Loaded, Prune
<1>5. ASSUME NEW p \in Readers, AddDocument(p) PROVE KnowledgeInv'
  <2>1. PICK source \in Sources, vector \in BOOLEAN :
          /\ store.next <= MaxWrites
          /\ Change(p, [next |-> store.next + 1,
                        docs |-> Pruned({d \in store.docs : d.source # source}
                                        \cup {[source |-> source, id |-> store.next, vector |-> vector]})],
                    Pruned({d \in added : d.source # source} \cup {[source |-> source, id |-> store.next]}))
    BY <1>5 DEF AddDocument, Reread
  <2>. DEFINE new == [source |-> source, id |-> store.next, vector |-> vector]
              docs == {d \in store.docs : d.source # source} \cup {new}
              changed == [next |-> store.next + 1, docs |-> Pruned(docs)]
  <2>2. new \in Document /\ new.id = store.next /\ new.source = source
    BY <1>1, <2>1 DEF Document
  <2>3. [source |-> new.source, id |-> new.id] = [source |-> source, id |-> store.next]
    BY <2>2
  <2>. HIDE DEF new
  <2>4. docs \in SUBSET Document
    BY <1>1, <2>2
  <2>5. \A d \in store.docs : d.id \in Nat /\ store.next \in Nat
    BY <1>1 DEF Document
  <2>6. IdsAreUnique(docs) /\ \A d \in docs : d.id < store.next + 1
    BY <1>1, <2>2, <2>5 DEF IdsAreUnique
  <2>7. Named(docs) = {d \in added : d.source # source} \cup {[source |-> source, id |-> store.next]}
    BY <1>1, <2>3 DEF Named
  <2>. HIDE DEF docs
  <2>8. Pruned(docs) \subseteq docs
    BY PruningDrops
  <2>9. changed \in Store /\ changed.docs = Pruned(docs) /\ changed.next = store.next + 1
    BY <1>1, <2>1, <2>4, <2>8 DEF Store
  <2>10. IdsAreUnique(changed.docs) /\ \A d \in changed.docs : d.id < changed.next
    BY <2>6, <2>8, <2>9 DEF IdsAreUnique
  <2>11. Named(changed.docs)
         = Pruned({d \in added : d.source # source} \cup {[source |-> source, id |-> store.next]})
    BY <2>4, <2>6, <2>7, <2>9, PruningByName
  <2>12. Change(p, changed,
                Pruned({d \in added : d.source # source} \cup {[source |-> source, id |-> store.next]}))
    BY <2>1 DEF docs, new
  <2>. HIDE DEF changed
  <2>. QED  BY <2>9, <2>10, <2>11, <2>12, ChangeStep
<1>6. ASSUME NEW p \in Readers, Forget(p) PROVE KnowledgeInv'
  <2>1. PICK i \in 1..MaxWrites :
          \/ LeaveIndex(p)
          \/ Change(p, [store EXCEPT !.docs = {d \in store.docs : d.id # i}], {d \in added : d.id # i})
    BY <1>6 DEF Forget, Reread
  <2>. DEFINE changed == [store EXCEPT !.docs = {d \in store.docs : d.id # i}]
  <2>2. changed \in Store /\ changed.docs = {d \in store.docs : d.id # i} /\ changed.next = store.next
    BY <1>1 DEF Store
  <2>3. IdsAreUnique(changed.docs) /\ \A d \in changed.docs : d.id < changed.next
    BY <1>1, <2>2 DEF IdsAreUnique
  <2>4. Named(changed.docs) = {d \in added : d.id # i}
    BY <1>1, <2>2 DEF Named
  <2>. HIDE DEF changed
  <2>5. Change(p, changed, {d \in added : d.id # i}) => KnowledgeInv'
    BY <2>2, <2>3, <2>4, ChangeStep
  <2>. QED  BY <1>4, <2>1, <2>5 DEF changed
<1>7. ASSUME NEW p \in Readers, Clear(p) PROVE KnowledgeInv'
  <2>. DEFINE changed == [store EXCEPT !.docs = {}]
  <2>1. changed \in Store /\ changed.docs = {} /\ Change(p, changed, {})
    BY <1>1, <1>7 DEF Store, Clear, Reread
  <2>2. IdsAreUnique(changed.docs) /\ (\A d \in changed.docs : d.id < changed.next) /\ Named(changed.docs) = {}
    BY <2>1 DEF IdsAreUnique, Named
  <2>. HIDE DEF changed
  <2>. QED  BY <2>1, <2>2, ChangeStep
<1>8. ASSUME NEW p \in Readers, Backfill(p) PROVE KnowledgeInv'
  <2>1. PICK embedded \in SUBSET {d \in store.docs : ~d.vector} :
          \/ LeaveIndex(p)
          \/ Change(p, [store EXCEPT !.docs = {[d EXCEPT !.vector = d.vector \/ d \in embedded] : d \in store.docs}],
                    added)
    BY <1>8 DEF Backfill, Reread
  <2>. DEFINE With(d) == [d EXCEPT !.vector = d.vector \/ d \in embedded]
              docs == {With(d) : d \in store.docs}
              changed == [store EXCEPT !.docs = docs]
  <2>2. \A d \in store.docs : With(d) \in Document /\ With(d).id = d.id /\ With(d).source = d.source
    <3>1. SUFFICES ASSUME NEW d \in store.docs
                   PROVE  With(d) \in Document /\ With(d).id = d.id /\ With(d).source = d.source
      OBVIOUS
    <3>2. d \in Document /\ (d.vector \/ d \in embedded) \in BOOLEAN
      BY <1>1
    <3>. QED  BY <3>2 DEF Document
  <2>. HIDE DEF With
  <2>3. changed \in Store /\ changed.docs = docs /\ changed.next = store.next
    BY <1>1, <2>2 DEF Store
  <2>4. IdsAreUnique(changed.docs) /\ \A d \in changed.docs : d.id < changed.next
    BY <1>1, <2>2, <2>3 DEF IdsAreUnique
  <2>5. Named(changed.docs) = added
    BY <1>1, <2>2, <2>3 DEF Named
  <2>6. Change(p, changed, added) \/ LeaveIndex(p)
    BY <2>1 DEF With
  <2>. HIDE DEF changed
  <2>. QED  BY <1>4, <2>3, <2>4, <2>5, <2>6, ChangeStep
<1>. QED  BY <1>2, <1>4, <1>5, <1>6, <1>7, <1>8 DEF KnowledgeNext

LEMMA IndexShows == KnowledgeInv => IndexKeepsWhatWasAdded
BY DEF KnowledgeInv
-----------------------------------------------------------------------------
\* Voice mode


\* The fields that tell what is, or may come to be, heard are the same.
SameSpeech(p, q) ==
  /\ q \in Page
  /\ q.active = p.active /\ q.session = p.session /\ q.epoch = p.epoch
  /\ q.turn = p.turn /\ q.asked = p.asked
  /\ q.queue = p.queue /\ q.fetches = p.fetches /\ q.audio = p.audio

LEMMA ListenTypes == ASSUME NEW p \in Page PROVE SameSpeech(p, Listen(p))
<1>1. CASE ~p.active \/ p.recognizing \/ p.speaking \/ Unused(p.mics) = {}
  BY <1>1 DEF Listen, SameSpeech
<1>2. CASE ~(~p.active \/ p.recognizing \/ p.speaking \/ Unused(p.mics) = {})
  <2>1. PICK m : m = Lowest(Unused(p.mics))
    OBVIOUS
  <2>2. PICK mics : mics = [p.mics EXCEPT ![m] = [phase |-> "asking", session |-> p.session]]
    OBVIOUS
  <2>3. p.mics \in [Mics -> Mic({"asking", "open"})] /\ p.session \in Sessions
    BY DEF Page
  <2>4. mics \in [Mics -> Mic({"asking", "open"})]
    BY <2>2, <2>3 DEF Mic
  <2>5. Listen(p) = [p EXCEPT !.recognizing = TRUE, !.mics = mics]
    BY <1>2, <2>1, <2>2 DEF Listen
  <2>. QED  BY <2>4, <2>5 DEF SameSpeech, Page
<1>. QED  BY <1>1, <1>2

LEMMA BargeStartTypes == ASSUME NEW p \in Page PROVE SameSpeech(p, BargeStart(p)) /\ BargeStart(p).speaking = p.speaking
<1>. DEFINE not == p.barge # 0 \/ ~p.active \/ p.bargeOff \/ p.falsePauses >= 2 \/ Unused(p.barges) = {}
<1>1. CASE not
  BY <1>1 DEF BargeStart, SameSpeech
<1>2. CASE ~not
  <2>1. PICK m : m = Lowest(Unused(p.barges))
    OBVIOUS
  <2>2. PICK barges : barges = [p.barges EXCEPT ![m] = [phase |-> "asking", session |-> p.session]]
    OBVIOUS
  <2>3. p.barges \in [Mics -> Mic({"asking", "open", "fired"})] /\ p.session \in Sessions
    BY DEF Page
  <2>4. barges \in [Mics -> Mic({"asking", "open", "fired"})]
    BY <2>2, <2>3 DEF Mic
  <2>5. BargeStart(p) = [p EXCEPT !.barges = barges]
    BY <1>2, <2>1, <2>2 DEF BargeStart
  <2>. QED  BY <2>4, <2>5 DEF SameSpeech, Page
<1>. QED  BY <1>1, <1>2

\* What may still be said of the replies in S: nothing.
Unheard(S) == {s \in Sentences : s[1] \notin S}

Fits(p, S) ==
  /\ S \subseteq 1..p.asked
  /\ p.queue \in Seq(Unheard(S)) /\ Len(p.queue) <= MaxSentences + 1
  /\ p.audio.phase # "none" => p.active /\ p.audio.sentence[1] \notin S
  /\ \A f \in p.fetches : f.epoch <= p.epoch /\ (f.epoch = p.epoch => f.sentence[1] \notin S)
  /\ p.turn.epoch <= p.epoch /\ p.turn.id <= p.asked
  /\ p.turn.id # 0 => Len(p.queue) <= p.turn.said /\ (p.turn.epoch = p.epoch => p.turn.id \notin S)

Waits(p) == p.queue # <<>> => p.active

Stilled(p, S) == p \in Page /\ Fits(p, S) /\ Waits(p)

VoiceInv == Stilled(page, silenced)

LEMMA VoiceShows == VoiceInv => VoiceTypeOK /\ SilencedStaysSilent
<1>. SUFFICES ASSUME VoiceInv PROVE VoiceTypeOK /\ SilencedStaysSilent
  OBVIOUS
<1>1. page \in Page /\ Fits(page, silenced)
  BY DEF VoiceInv, Stilled
<1>2. page.asked \in 0..MaxTurns /\ MaxTurns \in Nat
  BY <1>1, VoiceAssumption DEF Page
<1>3. silenced \subseteq 1..MaxTurns
  BY <1>1, <1>2 DEF Fits
<1>. QED  BY <1>1, <1>3 DEF VoiceTypeOK, SilencedStaysSilent, Fits

LEMMA SameFits ==
  ASSUME NEW p \in Page, NEW q, NEW S, SameSpeech(p, q), Fits(p, S) PROVE q \in Page /\ Fits(q, S)
BY DEF SameSpeech, Fits

LEMMA SameWaits == ASSUME NEW p, NEW q, SameSpeech(p, q), Waits(p) PROVE Waits(q)
BY DEF SameSpeech, Waits

LEMMA SameQuiet == ASSUME NEW p, NEW q, NEW S, SameSpeech(p, q), Stilled(p, S) PROVE Stilled(q, S)
BY SameFits, SameWaits DEF Stilled

LEMMA VoiceNumbers ==
  ASSUME NEW p \in Page
  PROVE  /\ MaxTurns \in Nat /\ MaxSentences \in Nat /\ MaxSessions \in Nat /\ MaxCutIns \in Nat /\ MaxMics \in Nat
         /\ p.session \in 0..MaxSessions /\ p.epoch \in 0..MaxCutIns /\ p.asked \in 0..MaxTurns
         /\ p.turn \in VoiceTurn /\ p.turn.id \in 0..MaxTurns /\ p.turn.epoch \in 0..MaxCutIns
         /\ p.turn.said \in 0..MaxSentences /\ p.turn.voiced \in BOOLEAN
         /\ p.active \in BOOLEAN /\ p.queue \in Seq(Sentences) /\ Len(p.queue) \in Nat
         /\ p.audio.sentence \in Sentences /\ p.fetches \in SUBSET Fetch
         /\ \A f \in p.fetches : f.epoch \in 0..MaxCutIns
<1>1. p.queue \in Seq(Sentences) /\ Len(p.queue) \in Nat
  BY LenProperties DEF Page
<1>. QED  BY <1>1, VoiceAssumption DEF Page, VoiceTurn, Epochs, Sessions, Fetch

LEMMA BargeStopTypes ==
  ASSUME NEW p \in Page PROVE SameSpeech(p, BargeStop(p)) /\ BargeStop(p).speaking = p.speaking
<1>1. PICK barges : barges = [m \in Mics |-> IF m = p.barge THEN MicOff ELSE p.barges[m]]
  OBVIOUS
<1>2. p.barges \in [Mics -> Mic({"asking", "open", "fired"})] /\ 0 \in 0..MaxMics
  BY VoiceNumbers DEF Page
<1>3. MicOff \in Mic({"asking", "open", "fired"})
  BY VoiceNumbers DEF MicOff, Mic, Sessions
<1>4. barges \in [Mics -> Mic({"asking", "open", "fired"})]
  BY <1>1, <1>2, <1>3
<1>5. BargeStop(p) = [p EXCEPT !.barges = barges, !.barge = 0]
  BY <1>1 DEF BargeStop
<1>. QED  BY <1>2, <1>4, <1>5 DEF SameSpeech, Page

LEMMA AfterTurnTypes == ASSUME NEW p \in Page PROVE SameSpeech(p, AfterTurn(p))
<1>1. PICK q \in Page : q = BargeStop(p)
  BY BargeStopTypes DEF SameSpeech
<1>2. PICK w \in BOOLEAN : w = (p.active \/ p.waiting)
  BY DEF Page
<1>3. AfterTurn(p) = [q EXCEPT !.waiting = w]
  BY <1>1, <1>2 DEF AfterTurn
<1>4. SameSpeech(q, AfterTurn(p))
  BY <1>2, <1>3 DEF SameSpeech, Page
<1>. QED  BY <1>1, <1>4, BargeStopTypes DEF SameSpeech

LEMMA SpeakChunkFits ==
  ASSUME NEW p \in Page, NEW S, Fits(p, S), NEW s \in Unheard(S)
  PROVE  SpeakChunk(p, s) \in Page /\ Fits(SpeakChunk(p, s), S) /\ SpeakChunk(p, s).active = p.active
<1>1. PICK q \in Page : q = BargeStart(p) /\ SameSpeech(p, q)
  BY BargeStartTypes DEF SameSpeech
<1>2. Fits(q, S)
  BY <1>1, SameFits
<1>3. PICK f : f = [sentence |-> s, session |-> p.session, epoch |-> p.epoch]
  OBVIOUS
<1>4. f \in Fetch /\ f.sentence = s /\ f.epoch = p.epoch /\ s[1] \notin S
  BY <1>3, VoiceNumbers DEF Fetch, Sessions, Epochs, Unheard
<1>5. PICK fetches \in SUBSET Fetch : fetches = p.fetches \cup {f}
  BY <1>4, VoiceNumbers
<1>6. PICK r : r = [q EXCEPT !.speaking = TRUE, !.fetches = fetches]
  OBVIOUS
<1>7. SpeakChunk(p, s) = r
  BY <1>1, <1>3, <1>5, <1>6 DEF SpeakChunk
<1>8. r \in Page
  BY <1>5, <1>6 DEF Page
<1>9. /\ r.fetches = fetches /\ r.active = q.active /\ r.epoch = q.epoch /\ r.turn = q.turn /\ r.asked = q.asked
      /\ r.queue = q.queue /\ r.audio = q.audio
  BY <1>6 DEF Page
<1>10. \A g \in fetches : g.epoch <= r.epoch /\ (g.epoch = r.epoch => g.sentence[1] \notin S)
  BY <1>1, <1>2, <1>4, <1>5, <1>9, VoiceNumbers DEF Fits, SameSpeech
<1>11. Fits(r, S)
  BY <1>2, <1>9, <1>10 DEF Fits
<1>. QED  BY <1>1, <1>7, <1>8, <1>9, <1>11 DEF SameSpeech

\* The queue of a page is replaced by another that says as little.
LEMMA QueueFits ==
  ASSUME NEW p \in Page, NEW S, Fits(p, S), NEW queue \in Seq(Unheard(S)), Len(queue) <= MaxSentences + 1,
         p.turn.id # 0 => Len(queue) <= p.turn.said
  PROVE  /\ [p EXCEPT !.queue = queue] \in Page /\ Fits([p EXCEPT !.queue = queue], S)
         /\ [p EXCEPT !.queue = queue].queue = queue /\ [p EXCEPT !.queue = queue].active = p.active
<1>1. queue \in Seq(Sentences)
  BY SeqMonotonic DEF Unheard
<1>2. PICK r : r = [p EXCEPT !.queue = queue]
  OBVIOUS
<1>3. /\ r \in Page /\ r.fetches = p.fetches /\ r.active = p.active /\ r.epoch = p.epoch /\ r.turn = p.turn
      /\ r.asked = p.asked /\ r.queue = queue /\ r.audio = p.audio
  BY <1>1, <1>2 DEF Page
<1>4. Fits(r, S)
  BY <1>3 DEF Fits
<1>. QED  BY <1>2, <1>3, <1>4

LEMMA PumpIsQuiet == ASSUME NEW p \in Page, NEW S, Fits(p, S) PROVE Stilled(Pump(p), S)
<1>1. CASE ~p.active
  <2>1. <<>> \in Seq(Unheard(S)) /\ Len(<<>>) = 0
    BY EmptySeq
  <2>2. 0 <= MaxSentences + 1 /\ 0 <= p.turn.said
    BY VoiceNumbers
  <2>3. PICK q : q = [p EXCEPT !.queue = <<>>] /\ q \in Page /\ Fits(q, S) /\ q.queue = <<>>
    BY <2>1, <2>2, QueueFits
  <2>. QED  BY <1>1, <2>3 DEF Pump, Stilled, Waits
<1>2. CASE p.active /\ p.speaking
  BY <1>2 DEF Pump, Stilled, Waits
<1>3. CASE p.active /\ ~p.speaking /\ p.queue # <<>>
  <2>1. /\ Head(p.queue) \in Unheard(S) /\ Tail(p.queue) \in Seq(Unheard(S))
        /\ Len(Tail(p.queue)) = Len(p.queue) - 1
    BY <1>3, HeadTailProperties DEF Fits
  <2>2. Len(Tail(p.queue)) <= MaxSentences + 1 /\ (p.turn.id # 0 => Len(Tail(p.queue)) <= p.turn.said)
    BY <2>1, VoiceNumbers DEF Fits
  <2>3. PICK q : /\ q = [p EXCEPT !.queue = Tail(p.queue)] /\ q \in Page /\ Fits(q, S)
                 /\ q.active = p.active
    BY <2>1, <2>2, QueueFits
  <2>4. Pump(p) = SpeakChunk(q, Head(p.queue))
    BY <1>3, <2>3 DEF Pump
  <2>. QED  BY <1>3, <2>1, <2>3, <2>4, SpeakChunkFits DEF Stilled, Waits
<1>4. CASE p.active /\ ~p.speaking /\ p.queue = <<>>
  <2>1. Pump(p) = AfterTurn(p) \/ Pump(p) = p
    BY <1>4 DEF Pump
  <2>2. Stilled(p, S)
    BY <1>4 DEF Stilled, Waits
  <2>. QED  BY <2>1, <2>2, AfterTurnTypes, SameQuiet
<1>5. p.active \in BOOLEAN /\ p.speaking \in BOOLEAN
  BY DEF Page
<1>. QED  BY <1>1, <1>2, <1>3, <1>4, <1>5

LEMMA EnqueueIsQuiet ==
  ASSUME NEW p \in Page, NEW S, Fits(p, S), NEW s \in Unheard(S), Len(p.queue) <= MaxSentences,
         p.turn.id # 0 => Len(p.queue) + 1 <= p.turn.said
  PROVE  Stilled(Enqueue(p, s), S)
<1>1. PICK q : q = [p EXCEPT !.spoke = TRUE]
  OBVIOUS
<1>2. SameSpeech(p, q)
  BY <1>1 DEF SameSpeech, Page
<1>3. q \in Page /\ Fits(q, S) /\ q.queue = p.queue /\ q.turn = p.turn
  BY <1>2, SameFits DEF SameSpeech
<1>4. PICK queue \in Seq(Unheard(S)) : queue = Append(p.queue, s) /\ Len(queue) = Len(p.queue) + 1
  <2>1. p.queue \in Seq(Unheard(S))
    BY DEF Fits
  <2>2. Append(p.queue, s) \in Seq(Unheard(S)) /\ Len(Append(p.queue, s)) = Len(p.queue) + 1
    BY <2>1, AppendProperties
  <2>. QED  BY <2>2
<1>5. Len(queue) <= MaxSentences + 1 /\ (q.turn.id # 0 => Len(queue) <= q.turn.said)
  BY <1>3, <1>4, VoiceNumbers
<1>6. PICK r : r = [q EXCEPT !.queue = queue] /\ r \in Page /\ Fits(r, S)
  BY <1>3, <1>5, QueueFits
<1>7. Enqueue(p, s) = Pump(r)
  BY <1>1, <1>4, <1>6 DEF Enqueue
<1>. QED  BY <1>6, <1>7, PumpIsQuiet

LEMMA TurnDoneIsQuiet ==
  ASSUME NEW p, NEW S, Stilled(p, S), p.turn.id = 0, Len(p.queue) <= MaxSentences, NEW epoch,
         NEW sentence \in Sentences, epoch = p.epoch /\ sentence # NoSentence => sentence[1] \notin S
  PROVE  Stilled(TurnDone(p, epoch, sentence), S)
<1>1. PICK q : q = [p EXCEPT !.complete = TRUE]
  OBVIOUS
<1>2. SameSpeech(p, q)
  BY <1>1 DEF SameSpeech, Page, Stilled
<1>3. Stilled(q, S) /\ q \in Page /\ Fits(q, S) /\ q.queue = p.queue /\ q.turn = p.turn
  BY <1>2, SameQuiet DEF Stilled, SameSpeech
<1>4. TurnDone(p, epoch, sentence) = IF epoch # p.epoch THEN p
                                     ELSE IF q.spoke THEN Pump(q)
                                     ELSE IF sentence # NoSentence THEN Enqueue(q, sentence) ELSE AfterTurn(q)
  BY <1>1 DEF TurnDone
<1>5. Stilled(Pump(q), S) /\ Stilled(AfterTurn(q), S)
  BY <1>3, PumpIsQuiet, AfterTurnTypes, SameQuiet
<1>6. ASSUME epoch = p.epoch, sentence # NoSentence PROVE Stilled(Enqueue(q, sentence), S)
  BY <1>3, <1>6, EnqueueIsQuiet DEF Unheard
<1>. QED  BY <1>4, <1>5, <1>6

\* Speech is stopped: nothing plays and nothing waits to be said.
LEMMA HushedIsSilent ==
  ASSUME NEW p \in Page
  PROVE  /\ Hushed(p) \in Page /\ Hushed(p).audio = NoAudio /\ Hushed(p).queue = <<>>
         /\ Hushed(p).active = p.active /\ Hushed(p).session = p.session /\ Hushed(p).epoch = p.epoch
         /\ Hushed(p).turn = p.turn /\ Hushed(p).asked = p.asked /\ Hushed(p).fetches = p.fetches
<1>1. PICK a : a = NoAudio
  OBVIOUS
<1>2. a \in [sentence: Sentences, phase: {"none", "playing", "paused", "ended"}]
  BY <1>1, VoiceNumbers DEF NoAudio, NoSentence, Sentences
<1>3. <<>> \in Seq(Sentences)
  BY EmptySeq
<1>4. Hushed(p) = [p EXCEPT !.paused = FALSE, !.audio = a, !.queue = <<>>, !.speaking = FALSE, !.complete = TRUE]
  BY <1>1 DEF Hushed
<1>. QED  BY <1>1, <1>2, <1>3, <1>4 DEF Page

\* A page on which nothing plays or waits is quiet about what it will not be told again.
LEMMA SilentIsQuiet ==
  ASSUME NEW p \in Page, NEW S, p.audio = NoAudio, p.queue = <<>>, S \subseteq 1..p.asked,
         \A f \in p.fetches : f.epoch <= p.epoch /\ (f.epoch = p.epoch => f.sentence[1] \notin S),
         p.turn.epoch <= p.epoch, p.turn.id <= p.asked,
         p.turn.id # 0 /\ p.turn.epoch = p.epoch => p.turn.id \notin S
  PROVE  Stilled(p, S)
<1>1. p.queue \in Seq(Unheard(S)) /\ Len(p.queue) = 0
  BY EmptySeq
<1>2. 0 <= MaxSentences + 1 /\ 0 <= p.turn.said
  BY VoiceNumbers
<1>. QED  BY <1>1, <1>2 DEF Stilled, Fits, Waits, NoAudio

LEMMA StopGenTypes ==
  ASSUME NEW p \in Page
  PROVE  /\ StopGen(p) \in Page /\ StopGen(p).turn = NoTurnYet /\ NoTurnYet.id = 0 /\ NoTurnYet.epoch = 0
         /\ StopGen(p).active = p.active /\ StopGen(p).epoch = p.epoch /\ StopGen(p).asked = p.asked
         /\ StopGen(p).queue = p.queue /\ StopGen(p).fetches = p.fetches /\ StopGen(p).audio = p.audio
<1>. DEFINE u == NoTurnYet
<1>1. u \in VoiceTurn /\ u = NoTurnYet /\ u.id = 0 /\ u.epoch = 0
  <2>1. 0 \in 0..MaxTurns /\ 0 \in 0..MaxCutIns /\ 0 \in 0..MaxSentences
    BY VoiceNumbers
  <2>. QED  BY <2>1 DEF NoTurnYet, VoiceTurn, Epochs
<1>. HIDE DEF u
<1>2. StopGen(p) = [p EXCEPT !.turn = u]
  BY <1>1 DEF StopGen
<1>. QED  BY <1>1, <1>2 DEF Page

LEMMA StopGenIsQuiet == ASSUME NEW p, NEW S, Stilled(p, S) PROVE Stilled(StopGen(p), S)
<1>1. p.epoch \in 0..MaxCutIns /\ p.asked \in 0..MaxTurns /\ MaxCutIns \in Nat /\ MaxTurns \in Nat
  BY VoiceNumbers DEF Stilled
<1>. QED  BY <1>1, StopGenTypes DEF Stilled, Fits, Waits

LEMMA SendIsQuiet ==
  ASSUME NEW p, NEW S, Stilled(p, S), Busy(p) \/ p.asked < MaxTurns
  PROVE  Stilled(Send(p), S)
<1>1. p \in Page /\ Fits(p, S) /\ Waits(p)
  BY DEF Stilled
<1>2. CASE Busy(p)
  BY <1>2 DEF Send
<1>3. CASE ~Busy(p)
  <2>1. /\ p.asked \in 0..MaxTurns /\ MaxTurns \in Nat /\ p.asked < MaxTurns /\ p.epoch \in Epochs
        /\ p.active \in BOOLEAN /\ 0 \in 0..MaxSentences /\ 0 \in FalsePauses
    BY <1>1, <1>3, VoiceNumbers DEF Epochs, FalsePauses
  <2>2. PICK n \in 0..MaxTurns : n = p.asked + 1
    BY <2>1
  <2>3. PICK u : u = [id |-> n, epoch |-> p.epoch, voiced |-> p.active, said |-> 0]
    OBVIOUS
  <2>4. u \in VoiceTurn /\ u.id = n /\ u.epoch = p.epoch /\ u.said = 0
    BY <2>1, <2>3 DEF VoiceTurn
  <2>5. PICK sent : sent = [p EXCEPT !.asked = n, !.turn = u]
    OBVIOUS
  <2>6. PICK reset : reset = [sent EXCEPT !.queue = <<>>, !.complete = FALSE, !.spoke = FALSE,
                                          !.speaking = FALSE, !.falsePauses = 0]
    OBVIOUS
  <2>7. Send(p) = IF p.active THEN reset ELSE sent
    BY <1>3, <2>2, <2>3, <2>5, <2>6 DEF Send
  <2>8. /\ sent \in Page /\ sent.asked = n /\ sent.turn = u /\ sent.queue = p.queue /\ sent.active = p.active
        /\ sent.epoch = p.epoch /\ sent.audio = p.audio /\ sent.fetches = p.fetches
    BY <1>1, <2>4, <2>5 DEF Page
  <2>9. <<>> \in Seq(Sentences)
    BY EmptySeq
  <2>10. /\ reset \in Page /\ reset.asked = n /\ reset.turn = u /\ reset.queue = <<>> /\ reset.active = p.active
         /\ reset.epoch = p.epoch /\ reset.audio = p.audio /\ reset.fetches = p.fetches
    BY <2>1, <2>6, <2>8, <2>9 DEF Page
  <2>11. S \subseteq 1..p.asked
    BY <1>1 DEF Fits
  <2>12. S \subseteq 1..n /\ n \notin S
    BY <2>1, <2>2, <2>11
  <2>13. <<>> \in Seq(Unheard(S)) /\ Len(<<>>) = 0
    BY EmptySeq
  <2>14. CASE p.active
    <3>1. 0 <= MaxSentences + 1 /\ 0 <= 0 /\ n <= n /\ p.epoch <= p.epoch
      BY <1>1, <2>2, VoiceNumbers
    <3>2. Fits(reset, S)
      BY <1>1, <2>4, <2>10, <2>12, <2>13, <3>1 DEF Fits
    <3>. QED  BY <2>7, <2>10, <2>14, <3>2 DEF Stilled, Waits
  <2>15. CASE ~p.active
    <3>1. p.queue = <<>>
      BY <1>1, <2>15 DEF Waits
    <3>2. 0 <= MaxSentences + 1 /\ 0 <= 0 /\ n <= n /\ p.epoch <= p.epoch
      BY <1>1, <2>2, VoiceNumbers
    <3>3. Fits(sent, S)
      BY <1>1, <2>4, <2>8, <2>12, <2>13, <3>1, <3>2 DEF Fits
    <3>. QED  BY <1>1, <2>7, <2>8, <2>15, <3>3 DEF Stilled, Waits
  <2>. QED  BY <2>1, <2>14, <2>15
<1>. QED  BY <1>2, <1>3

\* What plays goes from one phase to another, and is still of the same sentence.
LEMMA AudioGoesOn ==
  ASSUME NEW p, NEW S, Stilled(p, S), p.audio.phase # "none", NEW phase \in {"playing", "paused", "ended"}
  PROVE  Stilled([p EXCEPT !.audio.phase = phase], S)
<1>1. p \in Page /\ p.audio \in [sentence: Sentences, phase: {"none", "playing", "paused", "ended"}]
  BY DEF Stilled, Page
<1>2. PICK a : a = [p.audio EXCEPT !.phase = phase]
  OBVIOUS
<1>3. /\ a \in [sentence: Sentences, phase: {"none", "playing", "paused", "ended"}]
      /\ a.sentence = p.audio.sentence
  BY <1>1, <1>2
<1>4. PICK q : q = [p EXCEPT !.audio = a]
  OBVIOUS
<1>5. q = [p EXCEPT !.audio.phase = phase]
  BY <1>1, <1>2, <1>4
<1>6. /\ q \in Page /\ q.asked = p.asked /\ q.turn = p.turn /\ q.queue = p.queue /\ q.active = p.active
      /\ q.epoch = p.epoch /\ q.audio = a /\ q.fetches = p.fetches
  BY <1>1, <1>3, <1>4 DEF Page
<1>7. Stilled(q, S)
  BY <1>3, <1>6 DEF Stilled, Fits, Waits
<1>. QED  BY <1>5, <1>7

LEMMA ResumeIsQuiet == ASSUME NEW p, NEW S, Stilled(p, S) PROVE Stilled(ResumeAfterFalseBarge(p), S)
<1>1. p \in Page /\ p.paused \in BOOLEAN /\ p.falsePauses \in 0..2 /\ p.audio.phase \in {"none", "playing", "paused", "ended"}
  BY DEF Stilled, Page, FalsePauses
<1>2. CASE ~p.paused
  BY <1>1, <1>2, ListenTypes, SameQuiet DEF ResumeAfterFalseBarge
<1>3. CASE p.paused
  <2>1. PICK n \in FalsePauses : n = IF p.falsePauses < 2 THEN p.falsePauses + 1 ELSE 2
    BY <1>1 DEF FalsePauses
  <2>2. PICK a : a = [p.audio EXCEPT !.phase = IF p.audio.phase = "none" THEN "none" ELSE "playing"]
    OBVIOUS
  <2>3. /\ a \in [sentence: Sentences, phase: {"none", "playing", "paused", "ended"}]
        /\ a.sentence = p.audio.sentence /\ (a.phase # "none" => p.audio.phase # "none")
    BY <1>1, <2>2 DEF Page
  <2>4. PICK r : r = [p EXCEPT !.paused = FALSE, !.falsePauses = n, !.audio = a]
    OBVIOUS
  <2>5. /\ r \in Page /\ r.asked = p.asked /\ r.turn = p.turn /\ r.queue = p.queue /\ r.active = p.active
        /\ r.epoch = p.epoch /\ r.audio = a /\ r.fetches = p.fetches
    BY <1>1, <2>1, <2>3, <2>4 DEF Page
  <2>6. Stilled(r, S)
    BY <2>3, <2>5 DEF Stilled, Fits, Waits
  <2>7. r = [p EXCEPT !.paused = FALSE, !.falsePauses = IF p.falsePauses < 2 THEN p.falsePauses + 1 ELSE 2,
                      !.audio.phase = IF p.audio.phase = "none" THEN "none" ELSE "playing"]
    BY <2>1, <2>2, <2>4
  <2>8. ResumeAfterFalseBarge(p) = IF p.speaking THEN BargeStart(r) ELSE r
    BY <1>3, <2>7 DEF ResumeAfterFalseBarge
  <2>. QED  BY <2>5, <2>6, <2>8, BargeStartTypes, SameQuiet
<1>. QED  BY <1>1, <1>2, <1>3

-----------------------------------------------------------------------------
LEMMA VoiceStarts == VoiceInit => VoiceInv
<1>. SUFFICES ASSUME VoiceInit PROVE VoiceInv
  OBVIOUS
<1>1. /\ 0 \in 0..MaxTurns /\ 0 \in 0..MaxSentences /\ 0 \in Sessions /\ 0 \in Epochs /\ 0 \in FalsePauses
      /\ 0 \in 0..MaxMics /\ 0 <= MaxSentences + 1
  BY VoiceAssumption DEF Sessions, Epochs, FalsePauses
<1>2. NoTurnYet \in VoiceTurn /\ NoTurnYet.id = 0 /\ NoTurnYet.epoch = 0
  BY <1>1 DEF NoTurnYet, VoiceTurn
<1>3. /\ [sentence |-> NoSentence, phase |-> "none"] \in [sentence: Sentences, phase: {"none", "playing", "paused", "ended"}]
      /\ [sentence |-> NoSentence, phase |-> "none"].phase = "none"
  BY <1>1 DEF NoSentence, Sentences
<1>4. /\ [m \in Mics |-> MicOff] \in [Mics -> Mic({"asking", "open"})]
      /\ [m \in Mics |-> MicOff] \in [Mics -> Mic({"asking", "open", "fired"})]
  BY <1>1 DEF MicOff, Mic
<1>5. <<>> \in Seq(Sentences) /\ <<>> \in Seq(Unheard(silenced)) /\ Len(<<>>) = 0
  BY EmptySeq
<1>6. page \in Page
  BY <1>1, <1>2, <1>3, <1>4, <1>5 DEF VoiceInit, Page
<1>7. /\ page.audio.phase = "none" /\ page.fetches = {} /\ page.turn = NoTurnYet /\ page.asked = 0
      /\ page.epoch = 0 /\ page.queue = <<>> /\ silenced = {}
  BY DEF VoiceInit
<1>. QED  BY <1>1, <1>2, <1>5, <1>6, <1>7 DEF VoiceInv, Stilled, Fits, Waits

LEMMA Becoming == ASSUME NEW q, Stilled(q, silenced), Becomes(q) PROVE VoiceInv'
BY DEF Becomes, VoiceInv

LEMMA VoiceFacts ==
  ASSUME VoiceInv
  PROVE  Stilled(page, silenced) /\ page \in Page /\ Fits(page, silenced) /\ Waits(page)
BY DEF VoiceInv, Stilled

LEMMA MicOffFits ==
  0 \in 0..MaxMics /\ MicOff \in Mic({"asking", "open"}) /\ MicOff \in Mic({"asking", "open", "fired"})
<1>1. 0 \in 0..MaxSessions /\ 0 \in 0..MaxMics
  BY VoiceAssumption
<1>. QED  BY <1>1 DEF MicOff, Mic, Sessions

LEMMA SwitchStep == ASSUME VoiceInv, StartVoice \/ EndVoice PROVE VoiceInv'
<1>1. page.session + 1 \in Sessions
  BY VoiceFacts, VoiceNumbers DEF StartVoice, EndVoice, CanSwitch, Sessions
<1>2. CASE StartVoice
  <2>1. PICK q : q = [page EXCEPT !.session = page.session + 1, !.active = TRUE, !.bargeOff = FALSE]
    OBVIOUS
  <2>2. /\ q \in Page /\ q.asked = page.asked /\ q.turn = page.turn /\ q.queue = page.queue /\ q.active = TRUE
        /\ q.epoch = page.epoch /\ q.audio = page.audio /\ q.fetches = page.fetches
    BY <1>1, <2>1, VoiceFacts DEF Page
  <2>3. Stilled(q, silenced)
    BY <2>2, VoiceFacts DEF Stilled, Fits, Waits
  <2>. QED  BY <1>2, <2>1, <2>2, <2>3, ListenTypes, SameQuiet, Becoming DEF StartVoice
<1>3. CASE EndVoice
  <2>1. PICK p \in Page : p = Hushed(BargeStop(page)) /\ p.audio = NoAudio /\ p.queue = <<>>
                          /\ p.epoch = page.epoch /\ p.turn = page.turn /\ p.asked = page.asked
                          /\ p.fetches = page.fetches
    BY VoiceFacts, BargeStopTypes, HushedIsSilent DEF SameSpeech
  <2>2. PICK mics : mics = [m \in Mics |-> IF m = page.stopper THEN MicOff ELSE page.mics[m]]
    OBVIOUS
  <2>3. mics \in [Mics -> Mic({"asking", "open"})] /\ 0 \in 0..MaxMics
    <3>1. page.mics \in [Mics -> Mic({"asking", "open"})]
      BY VoiceFacts DEF Page
    <3>. QED  BY <2>2, <3>1, MicOffFits
  <2>4. PICK q : q = [p EXCEPT !.session = page.session + 1, !.active = FALSE, !.recognizing = FALSE,
                               !.mics = mics, !.stopper = 0]
    OBVIOUS
  <2>5. /\ q \in Page /\ q.asked = page.asked /\ q.turn = page.turn /\ q.queue = <<>> /\ q.epoch = page.epoch
        /\ q.audio = NoAudio /\ q.fetches = page.fetches
    BY <1>1, <2>1, <2>3, <2>4 DEF Page
  <2>6. Stilled(q, silenced)
    BY <2>5, VoiceFacts, SilentIsQuiet DEF Fits
  <2>7. Becomes(q)
    BY <1>3, <2>1, <2>2, <2>4 DEF EndVoice
  <2>. QED  BY <2>6, <2>7, Becoming
<1>. QED  BY <1>2, <1>3

LEMMA MessageStep == ASSUME VoiceInv, TypeMessage \/ ReplyStartsOver PROVE VoiceInv'
<1>1. CASE TypeMessage
  BY <1>1, VoiceFacts, SendIsQuiet, Becoming DEF TypeMessage, CanSend
<1>2. CASE ReplyStartsOver
  <2>1. <<>> \in Seq(Unheard(silenced)) /\ Len(<<>>) = 0
    BY EmptySeq
  <2>2. 0 <= MaxSentences + 1 /\ 0 <= page.turn.said
    BY VoiceFacts, VoiceNumbers
  <2>3. PICK q : q = [page EXCEPT !.queue = <<>>] /\ q \in Page /\ Fits(q, silenced) /\ q.queue = <<>>
    BY <2>1, <2>2, VoiceFacts, QueueFits
  <2>. QED  BY <1>2, <2>3, Becoming DEF ReplyStartsOver, Stilled, Waits
<1>. QED  BY <1>1, <1>2

LEMMA SentenceStep == ASSUME VoiceInv, SentenceComes PROVE VoiceInv'
<1>1. /\ page \in Page /\ page.turn.id # 0 /\ page.turn.said < MaxSentences
      /\ page.turn.said \in 0..MaxSentences /\ MaxSentences \in Nat /\ page.turn \in VoiceTurn
      /\ Len(page.queue) <= page.turn.said /\ Len(page.queue) \in Nat
  BY VoiceFacts, VoiceNumbers DEF SentenceComes, Busy, Fits
<1>2. PICK n \in 0..MaxSentences : n = page.turn.said + 1
  BY <1>1
<1>3. PICK u : u = [page.turn EXCEPT !.said = n]
  OBVIOUS
<1>4. u \in VoiceTurn /\ u.said = n /\ u.id = page.turn.id /\ u.epoch = page.turn.epoch
  BY <1>1, <1>3 DEF VoiceTurn
<1>5. PICK q : q = [page EXCEPT !.turn = u]
  OBVIOUS
<1>6. q = [page EXCEPT !.turn.said = page.turn.said + 1]
  BY <1>2, <1>3, <1>5
<1>7. /\ q \in Page /\ q.asked = page.asked /\ q.turn = u /\ q.queue = page.queue /\ q.active = page.active
      /\ q.epoch = page.epoch /\ q.audio = page.audio /\ q.fetches = page.fetches
  BY <1>1, <1>4, <1>5 DEF Page
<1>8. Len(page.queue) <= n /\ Len(page.queue) + 1 <= n /\ Len(page.queue) <= MaxSentences
  BY <1>1, <1>2
<1>9. Stilled(q, silenced)
  BY <1>4, <1>7, <1>8, VoiceFacts DEF Stilled, Fits, Waits
<1>10. PICK s : s = <<page.turn.id, n>>
  OBVIOUS
<1>11. s \in Sentences /\ s[1] = page.turn.id
  BY <1>1, <1>10, VoiceNumbers DEF Sentences
<1>12. page.turn.epoch = page.epoch => Stilled(Enqueue(q, s), silenced)
  <2>. SUFFICES ASSUME page.turn.epoch = page.epoch PROVE Stilled(Enqueue(q, s), silenced)
    OBVIOUS
  <2>1. s \in Unheard(silenced)
    BY <1>1, <1>11, VoiceFacts DEF Fits, Unheard
  <2>2. q.turn.id # 0 => Len(q.queue) + 1 <= q.turn.said
    BY <1>4, <1>7, <1>8
  <2>. QED  BY <1>7, <1>8, <1>9, <2>1, <2>2, EnqueueIsQuiet DEF Stilled
<1>13. Becomes(IF page.turn.epoch = page.epoch THEN Enqueue(q, s) ELSE q)
  BY <1>2, <1>6, <1>10 DEF SentenceComes
<1>. QED  BY <1>9, <1>12, <1>13, Becoming

LEMMA ReplyEndsStep == ASSUME VoiceInv, ReplyEnds PROVE VoiceInv'
<1>1. PICK sentence \in {NoSentence, <<page.turn.id, 0>>} :
        Becomes(IF page.active THEN TurnDone(StopGen(page), page.turn.epoch, sentence) ELSE StopGen(page))
  BY DEF ReplyEnds
<1>2. PICK p : p = StopGen(page) /\ Stilled(p, silenced) /\ p.turn.id = 0 /\ p.epoch = page.epoch /\ p.queue = page.queue
  BY VoiceFacts, StopGenIsQuiet, StopGenTypes
<1>3. PICK epoch : epoch = page.turn.epoch
  OBVIOUS
<1>4. page.turn.id # 0 /\ Len(p.queue) <= MaxSentences
  BY <1>2, VoiceFacts, VoiceNumbers DEF ReplyEnds, Busy, Fits
<1>5. sentence \in Sentences /\ (sentence # NoSentence => sentence[1] = page.turn.id)
  BY VoiceFacts, VoiceNumbers DEF NoSentence, Sentences
<1>6. epoch = p.epoch /\ sentence # NoSentence => sentence[1] \notin silenced
  BY <1>2, <1>3, <1>4, <1>5, VoiceFacts DEF Fits
<1>7. Stilled(TurnDone(p, epoch, sentence), silenced)
  BY <1>2, <1>4, <1>5, <1>6, TurnDoneIsQuiet
<1>. QED  BY <1>1, <1>2, <1>3, <1>7, Becoming

\* What was asked for until now is silenced, and nothing of it is left to be heard.
LEMMA CutIn ==
  ASSUME VoiceInv, CanCutIn, NEW p \in Page, p.audio = NoAudio, p.queue = <<>>, p.epoch = page.epoch + 1,
         p.turn = NoTurnYet, p.asked = page.asked, p.fetches = page.fetches
  PROVE  Stilled(p, 1..page.asked)
<1>1. /\ page.epoch \in Nat /\ page.asked \in Nat /\ NoTurnYet.id = 0 /\ NoTurnYet.epoch = 0
      /\ \A f \in page.fetches : f.epoch \in Nat /\ f.epoch <= page.epoch
  BY VoiceFacts, VoiceNumbers DEF Fits, NoTurnYet
<1>. QED  BY <1>1, SilentIsQuiet

LEMMA PressSpaceStep == ASSUME VoiceInv, PressSpace PROVE VoiceInv'
<1>1. page.epoch + 1 \in Epochs
  BY VoiceFacts, VoiceNumbers DEF PressSpace, CanCutIn, Epochs
<1>2. PICK p \in Page : p = Hushed(BargeStop(page)) /\ p.audio = NoAudio /\ p.queue = <<>>
                        /\ p.asked = page.asked /\ p.fetches = page.fetches
  BY VoiceFacts, BargeStopTypes, HushedIsSilent DEF SameSpeech
<1>3. PICK q : q = [p EXCEPT !.epoch = page.epoch + 1, !.bargeOff = FALSE]
  OBVIOUS
<1>4. /\ q \in Page /\ q.audio = NoAudio /\ q.queue = <<>> /\ q.epoch = page.epoch + 1
      /\ q.asked = page.asked /\ q.fetches = page.fetches
  BY <1>1, <1>2, <1>3 DEF Page
<1>5. PICK r : r = StopGen(q) /\ Stilled(r, 1..page.asked)
  BY <1>4, StopGenTypes, CutIn DEF PressSpace
<1>6. page' = Listen(r) /\ silenced' = 1..page.asked
  BY <1>2, <1>3, <1>5 DEF PressSpace
<1>7. Stilled(Listen(r), 1..page.asked)
  BY <1>5, ListenTypes, SameQuiet DEF Stilled
<1>. QED  BY <1>6, <1>7 DEF VoiceInv

LEMMA BargeCommitsStep == ASSUME VoiceInv, NEW g \in Sessions, BargeCommits(g) PROVE VoiceInv'
<1>1. page.epoch + 1 \in Epochs /\ page.hearings \ {g} \in SUBSET Sessions
  BY VoiceFacts, VoiceNumbers DEF BargeCommits, CanCutIn, Epochs, Page
<1>2. PICK p \in Page : p = Hushed(page) /\ p.audio = NoAudio /\ p.queue = <<>> /\ p.turn = page.turn
                        /\ p.asked = page.asked /\ p.fetches = page.fetches
  BY VoiceFacts, HushedIsSilent
<1>3. PICK q : q = [p EXCEPT !.hearings = page.hearings \ {g}, !.barged = TRUE, !.epoch = page.epoch + 1]
  OBVIOUS
<1>4. /\ q \in Page /\ q.audio = NoAudio /\ q.queue = <<>> /\ q.epoch = page.epoch + 1 /\ q.turn = page.turn
      /\ q.asked = page.asked /\ q.fetches = page.fetches
  BY <1>1, <1>2, <1>3 DEF Page
<1>5. page' = (IF Busy(page) THEN StopGen(q) ELSE Send(q)) /\ silenced' = 1..page.asked
  BY <1>2, <1>3 DEF BargeCommits
<1>6. CASE Busy(page)
  <2>1. Stilled(StopGen(q), 1..page.asked)
    BY <1>4, StopGenTypes, CutIn DEF BargeCommits
  <2>. QED  BY <1>5, <1>6, <2>1 DEF VoiceInv
<1>7. CASE ~Busy(page)
  <2>1. /\ page.asked \in Nat /\ page.epoch \in Nat /\ page.turn.id = 0
        /\ \A f \in page.fetches : f.epoch \in Nat /\ f.epoch <= page.epoch
        /\ page.turn.epoch \in Nat /\ page.turn.epoch <= page.epoch
    BY <1>7, VoiceFacts, VoiceNumbers DEF Fits, Busy
  <2>2. Stilled(q, 1..page.asked)
    BY <1>4, <2>1, SilentIsQuiet
  <2>3. q.asked < MaxTurns
    BY <1>4, <1>7 DEF BargeCommits, CanSend
  <2>. QED  BY <1>5, <1>7, <2>2, <2>3, SendIsQuiet DEF VoiceInv
<1>. QED  BY <1>6, <1>7

LEMMA TimerStep == ASSUME VoiceInv, TimerFires PROVE VoiceInv'
<1>1. PICK q : q = [page EXCEPT !.waiting = FALSE]
  OBVIOUS
<1>2. SameSpeech(page, q)
  BY <1>1, VoiceFacts DEF SameSpeech, Page
<1>3. Stilled(q, silenced) /\ q \in Page
  BY <1>2, VoiceFacts, SameQuiet DEF Stilled
<1>4. Stilled(Listen(q), silenced)
  BY <1>3, ListenTypes, SameQuiet
<1>. QED  BY <1>1, <1>3, <1>4, Becoming DEF TimerFires

LEMMA FetchStep == ASSUME VoiceInv, NEW f \in page.fetches, FetchEnds(f) PROVE VoiceInv'
<1>1. PICK q : q = [page EXCEPT !.fetches = page.fetches \ {f}]
  OBVIOUS
<1>2. /\ q \in Page /\ q.asked = page.asked /\ q.turn = page.turn /\ q.queue = page.queue /\ q.active = page.active
      /\ q.epoch = page.epoch /\ q.audio = page.audio /\ q.fetches = page.fetches \ {f}
  BY <1>1, VoiceFacts DEF Page
<1>3. Stilled(q, silenced)
  BY <1>2, VoiceFacts DEF Stilled, Fits, Waits
<1>4. CASE Stale(page, f)
  BY <1>1, <1>3, <1>4, Becoming DEF FetchEnds
<1>5. CASE ~Stale(page, f)
  <2>1. page.active /\ f.epoch = page.epoch /\ f.sentence \in Sentences
    BY <1>5, VoiceFacts DEF Stale, Page, Fetch
  <2>2. f.sentence[1] \notin silenced
    BY <2>1, VoiceFacts DEF Fits
  <2>3. PICK a : a = [sentence |-> f.sentence, phase |-> "playing"]
    OBVIOUS
  <2>4. a \in [sentence: Sentences, phase: {"none", "playing", "paused", "ended"}] /\ a.sentence = f.sentence
    BY <2>1, <2>3
  <2>5. PICK r : r = [q EXCEPT !.audio = a]
    OBVIOUS
  <2>6. /\ r \in Page /\ r.asked = q.asked /\ r.turn = q.turn /\ r.queue = q.queue /\ r.active = q.active
        /\ r.epoch = q.epoch /\ r.audio = a /\ r.fetches = q.fetches
    BY <1>2, <2>4, <2>5 DEF Page
  <2>7. Stilled(r, silenced)
    BY <1>2, <1>3, <2>1, <2>2, <2>4, <2>6 DEF Stilled, Fits, Waits
  <2>8. PICK t : t = [q EXCEPT !.speaking = FALSE]
    OBVIOUS
  <2>9. SameSpeech(q, t)
    BY <1>2, <2>8 DEF SameSpeech, Page
  <2>10. t \in Page /\ Fits(t, silenced)
    BY <1>3, <2>9, SameQuiet DEF Stilled
  <2>11. Becomes(r) \/ Becomes(Pump(t))
    BY <1>1, <1>5, <2>3, <2>5, <2>8 DEF FetchEnds
  <2>. QED  BY <2>7, <2>10, <2>11, PumpIsQuiet, Becoming
<1>. QED  BY <1>4, <1>5

LEMMA AudioStep ==
  ASSUME VoiceInv, AudioEnds \/ \E m \in Mics : BargeFires(m) PROVE VoiceInv'
<1>1. page.audio.phase = "playing"
  BY DEF AudioEnds, BargeFires
<1>2. CASE AudioEnds
  <2>1. Stilled([page EXCEPT !.audio.phase = "ended"], silenced)
    BY <1>1, VoiceFacts, AudioGoesOn
  <2>2. PICK a : a = NoAudio
    OBVIOUS
  <2>3. a \in [sentence: Sentences, phase: {"none", "playing", "paused", "ended"}] /\ a.phase = "none"
    BY <2>2, VoiceFacts, VoiceNumbers DEF NoAudio, NoSentence, Sentences
  <2>4. PICK q : q = [page EXCEPT !.audio = a, !.speaking = FALSE]
    OBVIOUS
  <2>5. /\ q \in Page /\ q.asked = page.asked /\ q.turn = page.turn /\ q.queue = page.queue
        /\ q.active = page.active /\ q.epoch = page.epoch /\ q.audio = a /\ q.fetches = page.fetches
    BY <2>3, <2>4, VoiceFacts DEF Page
  <2>6. Fits(q, silenced)
    BY <2>3, <2>5, VoiceFacts DEF Fits
  <2>7. Becomes([page EXCEPT !.audio.phase = "ended"]) \/ Becomes(Pump(q))
    BY <1>2, <2>2, <2>4 DEF AudioEnds
  <2>. QED  BY <2>1, <2>5, <2>6, <2>7, PumpIsQuiet, Becoming
<1>3. ASSUME NEW m \in Mics, BargeFires(m) PROVE VoiceInv'
  <2>1. PICK barges : barges = [page.barges EXCEPT ![m] = [page.barges[m] EXCEPT !.phase = "fired"]]
    OBVIOUS
  <2>2. page.barges[m] \in Mic({"asking", "open", "fired"}) /\ page.barges \in [Mics -> Mic({"asking", "open", "fired"})]
    BY VoiceFacts DEF Page
  <2>3. barges \in [Mics -> Mic({"asking", "open", "fired"})]
    BY <2>1, <2>2 DEF Mic
  <2>4. PICK a : a = [page.audio EXCEPT !.phase = "paused"]
    OBVIOUS
  <2>5. /\ a \in [sentence: Sentences, phase: {"none", "playing", "paused", "ended"}]
        /\ a.sentence = page.audio.sentence
    BY <2>4, VoiceFacts DEF Page
  <2>6. PICK q : q = [page EXCEPT !.barges = barges, !.paused = TRUE, !.audio = a]
    OBVIOUS
  <2>7. /\ q \in Page /\ q.asked = page.asked /\ q.turn = page.turn /\ q.queue = page.queue
        /\ q.active = page.active /\ q.epoch = page.epoch /\ q.audio = a /\ q.fetches = page.fetches
    BY <2>3, <2>5, <2>6, VoiceFacts DEF Page
  <2>8. Stilled(q, silenced)
    BY <1>1, <2>5, <2>7, VoiceFacts DEF Stilled, Fits, Waits
  <2>9. q = [page EXCEPT !.barges[m].phase = "fired", !.paused = TRUE, !.audio.phase = "paused"]
    BY <2>1, <2>4, <2>6
  <2>. QED  BY <1>3, <2>8, <2>9, Becoming DEF BargeFires
<1>. QED  BY <1>2, <1>3

\* The microphone of a capture, or of what is said over a reply, is answered for.
LEMMA MicStep == ASSUME VoiceInv, NEW m \in Mics, BargeMicAnswers(m) \/ MicAnswers(m) PROVE VoiceInv'
<1>1. /\ page \in Page /\ page.barges \in [Mics -> Mic({"asking", "open", "fired"})]
      /\ page.mics \in [Mics -> Mic({"asking", "open"})] /\ m \in 0..MaxMics
      /\ MicOff \in Mic({"asking", "open", "fired"}) /\ MicOff \in Mic({"asking", "open"})
  <2>1. m \in 0..MaxMics
    BY VoiceAssumption DEF Mics
  <2>. QED  BY <2>1, VoiceFacts, MicOffFits DEF Page
<1>2. PICK b1 : b1 = [page.barges EXCEPT ![m] = MicOff]
  OBVIOUS
<1>3. PICK b2 : b2 = [page.barges EXCEPT ![m] = [page.barges[m] EXCEPT !.phase = "open"]]
  OBVIOUS
<1>4. PICK c1 : c1 = [page.mics EXCEPT ![m] = MicOff]
  OBVIOUS
<1>5. PICK c2 : c2 = [page.mics EXCEPT ![m] = [page.mics[m] EXCEPT !.phase = "open"]]
  OBVIOUS
<1>6. b1 \in [Mics -> Mic({"asking", "open", "fired"})] /\ c1 \in [Mics -> Mic({"asking", "open"})]
  BY <1>1, <1>2, <1>4
<1>7. b2 \in [Mics -> Mic({"asking", "open", "fired"})]
  BY <1>1, <1>3 DEF Mic
<1>8. c2 \in [Mics -> Mic({"asking", "open"})]
  BY <1>1, <1>5 DEF Mic
<1>9. PICK q1, q2, q3, q4 :
        /\ q1 = [page EXCEPT !.barges = b1]
        /\ q2 = [page EXCEPT !.barges = b2, !.barge = m, !.barged = FALSE]
        /\ q3 = [page EXCEPT !.mics = c1, !.recognizing = FALSE]
        /\ q4 = [page EXCEPT !.mics = c2, !.stopper = m]
  OBVIOUS
<1>10. \A q \in {q1, q2, q3, q4} : SameSpeech(page, q)
  <2>1. SameSpeech(page, q1)
    BY <1>1, <1>6, <1>9 DEF SameSpeech, Page
  <2>2. SameSpeech(page, q2)
    BY <1>1, <1>7, <1>9 DEF SameSpeech, Page
  <2>3. SameSpeech(page, q3)
    BY <1>1, <1>6, <1>9 DEF SameSpeech, Page
  <2>4. SameSpeech(page, q4)
    BY <1>1, <1>8, <1>9 DEF SameSpeech, Page
  <2>. QED  BY <2>1, <2>2, <2>3, <2>4
<1>11. \A q \in {q1, q2, q3, q4} : Stilled(q, silenced)
  BY <1>10, VoiceFacts, SameQuiet
<1>12. /\ q1 = [page EXCEPT !.barges[m] = MicOff]
       /\ q2 = [page EXCEPT !.barges[m].phase = "open", !.barge = m, !.barged = FALSE]
       /\ q3 = [page EXCEPT !.mics[m] = MicOff, !.recognizing = FALSE]
       /\ q4 = [page EXCEPT !.mics[m].phase = "open", !.stopper = m]
  BY <1>2, <1>3, <1>4, <1>5, <1>9
<1>13. Becomes(q1) \/ Becomes(q2) \/ Becomes(q3) \/ Becomes(q4)
  BY <1>12 DEF BargeMicAnswers, MicAnswers
<1>. QED  BY <1>11, <1>13, Becoming

LEMMA BargeHeardStep ==
  ASSUME VoiceInv, (\E m \in Mics : BargeGoesQuiet(m)) \/ (\E g \in Sessions : BargeWasNothing(g)) PROVE VoiceInv'
<1>1. ASSUME NEW m \in Mics, BargeGoesQuiet(m) PROVE VoiceInv'
  <2>1. PICK p \in Page : p = BargeStop(page) /\ SameSpeech(page, p) /\ Stilled(p, silenced)
    BY VoiceFacts, BargeStopTypes, SameQuiet DEF SameSpeech
  <2>2. page.hearings \cup {page.barges[m].session} \in SUBSET Sessions
    BY VoiceFacts DEF Page, Mic
  <2>3. PICK q : q = [p EXCEPT !.hearings = page.hearings \cup {page.barges[m].session}]
    OBVIOUS
  <2>4. SameSpeech(p, q)
    BY <2>2, <2>3 DEF SameSpeech, Page
  <2>5. Becomes(p) \/ Becomes(q)
    BY <1>1, <2>1, <2>3 DEF BargeGoesQuiet
  <2>. QED  BY <2>1, <2>4, <2>5, SameQuiet, Becoming
<1>2. ASSUME NEW g \in Sessions, BargeWasNothing(g) PROVE VoiceInv'
  <2>1. PICK p : p = [page EXCEPT !.hearings = page.hearings \ {g}]
    OBVIOUS
  <2>2. SameSpeech(page, p)
    BY <2>1, VoiceFacts DEF SameSpeech, Page
  <2>3. Stilled(p, silenced) /\ p \in Page
    BY <2>2, VoiceFacts, SameQuiet DEF Stilled
  <2>4. PICK q \in Page : q = BargeStop(p) /\ Stilled(q, silenced)
    BY <2>3, BargeStopTypes, SameQuiet DEF SameSpeech
  <2>5. PICK r : r = [q EXCEPT !.bargeOff = TRUE]
    OBVIOUS
  <2>6. SameSpeech(q, r)
    BY <2>4, <2>5 DEF SameSpeech, Page
  <2>7. Stilled(r, silenced)
    BY <2>4, <2>6, SameQuiet
  <2>8. Becomes(p) \/ Becomes(ResumeAfterFalseBarge(p)) \/ Becomes(ResumeAfterFalseBarge(r))
    BY <1>2, <2>1, <2>4, <2>5 DEF BargeWasNothing
  <2>. QED  BY <2>3, <2>7, <2>8, ResumeIsQuiet, Becoming
<1>. QED  BY <1>1, <1>2

LEMMA RecordingStep ==
  ASSUME VoiceInv, (\E m \in Mics : RecordingEnds(m)) \/ (\E g \in Sessions : Dictated(g)) PROVE VoiceInv'
<1>1. ASSUME NEW m \in Mics, RecordingEnds(m) PROVE VoiceInv'
  <2>1. PICK mics : mics = [page.mics EXCEPT ![m] = MicOff]
    OBVIOUS
  <2>2. page.mics \in [Mics -> Mic({"asking", "open"})] /\ 0 \in 0..MaxMics /\ MicOff \in Mic({"asking", "open"})
    BY VoiceFacts, MicOffFits DEF Page
  <2>3. mics \in [Mics -> Mic({"asking", "open"})] /\ page.dictations \cup {page.mics[m].session} \in SUBSET Sessions
    BY <2>1, <2>2, VoiceFacts DEF Page, Mic
  <2>4. PICK p : p = [page EXCEPT !.mics = mics, !.stopper = 0, !.recognizing = FALSE]
    OBVIOUS
  <2>5. SameSpeech(page, p)
    BY <2>2, <2>3, <2>4, VoiceFacts DEF SameSpeech, Page
  <2>6. Stilled(p, silenced) /\ p \in Page
    BY <2>5, VoiceFacts, SameQuiet DEF Stilled
  <2>7. PICK q : q = [p EXCEPT !.dictations = page.dictations \cup {page.mics[m].session}]
    OBVIOUS
  <2>8. SameSpeech(p, q)
    BY <2>3, <2>6, <2>7 DEF SameSpeech, Page
  <2>9. Stilled(q, silenced)
    BY <2>6, <2>8, SameQuiet
  <2>10. p = [page EXCEPT !.mics[m] = MicOff, !.stopper = 0, !.recognizing = FALSE]
    BY <2>1, <2>4
  <2>11. Becomes(p) \/ Becomes(Listen(p)) \/ Becomes(q)
    BY <1>1, <2>7, <2>10 DEF RecordingEnds
  <2>12. Stilled(Listen(p), silenced)
    BY <2>6, ListenTypes, SameQuiet
  <2>. QED  BY <2>6, <2>9, <2>11, <2>12, Becoming
<1>2. ASSUME NEW g \in Sessions, Dictated(g) PROVE VoiceInv'
  <2>1. PICK p : p = [page EXCEPT !.dictations = page.dictations \ {g}]
    OBVIOUS
  <2>2. SameSpeech(page, p)
    BY <2>1, VoiceFacts DEF SameSpeech, Page
  <2>3. Stilled(p, silenced) /\ p \in Page
    BY <2>2, VoiceFacts, SameQuiet DEF Stilled
  <2>4. Becomes(p) \/ Becomes(Listen(p)) \/ (CanSend /\ Becomes(Send(p)))
    BY <1>2, <2>1 DEF Dictated
  <2>5. Stilled(Listen(p), silenced)
    BY <2>3, ListenTypes, SameQuiet
  <2>6. CanSend => Stilled(Send(p), silenced)
    BY <2>2, <2>3, SendIsQuiet DEF CanSend, Busy, SameSpeech
  <2>. QED  BY <2>3, <2>4, <2>5, <2>6, Becoming
<1>. QED  BY <1>1, <1>2

LEMMA VoiceStep == ASSUME VoiceInv, [VoiceNext]_voicevars PROVE VoiceInv'
<1>1. CASE UNCHANGED voicevars
  BY <1>1 DEF voicevars, VoiceInv
<1>2. CASE VoiceNext
  BY <1>2, SwitchStep, MessageStep, SentenceStep, ReplyEndsStep, PressSpaceStep, BargeCommitsStep, TimerStep,
     FetchStep, AudioStep, MicStep, BargeHeardStep, RecordingStep DEF VoiceNext
<1>. QED  BY <1>1, <1>2
-----------------------------------------------------------------------------
\* The commands of a request


\* The commands under way are no developer's for a personal account, and only the topmost
\* waits for the dispatchers.
FramesFit ==
  /\ frames \in Seq(Frame) /\ Len(frames) <= MaxFrames
  /\ Personal => \A i \in 1..Len(frames) : frames[i].do \notin Composites
  /\ \A i \in 1..(Len(frames) - 1) : frames[i].do # "limits"

NoneAtLimits == \A i \in 1..Len(frames) : frames[i].do # "limits"

\* Once a tool ran for a session that had ended, no command waits for the dispatchers.
DispatchInv ==
  /\ DispatchTypeOK /\ EveryCommandIsHeldToItsAccount /\ FramesFit
  /\ frames # <<>> => begun >= 1
  /\ late = 0 \/ (SignedOut /\ NoneAtLimits)

LEMMA Beginnings ==
  ASSUME NEW S, NEW s \in Seq(S), NEW m \in 0..Len(s)
  PROVE  /\ SubSeq(s, 1, m) \in Seq(S) /\ Len(SubSeq(s, 1, m)) = m
         /\ \A i \in 1..m : SubSeq(s, 1, m)[i] = s[i]
<1>1. 1 \in Int /\ m \in Int /\ Len(s) \in Nat /\ \A i \in 1..m : s[i] \in S /\ 1 + i - 1 = i
  OBVIOUS
<1>2. /\ SubSeq(s, 1, m) \in Seq(S) /\ Len(SubSeq(s, 1, m)) = IF 1 <= m THEN m - 1 + 1 ELSE 0
      /\ \A i \in 1..m - 1 + 1 : SubSeq(s, 1, m)[i] = s[1 + i - 1]
  BY <1>1, SubSeqProperties
<1>. QED  BY <1>1, <1>2

LEMMA TopAndBelow ==
  ASSUME DispatchTypeOK, frames # <<>>
  PROVE  /\ Len(frames) \in Nat \ {0} /\ Top \in Frame /\ Len(Below) = Len(frames) - 1
         /\ Below \in Seq(Frame) /\ \A i \in 1..(Len(frames) - 1) : Below[i] = frames[i]
<1>. DEFINE n == Len(frames)
<1>1. frames \in Seq(Frame) /\ n \in Nat /\ n # 0
  BY EmptySeq DEF DispatchTypeOK
<1>2. n \in 1..n /\ frames[n] \in Frame
  BY <1>1
<1>3. /\ SubSeq(frames, 1, n - 1) \in Seq(Frame) /\ Len(SubSeq(frames, 1, n - 1)) = n - 1
      /\ \A i \in 1..(n - 1) : SubSeq(frames, 1, n - 1)[i] = frames[i]
  <2>1. PICK s \in Seq(Frame) : s = frames
    BY <1>1
  <2>2. PICK m \in 0..Len(s) : m = n - 1
    BY <1>1, <2>1
  <2>. QED  BY <2>1, <2>2, Beginnings
<1>. QED  BY <1>1, <1>2, <1>3 DEF Top, Below

\* Some of the commands under way go on, the topmost is over.
LEMMA Shortened ==
  ASSUME DispatchInv, UNCHANGED account, frames # <<>>,
         NEW m \in 0..(Len(frames) - 1), frames' = SubSeq(frames, 1, m)
  PROVE  FramesFit' /\ NoneAtLimits'
<1>1. frames \in Seq(Frame) /\ Len(frames) \in Nat /\ Len(frames) <= MaxFrames /\ MaxFrames \in Nat
  BY DispatchAssumption DEF DispatchInv, FramesFit
<1>2. PICK s \in Seq(Frame) : s = frames
  BY <1>1
<1>3. /\ frames' \in Seq(Frame) /\ Len(frames') = m
      /\ \A i \in 1..m : frames'[i] = frames[i] /\ i \in 1..(Len(frames) - 1) /\ i \in 1..Len(frames)
  BY <1>1, <1>2, Beginnings
<1>4. Len(frames') <= MaxFrames /\ \A i \in 1..(Len(frames') - 1) : i \in 1..m
  BY <1>1, <1>3
<1>5. NoneAtLimits'
  BY <1>3 DEF NoneAtLimits, DispatchInv, FramesFit
<1>6. Personal' => \A i \in 1..m : frames'[i].do \notin Composites
  BY <1>3 DEF DispatchInv, FramesFit, Personal
<1>. QED  BY <1>3, <1>4, <1>5, <1>6 DEF FramesFit, NoneAtLimits

LEMMA Returned ==
  ASSUME DispatchInv, UNCHANGED account, frames # <<>>, Return
  PROVE  FramesFit' /\ NoneAtLimits'
<1>1. PICK m \in 0..(Len(frames) - 1) : m = Len(frames) - 1
  BY TopAndBelow DEF DispatchInv
<1>. QED  BY <1>1, Shortened DEF Return, Below

LEMMA NothingUnderWay ==
  ASSUME frames' = <<>>
  PROVE  FramesFit' /\ NoneAtLimits'
<1>1. <<>> \in Seq(Frame) /\ Len(<<>>) = 0 /\ \A i \in 1..0 : FALSE
  BY EmptySeq
<1>2. MaxFrames \in Nat /\ 1..(0 - 1) = {} /\ 1..0 = {}
  BY DispatchAssumption
<1>. QED  BY <1>1, <1>2 DEF FramesFit, NoneAtLimits

LEMMA Unwound ==
  ASSUME DispatchInv, UNCHANGED account, frames # <<>>, Unwind
  PROVE  FramesFit' /\ NoneAtLimits'
<1>1. CASE frames' = <<>>
  BY <1>1, NothingUnderWay
<1>2. ASSUME NEW m \in 1..(Len(frames) - 1), frames' = SubSeq(frames, 1, m)
      PROVE  FramesFit' /\ NoneAtLimits'
  <2>1. m \in 0..(Len(frames) - 1)
    BY TopAndBelow DEF DispatchInv
  <2>. QED  BY <1>2, <2>1, Shortened
<1>. QED  BY <1>1, <1>2 DEF Unwind

\* The topmost command goes on to another place.
LEMMA TopGoes ==
  ASSUME DispatchInv, UNCHANGED account, frames # <<>>, NEW f \in Frame, Goes(f),
         Personal => f.do \notin Composites
  PROVE  /\ FramesFit' /\ Len(frames') = Len(frames) /\ frames'[Len(frames)] = f
         /\ f.do # "limits" => NoneAtLimits'
<1>1. /\ frames \in Seq(Frame) /\ Len(frames) \in Nat \ {0} /\ Below \in Seq(Frame)
      /\ Len(Below) = Len(frames) - 1 /\ \A i \in 1..(Len(frames) - 1) : Below[i] = frames[i]
  BY TopAndBelow DEF DispatchInv, FramesFit
<1>2. /\ frames' \in Seq(Frame) /\ Len(frames') = Len(frames) /\ frames'[Len(frames)] = f
      /\ \A i \in 1..(Len(frames) - 1) : frames'[i] = frames[i]
  BY <1>1, AppendProperties DEF Goes
<1>3. \A i \in 1..Len(frames) : i = Len(frames) \/ (i \in 1..(Len(frames) - 1) /\ i \in 1..Len(frames))
  BY <1>1
<1>4. Personal' => \A i \in 1..Len(frames) : frames'[i].do \notin Composites
  BY <1>2, <1>3 DEF DispatchInv, FramesFit, Personal
<1>5. \A i \in 1..(Len(frames) - 1) : frames'[i].do # "limits"
  BY <1>2 DEF DispatchInv, FramesFit
<1>6. f.do # "limits" => NoneAtLimits'
  BY <1>2, <1>3, <1>5 DEF NoneAtLimits
<1>. QED  BY <1>2, <1>4, <1>5, <1>6 DEF DispatchInv, FramesFit

\* A command is begun on top of one that waits for it.
LEMMA GoesUnder ==
  ASSUME DispatchInv, UNCHANGED account, frames # <<>>, NEW f \in Frame, NEW g \in Frame, Under(f, g),
         Personal => f.do \notin Composites /\ g.do \notin Composites,
         f.do # "limits", g.do # "limits"
  PROVE  FramesFit' /\ NoneAtLimits' /\ begun' \in 1..MaxBegun
<1>1. /\ frames \in Seq(Frame) /\ Len(frames) \in Nat \ {0} /\ Below \in Seq(Frame)
      /\ Len(Below) = Len(frames) - 1 /\ \A i \in 1..(Len(frames) - 1) : Below[i] = frames[i]
  BY TopAndBelow DEF DispatchInv, FramesFit
<1>2. /\ Append(Below, f) \in Seq(Frame) /\ Len(Append(Below, f)) = Len(frames)
      /\ Append(Below, f)[Len(frames)] = f /\ \A i \in 1..(Len(frames) - 1) : Append(Below, f)[i] = frames[i]
  BY <1>1, AppendProperties
<1>3. PICK s \in Seq(Frame) : s = Append(Below, f)
  BY <1>2
<1>4. frames' = Append(s, g) /\ Len(frames) < MaxFrames /\ begun' = begun + 1 /\ begun < MaxBegun
  BY <1>3 DEF Under
<1>5. /\ frames' \in Seq(Frame) /\ Len(frames') = Len(frames) + 1 /\ frames'[Len(frames) + 1] = g
      /\ frames'[Len(frames)] = f /\ \A i \in 1..(Len(frames) - 1) : frames'[i] = frames[i]
  BY <1>1, <1>2, <1>3, <1>4, AppendProperties
<1>6. \A i \in 1..(Len(frames) + 1) :
        i = Len(frames) + 1 \/ i = Len(frames) \/ (i \in 1..(Len(frames) - 1) /\ i \in 1..Len(frames))
  BY <1>1
<1>7. Personal' => \A i \in 1..Len(frames') : frames'[i].do \notin Composites
  BY <1>5, <1>6 DEF DispatchInv, FramesFit, Personal
<1>8. \A i \in 1..Len(frames') : frames'[i].do # "limits"
  BY <1>5, <1>6 DEF DispatchInv, FramesFit
<1>9. Len(frames') <= MaxFrames /\ begun' \in 1..MaxBegun /\ \A i \in 1..(Len(frames') - 1) : i \in 1..Len(frames')
  BY <1>1, <1>4, <1>5, DispatchAssumption DEF DispatchInv, DispatchTypeOK
<1>. QED  BY <1>5, <1>7, <1>8, <1>9 DEF FramesFit, NoneAtLimits

LEMMA CommandIsAFrame ==
  ASSUME NEW t \in Texts, NEW planner \in BOOLEAN, NEW whole \in BOOLEAN
  PROVE  Command(t, planner, whole) \in Frame /\ Command(t, planner, whole).do = "begin"
BY DispatchAssumption DEF Command, Frame

LEMMA AgentRunIsAFrame == AgentRun \in Frame /\ AgentRun.do = "agent"
BY DispatchAssumption DEF AgentRun, Frame, Texts, Composites

LEMMA DispatchStarts == DispatchInit => DispatchInv
<1>. SUFFICES ASSUME DispatchInit PROVE DispatchInv
  OBVIOUS
<1>1. <<>> \in Seq(Frame) /\ Len(<<>>) = 0 /\ MaxFrames \in Nat /\ MaxBegun \in Nat /\ 1..0 = {} /\ 1..(0 - 1) = {}
  BY DispatchAssumption, EmptySeq
<1>2. FramesFit
  BY <1>1 DEF DispatchInit, FramesFit
<1>3. DispatchTypeOK
  BY <1>1 DEF DispatchInit, DispatchTypeOK
<1>4. EveryCommandIsHeldToItsAccount
  BY <1>1 DEF DispatchInit, EveryCommandIsHeldToItsAccount, PersonalIsEveryday, WorkEndsWithItsSession
<1>. QED  BY <1>2, <1>3, <1>4 DEF DispatchInit, DispatchInv

\* A step on which no tool runs.
LEMMA QuietStep ==
  ASSUME DispatchInv, Quiet, FramesFit', begun' \in 0..MaxBegun,
         frames' # <<>> => begun' >= 1, NoneAtLimits' \/ late = 0
  PROVE  DispatchInv'
<1>1. UNCHANGED <<account, session, ran, late>>
  BY DEF Quiet
<1>2. DispatchTypeOK'
  BY <1>1 DEF DispatchInv, DispatchTypeOK, FramesFit
<1>3. Personal => ran \subseteq {"everyday"}
  BY DEF DispatchInv, EveryCommandIsHeldToItsAccount, PersonalIsEveryday
<1>4. PersonalIsEveryday'
  <2>1. ran' \subseteq Tools /\ (Personal' => ran' \subseteq {"everyday"})
    BY <1>1, <1>2, <1>3 DEF DispatchTypeOK, Personal
  <2>2. DOMAIN frames' = 1..Len(frames')
    BY DEF FramesFit
  <2>. QED  BY <2>1, <2>2 DEF FramesFit, PersonalIsEveryday
<1>5. WorkEndsWithItsSession'
  BY <1>1 DEF DispatchInv, EveryCommandIsHeldToItsAccount, WorkEndsWithItsSession
<1>6. SignedOut' = SignedOut
  BY <1>1 DEF SignedOut
<1>. QED  BY <1>1, <1>2, <1>4, <1>5, <1>6 DEF DispatchInv, EveryCommandIsHeldToItsAccount

LEMMA FramesAreBegun ==
  ASSUME DispatchInv, frames # <<>>
  PROVE  begun \in 1..MaxBegun /\ begun \in 0..MaxBegun /\ DispatchTypeOK /\ Top \in Frame
BY TopAndBelow, DispatchAssumption DEF DispatchInv, DispatchTypeOK

LEMMA OneFrame ==
  ASSUME NEW f \in Frame, frames' = <<f>>, f.do # "limits", Personal' => f.do \notin Composites
  PROVE  FramesFit' /\ NoneAtLimits'
<1>1. /\ <<f>> \in Seq(Frame) /\ Len(<<f>>) = 1 /\ <<f>>[1] = f
      /\ 1 <= MaxFrames /\ \A i \in 1..1 : i = 1 /\ 1..(1 - 1) = {}
  BY DispatchAssumption
<1>2. frames' \in Seq(Frame) /\ Len(frames') = 1 /\ \A i \in 1..1 : frames'[i] = f
  BY <1>1
<1>3. \A i \in 1..(1 - 1) : frames'[i].do # "limits"
  BY <1>1
<1>. QED  BY <1>1, <1>2, <1>3 DEF FramesFit, NoneAtLimits

LEMMA AskedStep == ASSUME DispatchInv, Ask PROVE DispatchInv'
<1>1. begun' = 1 /\ begun' \in 0..MaxBegun /\ Quiet /\ account' = account
  BY DispatchAssumption DEF Ask, Quiet
<1>2. ASSUME NEW t \in Texts, frames' = <<Command(t, TRUE, TRUE)>> PROVE FramesFit' /\ NoneAtLimits'
  <2>1. PICK f \in Frame : f = Command(t, TRUE, TRUE)
    BY CommandIsAFrame
  <2>2. f.do = "begin"
    BY <2>1, CommandIsAFrame
  <2>. QED  BY <1>2, <2>1, <2>2, OneFrame DEF Composites
<1>3. ASSUME account = "dev", frames' = <<AgentRun>> PROVE FramesFit' /\ NoneAtLimits'
  <2>1. PICK f \in Frame : f = AgentRun
    BY AgentRunIsAFrame
  <2>2. f.do # "limits" /\ (Personal' => f.do \notin Composites)
    BY <1>1, <1>3, <2>1, AgentRunIsAFrame DEF Personal
  <2>. QED  BY <1>3, <2>1, <2>2, OneFrame
<1>4. ASSUME account = "owner", frames' = <<[AgentRun EXCEPT !.do = "due", !.text = "due"]>>
      PROVE  FramesFit' /\ NoneAtLimits'
  <2>1. [AgentRun EXCEPT !.do = "due", !.text = "due"] \in Frame /\ [AgentRun EXCEPT !.do = "due", !.text = "due"].do = "due"
    BY AgentRunIsAFrame DEF Frame, Texts, Composites
  <2>2. PICK f \in Frame : f = [AgentRun EXCEPT !.do = "due", !.text = "due"]
    BY <2>1
  <2>3. f.do # "limits" /\ (Personal' => f.do \notin Composites)
    BY <1>1, <1>4, <2>1, <2>2 DEF Personal
  <2>. QED  BY <1>4, <2>2, <2>3, OneFrame
<1>5. FramesFit' /\ NoneAtLimits'
  <2>1. \/ \E t \in Texts : frames' = <<Command(t, TRUE, TRUE)>>
        \/ account = "dev" /\ frames' = <<AgentRun>>
        \/ account = "owner" /\ frames' = <<[AgentRun EXCEPT !.do = "due", !.text = "due"]>>
    BY ZenonT(30) DEF Ask
  <2>. QED  BY <1>2, <1>3, <1>4, <2>1
<1>. QED  BY <1>1, <1>5, QuietStep

LEMMA SessionEndsStep == ASSUME DispatchInv, SessionEnds PROVE DispatchInv'
<1>1. UNCHANGED <<account, frames, begun, ran, late>> /\ session' = FALSE /\ account # "owner"
  BY DEF SessionEnds
<1>2. DispatchTypeOK' /\ FramesFit' /\ EveryCommandIsHeldToItsAccount' /\ NoneAtLimits' = NoneAtLimits
  BY <1>1 DEF DispatchInv, DispatchTypeOK, FramesFit, EveryCommandIsHeldToItsAccount, PersonalIsEveryday,
     WorkEndsWithItsSession, NoneAtLimits, Personal
<1>3. SignedOut'
  BY <1>1 DEF SignedOut
<1>. QED  BY <1>1, <1>2, <1>3 DEF DispatchInv

LEMMA BeginStep == ASSUME DispatchInv, Begin PROVE DispatchInv'
<1>1. frames # <<>> /\ Top.do = "begin" /\ begun' = begun /\ Quiet /\ UNCHANGED account
  BY DEF Begin, TopIs, Quiet
<1>2. begun' \in 1..MaxBegun /\ begun' \in 0..MaxBegun /\ Top \in Frame /\ begun' >= 1
  BY <1>1, FramesAreBegun
<1>3. CASE Unwind \/ Return
  <2>1. FramesFit' /\ NoneAtLimits'
    BY <1>1, <1>3, Unwound, Returned
  <2>. QED  BY <1>1, <1>2, <2>1, QuietStep
<1>4. ASSUME ~SignedOut, NEW t \in Texts, Goes([Top EXCEPT !.do = "limits", !.text = t]) PROVE DispatchInv'
  <2>1. PICK f \in Frame : f = [Top EXCEPT !.do = "limits", !.text = t]
    BY <1>2 DEF Frame
  <2>2. f.do = "limits"
    BY <1>2, <2>1 DEF Frame
  <2>3. FramesFit'
    BY <1>1, <1>4, <2>1, <2>2, TopGoes DEF Composites
  <2>4. late = 0
    BY <1>4 DEF DispatchInv
  <2>. QED  BY <1>1, <1>2, <2>3, <2>4, QuietStep
<1>5. CASE Goes([Top EXCEPT !.do = "split", !.text = "prose", !.left = MostSteps])
  <2>1. PICK f \in Frame : f = [Top EXCEPT !.do = "split", !.text = "prose", !.left = MostSteps]
    <3>1. MostSteps \in 0..MostSteps
      BY DispatchAssumption
    <3>2. [Top EXCEPT !.do = "split", !.text = "prose", !.left = MostSteps] \in Frame
      BY <1>2, <3>1 DEF Frame, Texts
    <3>. QED  BY <3>2
  <2>2. f.do = "split"
    BY <1>2, <2>1 DEF Frame
  <2>3. FramesFit' /\ NoneAtLimits'
    BY <1>1, <1>5, <2>1, <2>2, TopGoes DEF Composites
  <2>. QED  BY <1>1, <1>2, <2>3, QuietStep
<1>. QED  BY <1>3, <1>4, <1>5 DEF Begin, StillSignedIn

LEMMA ToPlannerStep ==
  ASSUME DispatchInv, frames # <<>>, ToPlanner, UNCHANGED account PROVE FramesFit' /\ NoneAtLimits'
<1>1. Top \in Frame
  BY FramesAreBegun
<1>2. CASE Return
  BY <1>2, Returned
<1>3. CASE Goes([Top EXCEPT !.do = "route", !.text = "prose"])
  <2>1. PICK f \in Frame : f = [Top EXCEPT !.do = "route", !.text = "prose"]
    BY <1>1 DEF Frame, Texts
  <2>2. f.do = "route"
    BY <1>1, <2>1 DEF Frame
  <2>. QED  BY <1>3, <2>1, <2>2, TopGoes DEF Composites
<1>. QED  BY <1>2, <1>3 DEF ToPlanner

LEMMA LimitsStep == ASSUME DispatchInv, Limits PROVE DispatchInv'
<1>1. frames # <<>> /\ Top.do = "limits" /\ UNCHANGED <<account, session, begun>>
  BY DEF Limits, TopIs
<1>2. begun' \in 1..MaxBegun /\ begun' \in 0..MaxBegun /\ Top \in Frame /\ begun' >= 1
  BY <1>1, FramesAreBegun
<1>3. late = 0
  <2>1. Len(frames) \in 1..Len(frames)
    BY <1>1, TopAndBelow DEF DispatchInv
  <2>. QED  BY <1>1, <2>1 DEF DispatchInv, NoneAtLimits, Top
<1>4. CASE (ToPlanner \/ Return) /\ UNCHANGED <<ran, late>>
  <2>1. FramesFit' /\ NoneAtLimits'
    BY <1>1, <1>4, ToPlannerStep, Returned
  <2>. QED  BY <1>1, <1>2, <1>4, <2>1, QuietStep DEF Quiet
<1>5. CASE ~Refused(Top) /\ MayDispatch(Top) /\ Top.text \in Tools /\ RunTool(Top.text)
  <2>1. FramesFit' /\ NoneAtLimits'
    BY <1>1, <1>5, Returned DEF RunTool
  <2>2. \/ UNCHANGED <<ran, late>>
        \/ GateLetsThrough(Top.text) /\ ran' = ran \cup {Top.text} /\ late' = IF SignedOut THEN late + 1 ELSE late
    BY <1>5 DEF RunTool
  <2>3. CASE UNCHANGED <<ran, late>>
    BY <1>1, <1>2, <2>1, <2>3, QuietStep DEF Quiet
  <2>4. CASE GateLetsThrough(Top.text) /\ ran' = ran \cup {Top.text} /\ late' = IF SignedOut THEN late + 1 ELSE late
    <3>1. late' \in {0, 1} /\ (late' = 0 \/ SignedOut)
      BY <1>3, <2>4
    <3>2. Personal => Top.text = "everyday"
      BY <1>5, <2>4 DEF MayDispatch, EverydayForms, GateLetsThrough
    <3>3. 0 \in 0..MaxBegun /\ 1 \in 0..MaxBegun
      BY DispatchAssumption
    <3>4. DispatchTypeOK'
      BY <1>1, <1>2, <1>5, <2>1, <2>4, <3>1, <3>3 DEF DispatchInv, DispatchTypeOK, FramesFit
    <3>5. PersonalIsEveryday'
      <4>1. Personal => ran \subseteq {"everyday"}
        BY DEF DispatchInv, EveryCommandIsHeldToItsAccount, PersonalIsEveryday
      <4>2. Personal' => ran' \subseteq {"everyday"}
        BY <1>1, <2>4, <3>2, <4>1 DEF Personal
      <4>3. DOMAIN frames' = 1..Len(frames')
        BY <2>1 DEF FramesFit
      <4>. QED  BY <2>1, <4>2, <4>3 DEF FramesFit, PersonalIsEveryday
    <3>6. WorkEndsWithItsSession'
      BY <3>1 DEF WorkEndsWithItsSession
    <3>7. SignedOut' = SignedOut
      BY <1>1 DEF SignedOut
    <3>. QED  BY <1>2, <2>1, <3>1, <3>4, <3>5, <3>6, <3>7 DEF DispatchInv, EveryCommandIsHeldToItsAccount
  <2>. QED  BY <2>2, <2>3, <2>4
<1>6. CASE /\ ~Refused(Top) /\ Top.text \in Composites
           /\ Goes([Top EXCEPT !.do = Top.text, !.left = MostSteps]) /\ UNCHANGED <<ran, late>>
  <2>1. PICK f \in Frame : f = [Top EXCEPT !.do = Top.text, !.left = MostSteps]
    <3>1. MostSteps \in 0..MostSteps
      BY DispatchAssumption
    <3>2. [Top EXCEPT !.do = Top.text, !.left = MostSteps] \in Frame
      BY <1>2, <1>6, <3>1 DEF Frame
    <3>. QED  BY <3>2
  <2>2. f.do = Top.text
    BY <1>2, <2>1 DEF Frame
  <2>3. ~Personal
    BY <1>6 DEF Refused, DeveloperForms
  <2>4. FramesFit' /\ NoneAtLimits'
    BY <1>1, <1>6, <2>1, <2>2, <2>3, TopGoes DEF Composites
  <2>. QED  BY <1>1, <1>2, <1>6, <2>4, QuietStep DEF Quiet
<1>. QED  BY <1>4, <1>5, <1>6 DEF Limits

LEMMA RouteStep == ASSUME DispatchInv, Route PROVE DispatchInv'
<1>1. frames # <<>> /\ Top.do = "route" /\ Quiet /\ UNCHANGED account
  BY DEF Route, TopIs, Quiet
<1>2. begun \in 1..MaxBegun /\ begun \in 0..MaxBegun /\ Top \in Frame /\ begun >= 1
  BY <1>1, FramesAreBegun
<1>3. CASE Return /\ UNCHANGED begun
  BY <1>1, <1>2, <1>3, Returned, QuietStep
<1>4. ASSUME NEW t \in Texts, Under([Top EXCEPT !.do = "routed"], Command(t, FALSE, TRUE)) PROVE DispatchInv'
  <2>1. PICK f \in Frame : f = [Top EXCEPT !.do = "routed"]
    BY <1>2 DEF Frame
  <2>2. PICK g \in Frame : g = Command(t, FALSE, TRUE)
    BY CommandIsAFrame
  <2>3. f.do = "routed" /\ g.do = "begin"
    BY <1>2, <2>1, <2>2, CommandIsAFrame DEF Frame
  <2>4. FramesFit' /\ NoneAtLimits' /\ begun' \in 1..MaxBegun
    BY <1>1, <1>4, <2>1, <2>2, <2>3, GoesUnder DEF Composites
  <2>. QED  BY <1>1, <2>4, QuietStep, DispatchAssumption
<1>. QED  BY <1>3, <1>4 DEF Route

LEMMA CommandsAreFrames == \A g \in Commands : g \in Frame /\ (g.do = "begin" \/ g = AgentRun)
BY AgentRunIsAFrame, DispatchAssumption DEF Commands, Frame

LEMMA NextStepStep == ASSUME DispatchInv, NextStep PROVE DispatchInv'
<1>1. frames # <<>> /\ Top.do \in Composites \cup {"split"} /\ Top.left > 0 /\ Quiet /\ UNCHANGED account
  BY DEF NextStep, Quiet
<1>2. begun \in 1..MaxBegun /\ begun \in 0..MaxBegun /\ Top \in Frame /\ begun >= 1
  BY <1>1, FramesAreBegun
<1>3. PICK g \in Commands : StepOf(Top.do, g) /\ Under([Top EXCEPT !.left = Top.left - 1], g)
  BY DEF NextStep
<1>4. PICK f \in Frame : f = [Top EXCEPT !.left = Top.left - 1]
  <2>1. Top.left \in 0..MostSteps /\ Top.left - 1 \in 0..MostSteps
    BY <1>1, <1>2, DispatchAssumption DEF Frame
  <2>2. [Top EXCEPT !.left = Top.left - 1] \in Frame
    BY <1>2, <2>1 DEF Frame
  <2>. QED  BY <2>2
<1>5. f.do = Top.do
  BY <1>2, <1>4 DEF Frame
<1>6. g \in Frame /\ g.do # "limits"
  BY CommandsAreFrames, AgentRunIsAFrame
<1>7. ASSUME Personal PROVE f.do \notin Composites /\ g.do \notin Composites
  <2>1. Top.do \notin Composites
    <3>1. Len(frames) \in 1..Len(frames)
      BY <1>1, TopAndBelow DEF DispatchInv
    <3>. QED  BY <1>7, <3>1 DEF DispatchInv, FramesFit, Top
  <2>2. Top.do = "split"
    BY <1>1, <2>1
  <2>3. \E t \in Texts \ {"prose"} : g = Command(t, TRUE, FALSE)
    BY <1>3, <2>2 DEF StepOf
  <2>4. g.do = "begin"
    BY <2>3, CommandIsAFrame
  <2>. QED  BY <1>5, <2>1, <2>4 DEF Composites
<1>8. FramesFit' /\ NoneAtLimits' /\ begun' \in 1..MaxBegun
  BY <1>1, <1>3, <1>4, <1>5, <1>6, <1>7, GoesUnder DEF Composites
<1>. QED  BY <1>1, <1>8, QuietStep, DispatchAssumption

LEMMA CommandOverStep == ASSUME DispatchInv, RoutedReturns \/ StepsEnd PROVE DispatchInv'
<1>1. frames # <<>> /\ begun' = begun /\ Quiet /\ UNCHANGED account /\ (Return \/ Unwind)
  BY DEF RoutedReturns, StepsEnd, TopIs, Quiet
<1>2. begun' \in 0..MaxBegun /\ begun' >= 1
  BY <1>1, FramesAreBegun
<1>3. FramesFit' /\ NoneAtLimits'
  BY <1>1, Returned, Unwound
<1>. QED  BY <1>1, <1>2, <1>3, QuietStep

LEMMA DispatchStep == ASSUME DispatchInv, [DispatchNext]_dispatchvars PROVE DispatchInv'
<1>1. CASE UNCHANGED dispatchvars
  BY <1>1 DEF dispatchvars, DispatchInv, DispatchTypeOK, FramesFit, NoneAtLimits, Personal, SignedOut,
     EveryCommandIsHeldToItsAccount, PersonalIsEveryday, WorkEndsWithItsSession
<1>. QED  BY <1>1, AskedStep, SessionEndsStep, BeginStep, LimitsStep, RouteStep, NextStepStep, CommandOverStep
          DEF DispatchNext

\* Neither a model's plan, a reply completed from the conversation nor a step of anything
\* that runs commands does for an account what it may not, and no more than the tool at hand
\* runs for a session that is over (access.py, orchestrator._account_limits).
THEOREM CommandsAreHeldToTheirAccount == DispatchSpec => []EveryCommandIsHeldToItsAccount
<1>1. DispatchInv => EveryCommandIsHeldToItsAccount
  BY DEF DispatchInv
<1>. QED  BY <1>1, DispatchStarts, DispatchStep, PTL DEF DispatchSpec
-----------------------------------------------------------------------------
\* Mailbox tokens


\* A command's token is one of its provider.  A refresh that holds a forgotten token had read it
\* before; an exchange holds none, and no token at all before it is answered; and while a command
\* forgets, the vault has no token of its provider.
MailFits(m) ==
  m # NoMail =>
    /\ m.token # NoToken => m.token[1] = m.provider
    /\ m.op = "refresh" => m.token \notin forgotten \ renewing
    /\ m.op = "exchange" => m.token \notin forgotten /\ (m.step # "answered" => m.token = NoToken)
    /\ m.step = "forgetting" => m.op = "forget" /\ vault[m.provider] = NoToken

OneForgets == \A t, u \in MailTurns : mail[t].step = "forgetting" /\ mail[u].step = "forgetting" => t = u

TokensAreGranted ==
  /\ \A p \in Providers : vault[p] # NoToken => vault[p][1] = p /\ vault[p][2] <= grants
  /\ \A t \in MailTurns : mail[t] # NoMail /\ mail[t].token # NoToken => mail[t].token[2] <= grants
  /\ \A k \in forgotten : k[2] <= grants

MailInv ==
  /\ MailTokensTypeOK /\ ForgottenTokensAreGone
  /\ \A t \in MailTurns : MailFits(mail[t])
  /\ OneForgets /\ TokensAreGranted
  /\ misused \subseteq renewing

LEMMA MailTypes ==
  ASSUME MailTokensTypeOK
  PROVE  /\ MaxGrants \in Nat /\ MaxDamages \in Nat /\ grants \in 0..MaxGrants /\ damages \in 0..MaxDamages
         /\ vault \in [Providers -> Token \cup {NoToken}] /\ unreadable \in BOOLEAN
         /\ bak \subseteq Token /\ corrupt \subseteq Token /\ forgotten \subseteq Token
         /\ renewing \subseteq Token /\ misused \subseteq Token
         /\ \A t \in MailTurns : mail[t] \in Mail \cup {NoMail}
         /\ NoToken \notin Token
BY MailTokensAssumption DEF MailTokensTypeOK, Token, NoToken

LEMMA MailTypesAgain ==
  ASSUME vault \in [Providers -> Token \cup {NoToken}], unreadable \in BOOLEAN,
         bak \subseteq Token, corrupt \subseteq Token, forgotten \subseteq Token,
         renewing \subseteq Token, misused \subseteq Token,
         mail \in [MailTurns -> Mail \cup {NoMail}], grants \in 0..MaxGrants, damages \in 0..MaxDamages
  PROVE  MailTokensTypeOK
BY DEF MailTokensTypeOK

LEMMA OneMail ==
  ASSUME MailInv, NEW t \in MailTurns, NEW m \in Mail \cup {NoMail}, mail' = [mail EXCEPT ![t] = m]
  PROVE  /\ mail' \in [MailTurns -> Mail \cup {NoMail}] /\ mail'[t] = m
         /\ \A u \in MailTurns \ {t} : mail'[u] = mail[u]
BY DEF MailInv, MailTokensTypeOK

\* Only the mail command of one turn changes, and it does not start to forget.
LEMMA MailMoves ==
  ASSUME MailInv, NEW t \in MailTurns, NEW m \in Mail \cup {NoMail}, mail' = [mail EXCEPT ![t] = m],
         UNCHANGED <<vault, unreadable, bak, corrupt, grants, damages, forgotten, renewing, misused>>,
         MailFits(m), m.step # "forgetting", m # NoMail /\ m.token # NoToken => m.token[2] <= grants
  PROVE  MailInv'
<1>1. /\ mail' \in [MailTurns -> Mail \cup {NoMail}] /\ mail'[t] = m
      /\ \A u \in MailTurns \ {t} : mail'[u] = mail[u]
  BY OneMail
<1>2. MailTokensTypeOK'
  BY <1>1 DEF MailInv, MailTokensTypeOK
<1>3. ForgottenTokensAreGone' /\ misused' \subseteq renewing'
  BY DEF MailInv, ForgottenTokensAreGone
<1>4. ASSUME NEW u \in MailTurns PROVE MailFits(mail[u])'
  <2>1. MailFits(mail'[u])
    BY <1>1 DEF MailInv
  <2>. QED  BY <2>1 DEF MailFits
<1>5. OneForgets' /\ TokensAreGranted'
  BY <1>1 DEF MailInv, OneForgets, TokensAreGranted
<1>. QED  BY <1>2, <1>3, <1>4, <1>5 DEF MailInv

LEMMA MailStarts == MailTokensInit => MailInv
<1>. SUFFICES ASSUME MailTokensInit PROVE MailInv
  OBVIOUS
<1>1. \A p \in Providers : <<p, 0>> \in Token /\ <<p, 0>>[1] = p /\ <<p, 0>>[2] = 0
  BY MailTokensAssumption DEF Token
<1>2. /\ vault \in [Providers -> Token \cup {NoToken}]
      /\ \A p \in Providers : vault[p] = NoToken \/ vault[p] = <<p, 0>>
      /\ bak \subseteq Token /\ corrupt \subseteq Token
  BY <1>1 DEF MailTokensInit, Firsts
<1>3. /\ mail = [t \in MailTurns |-> NoMail] /\ grants = 0 /\ forgotten = {} /\ renewing = {} /\ misused = {}
      /\ unreadable = FALSE /\ damages = 0
  BY DEF MailTokensInit
<1>4. \A t \in MailTurns : mail[t] = NoMail /\ mail[t].step = "idle"
  BY <1>3 DEF NoMail
<1>5. 0 \in 0..MaxGrants /\ 0 \in 0..MaxDamages
  BY MailTokensAssumption
<1>6. MailTokensTypeOK
  BY <1>2, <1>3, <1>5, MailTypesAgain
<1>7. TokensAreGranted
  BY <1>1, <1>2, <1>3, <1>4 DEF TokensAreGranted
<1>. QED  BY <1>3, <1>4, <1>6, <1>7 DEF MailInv, ForgottenTokensAreGone, MailFits, OneForgets

LEMMA AskForMailStep ==
  ASSUME MailInv, NEW t \in MailTurns, NEW op \in MailOps, NEW p \in Providers, AskForMail(t, op, p)
  PROVE  MailInv'
<1>1. PICK k \in Token \cup {NoToken} :
        /\ k = (IF op = "refresh" THEN LoadedToken(p) ELSE NoToken)
        /\ k # NoToken => k = vault[p]
  BY MailTypes DEF LoadedToken, MailInv
<1>2. PICK m \in Mail : m = [step |-> "asking", op |-> op, provider |-> p, token |-> k]
  BY DEF Mail
<1>3. mail' = [mail EXCEPT ![t] = m]
  BY <1>1, <1>2 DEF AskForMail
<1>4. /\ k \notin forgotten \ renewing /\ (k # NoToken => k[1] = p /\ k[2] <= grants)
      /\ op = "exchange" => k = NoToken /\ k \notin forgotten
  BY <1>1, MailTypes DEF MailInv, ForgottenTokensAreGone, TokensAreGranted
<1>. m.step = "asking" /\ m.op = op /\ m.provider = p /\ m.token = k
  BY <1>2
<1>5. MailFits(m) /\ m.step # "forgetting" /\ (m # NoMail /\ m.token # NoToken => m.token[2] <= grants)
  BY <1>2, <1>4 DEF MailFits
<1>. QED  BY <1>3, <1>5, MailMoves DEF AskForMail

LEMMA NoMailFits == MailFits(NoMail) /\ NoMail.step = "idle"
BY DEF MailFits, NoMail

\* A turn's command ends, and nothing else happens.
LEMMA MailEnding ==
  ASSUME MailInv, NEW t \in MailTurns, MailEnds(t),
         UNCHANGED <<vault, unreadable, bak, corrupt, grants, damages, forgotten, renewing, misused>>
  PROVE  MailInv'
BY NoMailFits, MailMoves DEF MailEnds

LEMMA AtWork ==
  ASSUME MailInv, NEW t \in MailTurns, mail[t].step # "idle"
  PROVE  /\ mail[t] \in Mail /\ mail[t] # NoMail /\ MailFits(mail[t])
         /\ mail[t].provider \in Providers /\ mail[t].token \in Token \cup {NoToken}
         /\ (mail[t].token # NoToken => mail[t].token[1] = mail[t].provider /\ mail[t].token[2] <= grants)
<1>1. mail[t] \in Mail /\ mail[t] # NoMail
  BY MailTypes DEF MailInv, NoMail
<1>. QED  BY <1>1 DEF Mail, MailInv, MailFits, TokensAreGranted

\* A command goes on with the same operation, provider and token.
LEMMA MailGoesOn ==
  ASSUME MailInv, NEW t \in MailTurns, mail[t].step \in {"asking", "approved"}, NEW s \in {"approved", "answered"},
         MailGoes(t, s, mail[t].token),
         s = "answered" => mail[t].op = "refresh",
         UNCHANGED <<vault, unreadable, bak, corrupt, grants, damages, forgotten, renewing, misused>>
  PROVE  MailInv'
<1>1. PICK m \in Mail : m = [mail[t] EXCEPT !.step = s, !.token = mail[t].token]
  BY AtWork DEF Mail
<1>2. mail' = [mail EXCEPT ![t] = m]
  BY <1>1 DEF MailGoes
<1>3. m.step = s /\ m.op = mail[t].op /\ m.provider = mail[t].provider /\ m.token = mail[t].token
  BY <1>1, AtWork DEF Mail
<1>4. MailFits(m) /\ m.step # "forgetting" /\ (m # NoMail /\ m.token # NoToken => m.token[2] <= grants)
  BY <1>3, AtWork DEF MailFits
<1>. QED  BY <1>2, <1>4, MailMoves

LEMMA ProviderAnswersStep == ASSUME MailInv, NEW t \in MailTurns, ProviderAnswers(t) PROVE MailInv'
<1>1. /\ mail[t].step = "approved" /\ mail[t].op \in {"exchange", "refresh"} /\ mail[t].step # "idle"
      /\ UNCHANGED <<vault, unreadable, bak, corrupt, damages, forgotten, renewing, misused>>
  BY DEF ProviderAnswers, MailAt
<1>2. CASE MailEnds(t) /\ UNCHANGED grants
  BY <1>1, <1>2, MailEnding
<1>3. CASE MailAt(t, "approved", {"refresh"}) /\ MailGoes(t, "answered", mail[t].token) /\ UNCHANGED grants
  BY <1>1, <1>3, MailGoesOn DEF MailAt
<1>4. CASE /\ MailAt(t, "approved", {"exchange"}) /\ grants < MaxGrants
           /\ grants' = grants + 1
           /\ MailGoes(t, "answered", <<mail[t].provider, grants + 1>>)
  <2>1. /\ mail[t] \in Mail /\ mail[t] # NoMail /\ mail[t].provider \in Providers /\ mail[t].op = "exchange"
        /\ grants \in 0..MaxGrants /\ MaxGrants \in Nat
    BY <1>1, <1>4, AtWork, MailTypes DEF MailAt, MailInv
  <2>2. grants' \in 0..MaxGrants /\ grants' = grants + 1
    BY <1>4, <2>1
  <2>3. PICK k \in Token : k = <<mail[t].provider, grants + 1>>
    BY <1>4, <2>1, <2>2 DEF Token
  <2>4. k[1] = mail[t].provider /\ k[2] = grants + 1
    BY <2>3
  <2>5. PICK m \in Mail : m = [mail[t] EXCEPT !.step = "answered", !.token = k]
    BY <2>1 DEF Mail
  <2>6. m.step = "answered" /\ m.op = "exchange" /\ m.provider = mail[t].provider /\ m.token = k
    BY <2>1, <2>5 DEF Mail
  <2>7. mail' = [mail EXCEPT ![t] = m]
    BY <1>4, <2>3, <2>5 DEF MailGoes
  <2>8. /\ mail' \in [MailTurns -> Mail \cup {NoMail}] /\ mail'[t] = m
        /\ \A u \in MailTurns \ {t} : mail'[u] = mail[u]
    BY <2>7, OneMail
  <2>9. k \notin forgotten
    BY <2>1, <2>4 DEF MailInv, TokensAreGranted
  <2>10. MailFits(m)
    BY <2>4, <2>6, <2>9 DEF MailFits
  <2>11. ASSUME NEW u \in MailTurns PROVE MailFits(mail[u])'
    <3>1. MailFits(mail'[u])
      BY <2>8, <2>10 DEF MailInv
    <3>. QED  BY <1>1, <3>1 DEF MailFits
  <2>12. OneForgets'
    BY <2>6, <2>8 DEF MailInv, OneForgets
  <2>13. ASSUME NEW i \in Nat, i <= grants PROVE i <= grants'
    BY <2>1, <2>2, <2>13
  <2>14. \A x \in Token : x[2] \in Nat
    BY <2>1 DEF Token
  <2>15. TokensAreGranted'
    <3>1. \A p \in Providers : vault[p] # NoToken => vault[p][1] = p /\ vault[p][2] <= grants'
      BY <2>13, <2>14, MailTypes DEF MailInv, TokensAreGranted
    <3>2. \A x \in forgotten : x[2] <= grants'
      BY <2>13, <2>14, MailTypes DEF MailInv, TokensAreGranted
    <3>3. ASSUME NEW u \in MailTurns, mail'[u] # NoMail, mail'[u].token # NoToken PROVE mail'[u].token[2] <= grants'
      <4>1. CASE u = t
        BY <2>1, <2>2, <2>4, <2>6, <2>8, <4>1
      <4>2. CASE u # t
        <5>1. mail[u] # NoMail /\ mail[u].token # NoToken /\ mail'[u].token = mail[u].token
          BY <2>8, <3>3, <4>2
        <5>2. mail[u].token \in Token /\ mail[u].token[2] <= grants
          BY <5>1, MailTypes DEF MailInv, TokensAreGranted, Mail
        <5>. QED  BY <2>13, <2>14, <5>1, <5>2
      <4>. QED  BY <4>1, <4>2
    <3>. QED  BY <1>1, <3>1, <3>2, <3>3 DEF TokensAreGranted
  <2>16. MailTokensTypeOK'
    BY <1>1, <2>2, <2>8 DEF MailInv, MailTokensTypeOK
  <2>17. ForgottenTokensAreGone' /\ (misused \subseteq renewing)'
    BY <1>1 DEF MailInv, ForgottenTokensAreGone
  <2>. QED  BY <2>11, <2>12, <2>15, <2>16, <2>17 DEF MailInv
<1>. QED  BY <1>2, <1>3, <1>4 DEF ProviderAnswers

\* The vault that a write leaves: what could be read of it, but for one provider.
LEMMA Written ==
  ASSUME MailInv, NEW p \in Providers, NEW k \in Token \cup {NoToken},
         k # NoToken => k[1] = p /\ k[2] <= grants, k \notin forgotten \ renewing,
         vault' = [Kept EXCEPT ![p] = k]
  PROVE  /\ vault' \in [Providers -> Token \cup {NoToken}] /\ vault'[p] = k
         /\ \A q \in Providers : /\ vault'[q] # NoToken => vault'[q][1] = q /\ vault'[q][2] <= grants
                                 /\ vault'[q] \notin forgotten \ renewing
<1>1. NoToken \notin forgotten
  BY MailTypes DEF MailInv
<1>2. /\ Kept \in [Providers -> Token \cup {NoToken}]
      /\ \A q \in Providers : /\ Kept[q] # NoToken => Kept[q][1] = q /\ Kept[q][2] <= grants
                              /\ Kept[q] \notin forgotten \ renewing
  BY <1>1, MailTypes DEF MailInv, TokensAreGranted, ForgottenTokensAreGone, Kept
<1>. HIDE DEF Kept
<1>. QED  BY <1>2

LEMMA StoreTokenStep == ASSUME MailInv, NEW t \in MailTurns, StoreToken(t) PROVE MailInv'
<1>1. /\ mail[t].step = "answered" /\ mail[t].op \in {"exchange", "refresh"} /\ mail[t].step # "idle"
      /\ VaultFree /\ MailEnds(t) /\ UNCHANGED <<corrupt, grants, damages, forgotten, renewing, misused>>
  BY DEF StoreToken, MailAt
<1>2. CASE UNCHANGED <<vault, unreadable, bak>>
  BY <1>1, <1>2, MailEnding
<1>3. CASE SaveVault([Kept EXCEPT ![mail[t].provider] = mail[t].token])
  <2>1. PICK p \in Providers : p = mail[t].provider
    BY <1>1, AtWork
  <2>2. PICK k \in Token \cup {NoToken} : k = mail[t].token
    BY <1>1, AtWork
  <2>3. (k # NoToken => k[1] = p /\ k[2] <= grants) /\ k \notin forgotten \ renewing
    BY <1>1, <2>1, <2>2, AtWork DEF MailFits
  <2>4. vault' = [Kept EXCEPT ![p] = k] /\ unreadable' = FALSE /\ bak' = {}
    BY <1>3, <2>1, <2>2 DEF SaveVault
  <2>5. /\ vault' \in [Providers -> Token \cup {NoToken}]
        /\ \A q \in Providers : /\ vault'[q] # NoToken => vault'[q][1] = q /\ vault'[q][2] <= grants
                                /\ vault'[q] \notin forgotten \ renewing
    BY <2>3, <2>4, Written
  <2>6. /\ mail' \in [MailTurns -> Mail \cup {NoMail}] /\ mail'[t] = NoMail
        /\ \A u \in MailTurns \ {t} : mail'[u] = mail[u]
    BY <1>1, OneMail DEF MailEnds
  <2>7. MailTokensTypeOK'
    <3>1. bak' \subseteq Token /\ unreadable' \in BOOLEAN
      BY <2>4
    <3>2. /\ forgotten' \subseteq Token /\ renewing' \subseteq Token /\ misused' \subseteq Token /\ corrupt' \subseteq Token
          /\ grants' \in 0..MaxGrants /\ damages' \in 0..MaxDamages
      BY <1>1, MailTypes DEF MailInv
    <3>. QED  BY <2>5, <2>6, <3>1, <3>2 DEF MailTokensTypeOK
  <2>8. ForgottenTokensAreGone' /\ (misused \subseteq renewing)'
    BY <1>1, <2>4, <2>5 DEF MailInv, ForgottenTokensAreGone
  <2>9. ASSUME NEW u \in MailTurns PROVE MailFits(mail[u])'
    <3>1. CASE u = t
      BY <2>6, <3>1 DEF MailFits
    <3>2. CASE u # t
      <4>1. mail'[u] = mail[u] /\ mail[u].step # "forgetting" /\ MailFits(mail[u])
        BY <1>1, <2>6, <3>2 DEF VaultFree, MailInv
      <4>. QED  BY <1>1, <4>1 DEF MailFits
    <3>. QED  BY <3>1, <3>2
  <2>10. OneForgets'
    BY <2>6, NoMailFits DEF MailInv, OneForgets
  <2>11. TokensAreGranted'
    BY <1>1, <2>5, <2>6 DEF MailInv, TokensAreGranted
  <2>. QED  BY <2>7, <2>8, <2>9, <2>10, <2>11 DEF MailInv
<1>. QED  BY <1>2, <1>3 DEF StoreToken

LEMMA ForgetTokenStep == ASSUME MailInv, NEW t \in MailTurns, ForgetToken(t) PROVE MailInv'
<1>1. /\ mail[t].step = "approved" /\ mail[t].op = "forget" /\ mail[t].step # "idle"
      /\ VaultFree /\ UNCHANGED <<corrupt, grants, damages, forgotten, renewing, misused>>
  BY DEF ForgetToken, MailAt
<1>2. CASE UNCHANGED <<vault, unreadable, bak>> /\ MailEnds(t)
  BY <1>1, <1>2, MailEnding
<1>3. CASE /\ IF unreadable \/ vault[mail[t].provider] # NoToken
              THEN SaveVault([Kept EXCEPT ![mail[t].provider] = NoToken])
              ELSE UNCHANGED <<vault, unreadable, bak>>
           /\ MailGoes(t, "forgetting", IF unreadable THEN NoToken ELSE vault[mail[t].provider])
  <2>1. PICK p \in Providers : p = mail[t].provider
    BY <1>1, AtWork
  <2>2. NoToken \notin forgotten
    BY MailTypes DEF MailInv
  <2>3. /\ vault' \in [Providers -> Token \cup {NoToken}] /\ vault'[p] = NoToken
        /\ \A q \in Providers : /\ vault'[q] # NoToken => vault'[q][1] = q /\ vault'[q][2] <= grants
                                /\ vault'[q] \notin forgotten \ renewing
    <3>1. CASE unreadable \/ vault[p] # NoToken
      <4>1. vault' = [Kept EXCEPT ![p] = NoToken]
        BY <1>3, <2>1, <3>1 DEF SaveVault
      <4>. QED  BY <2>2, <4>1, Written
    <3>2. CASE ~(unreadable \/ vault[p] # NoToken)
      <4>1. vault' = vault
        BY <1>3, <2>1, <3>2
      <4>. QED  BY <3>2, <4>1, MailTypes DEF MailInv, TokensAreGranted, ForgottenTokensAreGone
    <3>. QED  BY <3>1, <3>2
  <2>4. unreadable' \in BOOLEAN /\ bak' \subseteq bak
    BY <1>3, MailTypes DEF SaveVault, MailInv
  <2>5. PICK k \in Token \cup {NoToken} : /\ k = (IF unreadable THEN NoToken ELSE vault[p])
                                          /\ k # NoToken => k = vault[p]
    BY MailTypes DEF MailInv
  <2>6. PICK m \in Mail : m = [mail[t] EXCEPT !.step = "forgetting", !.token = k]
    BY <1>1, AtWork DEF Mail
  <2>7. m.step = "forgetting" /\ m.op = "forget" /\ m.provider = p /\ m.token = k
    BY <1>1, <2>1, <2>6, AtWork DEF Mail
  <2>8. mail' = [mail EXCEPT ![t] = m]
    BY <1>3, <2>1, <2>5, <2>6 DEF MailGoes
  <2>9. /\ mail' \in [MailTurns -> Mail \cup {NoMail}] /\ mail'[t] = m
        /\ \A u \in MailTurns \ {t} : mail'[u] = mail[u]
    BY <2>8, OneMail
  <2>10. \A u \in MailTurns \ {t} : mail'[u] = mail[u] /\ mail[u].step # "forgetting" /\ MailFits(mail[u])
    BY <1>1, <2>9 DEF VaultFree, MailInv
  <2>11. MailTokensTypeOK'
    BY <1>1, <2>3, <2>4, <2>9 DEF MailInv, MailTokensTypeOK
  <2>12. ForgottenTokensAreGone' /\ (misused \subseteq renewing)'
    BY <1>1, <2>3, <2>4 DEF MailInv, ForgottenTokensAreGone
  <2>13. k # NoToken => k[1] = p /\ k[2] <= grants
    BY <2>5 DEF MailInv, TokensAreGranted
  <2>14. ASSUME NEW u \in MailTurns PROVE MailFits(mail[u])'
    <3>1. CASE u = t
      BY <2>3, <2>7, <2>9, <2>13, <3>1 DEF MailFits
    <3>2. CASE u # t
      BY <1>1, <2>10, <3>2 DEF MailFits
    <3>. QED  BY <3>1, <3>2
  <2>15. OneForgets'
    BY <2>9, <2>10 DEF OneForgets
  <2>16. TokensAreGranted'
    BY <1>1, <2>3, <2>7, <2>9, <2>13 DEF MailInv, TokensAreGranted
  <2>. QED  BY <2>11, <2>12, <2>14, <2>15, <2>16 DEF MailInv
<1>. QED  BY <1>2, <1>3 DEF ForgetToken

LEMMA ForgetCopiesStep == ASSUME MailInv, NEW t \in MailTurns, ForgetCopies(t) PROVE MailInv'
<1>. DEFINE heldBack == {k \in Token : k[1] = mail[t].provider /\ k[2] <= grants}
                    \ {mail[u].token : u \in {v \in MailTurns : MailAt(v, "answered", {"exchange"})}}
<1>1. /\ mail[t].step = "forgetting" /\ mail[t].op = "forget" /\ mail[t].step # "idle"
      /\ MailEnds(t) /\ UNCHANGED <<vault, unreadable, grants, damages, misused>>
  BY DEF ForgetCopies, MailAt
<1>2. /\ mail' \in [MailTurns -> Mail \cup {NoMail}] /\ mail'[t] = NoMail
      /\ \A u \in MailTurns \ {t} : mail'[u] = mail[u]
  BY <1>1, OneMail DEF MailEnds
<1>3. OneForgets'
  BY <1>2, NoMailFits DEF MailInv, OneForgets
<1>4. CASE bak' \in {bak, {}} /\ corrupt' \in {corrupt, {}} /\ UNCHANGED <<forgotten, renewing>>
  <2>1. MailTokensTypeOK'
    BY <1>1, <1>2, <1>4, MailTypes, MailTypesAgain DEF MailInv, MailTokensTypeOK
  <2>2. ForgottenTokensAreGone' /\ (misused \subseteq renewing)'
    BY <1>1, <1>4 DEF MailInv, ForgottenTokensAreGone
  <2>3. ASSUME NEW u \in MailTurns PROVE MailFits(mail[u])'
    <3>1. MailFits(mail'[u])
      BY <1>2, NoMailFits DEF MailInv
    <3>. QED  BY <1>1, <1>4, <3>1 DEF MailFits
  <2>4. TokensAreGranted'
    BY <1>1, <1>2, <1>4 DEF MailInv, TokensAreGranted
  <2>. QED  BY <1>3, <2>1, <2>2, <2>3, <2>4 DEF MailInv
<1>5. CASE /\ RemoveCopies(t)
           /\ forgotten' = forgotten \cup heldBack
           /\ renewing' = renewing \cup (heldBack \cap BeingRenewed)
  <2>1. /\ bak' = {} /\ corrupt' = {} /\ heldBack \subseteq Token
        /\ \A k \in heldBack : k[1] = mail[t].provider /\ k[2] <= grants
    BY <1>5 DEF RemoveCopies
  <2>2. MailTokensTypeOK'
    BY <1>1, <1>2, <1>5, <2>1 DEF MailInv, MailTokensTypeOK
  <2>3. mail[t].provider \in Providers /\ vault[mail[t].provider] = NoToken
    BY <1>1, AtWork DEF MailFits
  <2>4. \A p \in Providers : vault[p] \notin heldBack
    <3>1. \A p \in Providers : vault[p] # NoToken => vault[p][1] = p
      BY DEF MailInv, TokensAreGranted
    <3>2. NoToken \notin heldBack
      BY <2>1, MailTypes DEF MailInv
    <3>. QED  BY <2>1, <2>3, <3>1, <3>2
  <2>5. /\ \A u \in MailTurns : mail[u] # NoMail /\ mail[u].op = "refresh" => mail[u].token \in BeingRenewed
        /\ \A u \in MailTurns : mail[u] # NoMail /\ mail[u].op = "exchange" => mail[u].token \notin heldBack
    <3>1. ASSUME NEW u \in MailTurns, mail[u] # NoMail, mail[u].op = "exchange" PROVE mail[u].token \notin heldBack
      <4>1. mail[u].step # "answered" => mail[u].token = NoToken
        BY <3>1 DEF MailInv, MailFits
      <4>2. NoToken \notin heldBack
        BY <2>1, MailTypes DEF MailInv
      <4>3. CASE mail[u].step = "answered"
        BY <3>1, <4>3 DEF MailAt
      <4>. QED  BY <4>1, <4>2, <4>3
    <3>. QED  BY <3>1 DEF BeingRenewed
  <2>. HIDE DEF heldBack
  <2>6. forgotten' \ renewing' = (forgotten \ renewing) \cup (heldBack \ (renewing \cup BeingRenewed))
        \/ forgotten' \ renewing' \subseteq (forgotten \ renewing) \cup (heldBack \ BeingRenewed)
    BY <1>5
  <2>7. ForgottenTokensAreGone' /\ (misused \subseteq renewing)'
    BY <1>1, <1>5, <2>1, <2>4, <2>6 DEF MailInv, ForgottenTokensAreGone
  <2>8. ASSUME NEW u \in MailTurns PROVE MailFits(mail[u])'
    <3>1. CASE u = t
      BY <1>2, <3>1 DEF MailFits
    <3>2. CASE u # t
      BY <1>1, <1>2, <1>5, <2>5, <3>2 DEF MailInv, MailFits
    <3>. QED  BY <3>1, <3>2
  <2>9. TokensAreGranted'
    BY <1>1, <1>2, <1>5, <2>1 DEF MailInv, TokensAreGranted
  <2>. QED  BY <1>3, <2>2, <2>7, <2>8, <2>9 DEF MailInv
<1>. QED  BY <1>4, <1>5 DEF ForgetCopies

LEMMA UseTokenStep == ASSUME MailInv, NEW t \in MailTurns, UseToken(t) PROVE MailInv'
<1>1. /\ mail[t].provider \in Providers /\ MailEnds(t)
      /\ misused' = misused \cup ({LoadedToken(mail[t].provider)} \cap forgotten)
      /\ UNCHANGED <<vault, unreadable, bak, corrupt, grants, damages, forgotten, renewing>>
  BY AtWork DEF UseToken, MailAt
<1>2. NoToken \notin forgotten /\ forgotten \subseteq Token
  BY MailTypes DEF MailInv
<1>3. misused' \subseteq renewing
  BY <1>1, <1>2 DEF MailInv, ForgottenTokensAreGone, LoadedToken
<1>4. /\ mail' \in [MailTurns -> Mail \cup {NoMail}] /\ mail'[t] = NoMail
      /\ \A u \in MailTurns \ {t} : mail'[u] = mail[u]
  BY <1>1, OneMail DEF MailEnds
<1>5. MailTokensTypeOK'
  BY <1>1, <1>2, <1>4 DEF MailInv, MailTokensTypeOK
<1>6. ForgottenTokensAreGone'
  BY <1>1, <1>3 DEF MailInv, ForgottenTokensAreGone
<1>7. ASSUME NEW u \in MailTurns PROVE MailFits(mail[u])'
  <2>1. MailFits(mail'[u])
    BY <1>4, NoMailFits DEF MailInv
  <2>. QED  BY <1>1, <2>1 DEF MailFits
<1>8. OneForgets' /\ TokensAreGranted'
  BY <1>1, <1>4, NoMailFits DEF MailInv, OneForgets, TokensAreGranted
<1>. QED  BY <1>1, <1>3, <1>5, <1>6, <1>7, <1>8 DEF MailInv

LEMMA MailStep == ASSUME MailInv, [MailTokensNext]_mailvars PROVE MailInv'
<1>1. ASSUME UNCHANGED <<vault, bak, corrupt, mail, grants, forgotten, renewing, misused>>,
             unreadable' \in BOOLEAN, damages' \in 0..MaxDamages
      PROVE  MailInv'
  <2>1. MailTokensTypeOK'
    BY <1>1 DEF MailInv, MailTokensTypeOK
  <2>2. ForgottenTokensAreGone' /\ OneForgets' /\ TokensAreGranted' /\ (misused \subseteq renewing)'
    BY <1>1 DEF MailInv, ForgottenTokensAreGone, OneForgets, TokensAreGranted
  <2>3. \A t \in MailTurns : MailFits(mail[t])'
    BY <1>1 DEF MailInv, MailFits
  <2>. QED  BY <2>1, <2>2, <2>3 DEF MailInv
<1>2. CASE UNCHANGED mailvars
  BY <1>1, <1>2, MailTypes DEF mailvars, MailInv
<1>3. CASE VaultIsDamaged
  <2>1. damages' \in 0..MaxDamages
    <3>1. damages \in 0..MaxDamages /\ MaxDamages \in Nat
      BY MailTypes DEF MailInv
    <3>2. damages < MaxDamages /\ damages' = damages + 1
      BY <1>3 DEF VaultIsDamaged
    <3>. QED  BY <3>1, <3>2
  <2>. QED  BY <1>1, <1>3, <2>1 DEF VaultIsDamaged
<1>4. ASSUME NEW t \in MailTurns, MailCardAnswered(t) PROVE MailInv'
  BY <1>4, MailGoesOn, MailEnding DEF MailCardAnswered, MailAt
<1>. QED  BY <1>2, <1>3, <1>4, AskForMailStep, ProviderAnswersStep, StoreTokenStep, ForgetTokenStep,
             ForgetCopiesStep, UseTokenStep DEF MailTokensNext

LEMMA TokensShow == MailInv => ForgottenTokensAreGone
BY DEF MailInv
-----------------------------------------------------------------------------
\* The daily jobs


LEMMA Division ==
  ASSUME NEW n \in Nat, NEW k \in Nat \ {0}
  PROVE  /\ n \div k \in Nat /\ k * (n \div k) <= n /\ n < k * (n \div k) + k
         /\ n % k = n - k * (n \div k)
OBVIOUS

\* Of two multiples of k the greater is k greater at least.
LEMMA MultiplesApart ==
  ASSUME NEW k \in Nat \ {0}, NEW p \in Nat, NEW r \in Nat, p < r
  PROVE  k * p + k <= k * r
<1>1. k * (r - p) = k * r - k * p
  OBVIOUS
<1>2. k * (r - p) >= k
  OBVIOUS
<1>. QED  BY <1>1, <1>2

LEMMA Multiples ==
  ASSUME NEW k \in Nat \ {0}, NEW p \in Nat, NEW r \in Nat, k * p < k * r + k
  PROVE  k * p <= k * r
<1>1. CASE p <= r
  <2>1. CASE p = r
    BY <2>1
  <2>2. CASE p < r
    BY <2>2, MultiplesApart
  <2>. QED  BY <1>1, <2>1, <2>2
<1>2. CASE r < p
  BY <1>2, MultiplesApart
<1>. QED  BY <1>1, <1>2

\* A multiple of k and the k - 1 numbers after it have one quotient.
LEMMA OneQuotient ==
  ASSUME NEW n \in Nat, NEW k \in Nat \ {0}, NEW q \in Nat, k * q <= n, n < k * q + k
  PROVE  n \div k = q
<1>1. \A p, r \in Nat : p < r => k * p + k <= k * r
  BY MultiplesApart
<1>2. n \div k \in Nat /\ k * (n \div k) <= n /\ n < k * (n \div k) + k
  BY Division
<1>3. ~(n \div k < q) /\ ~(q < n \div k)
  BY <1>1, <1>2
<1>. QED  BY <1>2, <1>3

\* The clock shows an instant with one of two offsets, which are at most Shift apart.
LEMMA ZoneTypes ==
  ASSUME DailyJobsTypeOK
  PROVE  /\ zone.at \in Nat /\ zone.before \in Nat /\ zone.after \in Nat
         /\ zone.before <= zone.after + Shift /\ zone.after <= zone.before + Shift
         /\ zone.before <= 2 * DayLength
         /\ zone.after < zone.before => zone.before = zone.after + Shift
         /\ DayLength \in Nat \ {0} /\ Shift \in Nat /\ Hour \in Nat /\ Hour < DayLength
         /\ LastInstant \in Nat /\ Never \notin Nat
<1>1. /\ DayLength \in Nat \ {0} /\ Shift \in 1..DayLength /\ Hour \in 0..(DayLength - 1) /\ LastInstant \in Nat
      /\ zone \in Zones
  BY DailyJobsAssumption DEF DailyJobsTypeOK
<1>. QED  BY <1>1 DEF Zones, Instants, Never

LEMMA TheDay ==
  ASSUME DailyJobsTypeOK, NEW t \in Nat
  PROVE  /\ Wall(t) = t + (IF t < zone.at THEN zone.before ELSE zone.after)
         /\ Wall(t) \in Nat /\ Day(t) \in Nat /\ ClockTime(t) \in Nat
         /\ DayLength * Day(t) <= Wall(t) /\ Wall(t) < DayLength * Day(t) + DayLength
         /\ DayLength * Day(t) <= ClockTime(t) /\ ClockTime(t) < DayLength * Day(t) + DayLength
<1>1. Wall(t) = t + (IF t < zone.at THEN zone.before ELSE zone.after) /\ Wall(t) \in Nat
  BY ZoneTypes DEF Wall
<1>2. /\ Day(t) \in Nat
      /\ DayLength * Day(t) <= Wall(t) /\ Wall(t) < DayLength * Day(t) + DayLength
  BY <1>1, ZoneTypes, Division DEF Day
<1>3. ClockTime(t) = DayLength * Day(t) + Hour
  BY <1>2, ZoneTypes DEF ClockTime
<1>. QED  BY <1>1, <1>2, <1>3, ZoneTypes

\* A day's time is the first instant that shows it, or the one that would have shown it.
LEMMA TheTarget ==
  ASSUME DailyJobsTypeOK, NEW t \in Nat
  PROVE  /\ Target(t) \in Int
         /\ \/ /\ Target(t) = ClockTime(t) - zone.before
               /\ ClockTime(t) - zone.before < zone.at \/ ClockTime(t) - zone.after < zone.at
            \/ /\ Target(t) = ClockTime(t) - zone.after
               /\ ClockTime(t) - zone.before >= zone.at /\ ClockTime(t) - zone.after >= zone.at
BY ZoneTypes, TheDay DEF Target, InstantOf

\* An instant that is not before its day's target is not before its day's time.
LEMMA DueTimeHasCome ==
  ASSUME DailyJobsTypeOK, NEW t \in Nat, t >= Target(t)
  PROVE  TimeHasCome(t)
<1>1. CASE Wall(t) >= ClockTime(t)
  <2>1. t \in (-(2 * DayLength))..t
    BY ZoneTypes
  <2>. QED  BY <1>1, <2>1 DEF TimeHasCome
<1>2. CASE Wall(t) < ClockTime(t)
  <2>1. PICK s \in Int : s = ClockTime(t) - zone.before
    BY ZoneTypes, TheDay
  <2>2. s < zone.at /\ s <= t
    <3>1. PICK w \in Nat, z \in Nat, a \in Nat, b \in Nat, goal \in Int :
            /\ z = zone.at /\ a = zone.after /\ b = zone.before /\ w = ClockTime(t) /\ goal = Target(t)
      BY ZoneTypes, TheDay, TheTarget
    <3>2. /\ t + (IF t < z THEN b ELSE a) < w /\ goal <= t /\ s = w - b
          /\ \/ goal = w - b /\ (w - b < z \/ w - a < z)
             \/ goal = w - a /\ w - b >= z /\ w - a >= z
      BY <1>2, <2>1, <3>1, TheDay, TheTarget
    <3>3. s < z /\ s <= t
      BY <3>2
    <3>. QED  BY <3>1, <3>3
  <2>3. Wall(s) = ClockTime(t)
    BY <2>1, <2>2, ZoneTypes, TheDay DEF Wall
  <2>4. Day(s) = Day(t)
    BY <2>3, ZoneTypes, TheDay, OneQuotient DEF Day
  <2>5. s \in (-(2 * DayLength))..t
    BY <2>1, <2>2, ZoneTypes, TheDay
  <2>6. Wall(s) >= ClockTime(t)
    BY <2>3, TheDay
  <2>. QED  BY <2>4, <2>5, <2>6 DEF TimeHasCome
<1>. QED  BY <1>1, <1>2, TheDay

\* A run that ended since a day's time came, and before an instant of that day, ended on it.
LEMMA EndedThatDay ==
  ASSUME DailyJobsTypeOK, OfOneDay(zone), NEW e \in Nat, NEW c \in Nat, e <= c, Target(c) <= e
  PROVE  Day(e) = Day(c)
<1>. DEFINE twice == zone.at + zone.after
<1>0. twice \in Nat /\ twice = zone.at + zone.after
  BY ZoneTypes
<1>. HIDE DEF twice
<1>1. /\ twice \div DayLength \in Nat /\ DayLength * (twice \div DayLength) <= twice
      /\ twice % DayLength = twice - DayLength * (twice \div DayLength)
  BY <1>0, ZoneTypes, Division
<1>2. ASSUME zone.after < zone.before
      PROVE  zone.at + zone.before <= DayLength * (twice \div DayLength) + DayLength
  <2>1. (twice % DayLength) + Shift <= DayLength /\ zone.before = zone.after + Shift
    BY <1>2, ZoneTypes DEF OfOneDay, twice
  <2>2. PICK start \in Int : start = DayLength * (twice \div DayLength)
    BY <1>1, ZoneTypes
  <2>. QED  BY <1>0, <1>1, <2>1, <2>2, ZoneTypes
<1>3. PICK quotient \in Nat : quotient = twice \div DayLength
  BY <1>1
<1>4. /\ DayLength * quotient \in Nat /\ DayLength * quotient <= zone.at + zone.after
      /\ zone.after < zone.before => zone.at + zone.before <= DayLength * quotient + DayLength
  BY <1>0, <1>1, <1>2, <1>3, ZoneTypes
<1>5. /\ Day(c) \in Nat /\ DayLength * Day(c) \in Nat
      /\ DayLength * Day(c) < DayLength * quotient + DayLength => DayLength * Day(c) <= DayLength * quotient
      /\ DayLength * quotient < DayLength * Day(c) + DayLength => DayLength * quotient <= DayLength * Day(c)
  <2>1. Day(c) \in Nat
    BY TheDay
  <2>2. \A p, q \in Nat : DayLength * p < DayLength * q + DayLength => DayLength * p <= DayLength * q
    BY ZoneTypes, Multiples
  <2>. QED  BY <2>1, <2>2, ZoneTypes
<1>6. PICK z \in Nat, a \in Nat, b \in Nat, w \in Nat, u \in Nat, v \in Nat, goal \in Int, day \in Nat, start \in Nat :
        /\ z = zone.at /\ a = zone.after /\ b = zone.before /\ w = ClockTime(c) /\ goal = Target(c)
        /\ u = Wall(e) /\ v = Wall(c) /\ day = DayLength * Day(c) /\ start = DayLength * quotient
  BY <1>4, <1>5, ZoneTypes, TheDay, TheTarget
<1>7. /\ e <= c /\ goal <= e
      /\ u = e + (IF e < z THEN b ELSE a) /\ v = c + (IF c < z THEN b ELSE a)
      /\ day <= v /\ v < day + DayLength /\ day <= w /\ w < day + DayLength
      /\ start <= z + a /\ (a < b => z + b <= start + DayLength)
      /\ day < start + DayLength => day <= start
      /\ start < day + DayLength => start <= day
      /\ \/ goal = w - b /\ (w - b < z \/ w - a < z)
         \/ goal = w - a /\ w - b >= z /\ w - a >= z
      /\ DayLength \in Nat
  BY <1>4, <1>5, <1>6, ZoneTypes, TheDay, TheTarget
<1>8. u < day + DayLength
  BY <1>7
<1>9. day <= u
  BY <1>7
<1>. QED  BY <1>5, <1>6, <1>8, <1>9, ZoneTypes, OneQuotient DEF Day

\* Shift after its time, a day's target has come.
LEMMA LateEnough ==
  ASSUME DailyJobsTypeOK, NEW c \in Nat, Wall(c) >= ClockTime(c) + Shift
  PROVE  c >= Target(c)
<1>1. PICK z \in Nat, a \in Nat, b \in Nat, w \in Nat, v \in Nat, goal \in Int :
        /\ z = zone.at /\ a = zone.after /\ b = zone.before /\ w = ClockTime(c) /\ goal = Target(c) /\ v = Wall(c)
  BY ZoneTypes, TheDay, TheTarget
<1>2. /\ v = c + (IF c < z THEN b ELSE a) /\ v >= w + Shift /\ (goal = w - b \/ goal = w - a)
      /\ b <= a + Shift /\ a <= b + Shift /\ Shift \in Nat
  BY <1>1, ZoneTypes, TheDay, TheTarget
<1>3. c >= goal
  BY <1>2
<1>. QED  BY <1>1, <1>3

\* A run began on a day it is for, when its time had come and none had ended since then; and
\* last_run_at is when the latest of them ended.
DailyInv ==
  /\ DailyJobsTypeOK /\ OfOneDay(zone)
  /\ lastrun # Never => lastrun <= now /\ \E r \in runs : r[2] = lastrun
  /\ \A r \in runs : /\ ForThisDay(r[1]) /\ Target(r[1]) <= r[1] /\ r[1] <= r[2]
                     /\ lastrun # Never /\ r[2] <= lastrun
  /\ since # Never =>
       /\ since <= now /\ checked = since /\ ForThisDay(since) /\ Target(since) <= since
       /\ lastrun = Never \/ lastrun < Target(since)
  /\ OncePerDay

LEMMA DailyStart == DailyJobsInit => DailyInv
<1>. SUFFICES ASSUME DailyJobsInit PROVE DailyInv
  OBVIOUS
<1>1. 0 \in Instants
  BY DailyJobsAssumption DEF Instants
<1>2. DailyJobsTypeOK /\ OfOneDay(zone)
  BY <1>1 DEF DailyJobsInit, DailyJobsTypeOK
<1>3. lastrun = Never /\ since = Never /\ runs = {} /\ checked = Never
  BY DEF DailyJobsInit
<1>. QED  BY <1>2, <1>3 DEF DailyInv, OncePerDay

\* The days are those of the zone, which nothing changes.
LEMMA DaysStay ==
  ASSUME UNCHANGED zone
  PROVE  /\ \A t : /\ Day(t)' = Day(t) /\ Wall(t)' = Wall(t) /\ ForThisDay(t)' = ForThisDay(t)
                   /\ ClockTime(t)' = ClockTime(t) /\ Target(t)' = Target(t) /\ TimeHasCome(t)' = TimeHasCome(t)
         /\ OfOneDay(zone)' = OfOneDay(zone)
<1>1. \A t : Day(t)' = Day(t) /\ Wall(t)' = Wall(t)
  BY DEF Day, Wall
<1>2. \A w : InstantOf(w)' = InstantOf(w)
  BY DEF InstantOf
<1>3. \A t : ForThisDay(t)' = ForThisDay(t) /\ ClockTime(t)' = ClockTime(t)
  BY <1>1 DEF ForThisDay, ClockTime
<1>4. \A t : Target(t)' = Target(t) /\ TimeHasCome(t)' = TimeHasCome(t)
  BY <1>1, <1>2, <1>3 DEF Target, TimeHasCome
<1>. QED  BY <1>1, <1>3, <1>4 DEF OfOneDay

LEMMA TimePassesStep == ASSUME DailyInv, TimePasses \/ UNCHANGED dailyvars PROVE DailyInv'
<1>1. now \in Instants /\ LastInstant \in Nat
  BY ZoneTypes DEF DailyInv, DailyJobsTypeOK
<1>2. UNCHANGED <<zone, lastrun, since, runs, checked>> /\ now' \in Instants /\ now' >= now
  BY <1>1 DEF TimePasses, dailyvars, Instants
<1>3. DailyJobsTypeOK'
  BY <1>2 DEF DailyInv, DailyJobsTypeOK
<1>4. /\ lastrun # Never => lastrun \in Nat /\ lastrun <= now'
      /\ since # Never => since \in Nat /\ since <= now'
  BY <1>1, <1>2 DEF DailyInv, DailyJobsTypeOK, Instants
<1>5. OncePerDay'
  BY <1>2, DaysStay DEF DailyInv, OncePerDay
<1>. QED  BY <1>2, <1>3, <1>4, <1>5, DaysStay DEF DailyInv

\* A tick that finds the job not due, late on a day it is for, has a run that stands for the day.
LEMMA StandsForTheDay ==
  ASSUME DailyInv, NEW t \in Nat, t = now, ~IsDue(t), ForThisDay(t), Wall(t) >= ClockTime(t) + Shift
  PROVE  \E r \in runs : Day(t) \in {Day(r[1]), Day(r[2])}
<1>1. t >= Target(t)
  BY LateEnough DEF DailyInv
<1>2. lastrun # Never /\ ~(lastrun < Target(t))
  BY <1>1 DEF IsDue
<1>3. lastrun \in Nat /\ lastrun <= t /\ Target(t) \in Int
  BY <1>2, TheTarget DEF DailyInv, DailyJobsTypeOK, Instants
<1>4. Day(lastrun) = Day(t)
  BY <1>2, <1>3, EndedThatDay DEF DailyInv
<1>. QED  BY <1>2, <1>4 DEF DailyInv

LEMMA TickStep == ASSUME DailyInv, TickDaily PROVE DailyInv'
<1>1. /\ UNCHANGED <<zone, now, lastrun, runs>> /\ since = Never
      /\ checked' = now /\ since' = IF IsDue(now) THEN now ELSE Never
  BY DEF TickDaily
<1>2. PICK t \in Nat : t = now /\ t \in Instants /\ t # Never
  BY ZoneTypes DEF DailyInv, DailyJobsTypeOK, Instants
<1>3. DailyJobsTypeOK'
  BY <1>1, <1>2 DEF DailyInv, DailyJobsTypeOK
<1>4. since' # Never =>
        /\ since' = t /\ checked' = t /\ ForThisDay(t) /\ Target(t) <= t
        /\ lastrun = Never \/ lastrun < Target(t)
  BY <1>1, <1>2, TheTarget DEF DailyInv, IsDue
<1>5. OncePerDay'
  <2>1. /\ \A r, s \in runs : r # s => Day(r[1]) # Day(s[1])
        /\ \A r \in runs : ForThisDay(r[1]) /\ TimeHasCome(r[1])
    BY DEF DailyInv, OncePerDay
  <2>2. ForThisDay(t) /\ Wall(t) >= ClockTime(t) + Shift
          => since' # Never \/ \E r \in runs : Day(t) \in {Day(r[1]), Day(r[2])}
    BY <1>1, <1>2, StandsForTheDay
  <2>. QED  BY <1>1, <1>2, <2>1, <2>2, DaysStay DEF OncePerDay
<1>6. since' # Never => since' <= now'
  BY <1>1, <1>2
<1>. QED  BY <1>1, <1>2, <1>3, <1>4, <1>5, <1>6, DaysStay DEF DailyInv

LEMMA RunEndsStep == ASSUME DailyInv, RunEnds PROVE DailyInv'
<1>1. /\ UNCHANGED <<zone, now, checked>> /\ since # Never
      /\ lastrun' = now /\ since' = Never /\ runs' = runs \cup {<<since, now>>}
  BY DEF RunEnds
<1>2. PICK b \in Nat, t \in Nat :
        b = since /\ t = now /\ b <= t /\ b \in Instants /\ t \in Instants /\ t # Never /\ checked = b
  BY <1>1, ZoneTypes DEF DailyInv, DailyJobsTypeOK, Instants
<1>3. ForThisDay(b) /\ Target(b) <= b /\ (lastrun = Never \/ lastrun < Target(b)) /\ Target(b) \in Int
  BY <1>1, <1>2, TheTarget DEF DailyInv
<1>4. DailyJobsTypeOK'
  BY <1>1, <1>2 DEF DailyInv, DailyJobsTypeOK
<1>5. \A r \in runs' : r \in runs \/ (r[1] = b /\ r[2] = t /\ r = <<b, t>>)
  BY <1>1, <1>2
<1>6. <<b, t>> \in runs' /\ <<b, t>>[1] = b /\ <<b, t>>[2] = t
  BY <1>1, <1>2
<1>7. \A r \in runs : r[1] \in Nat /\ r[2] \in Nat /\ r[2] <= t /\ lastrun \in Nat /\ r[2] <= lastrun
  <2>. SUFFICES ASSUME NEW r \in runs PROVE r[1] \in Nat /\ r[2] \in Nat /\ r[2] <= t /\ lastrun \in Nat /\ r[2] <= lastrun
    OBVIOUS
  <2>1. r \in Instants \X Instants /\ lastrun \in Instants /\ r[2] <= lastrun /\ lastrun <= t
    BY <1>2 DEF DailyInv, DailyJobsTypeOK
  <2>. QED  BY <1>2, <2>1, ZoneTypes DEF Instants, DailyInv
<1>8. \A r \in runs' : ForThisDay(r[1]) /\ Target(r[1]) <= r[1] /\ r[1] <= r[2] /\ r[2] <= t
  BY <1>2, <1>3, <1>5, <1>7 DEF DailyInv
<1>9. \A r \in runs : Day(r[1]) # Day(b)
  <2>. SUFFICES ASSUME NEW r \in runs, Day(r[1]) = Day(b) PROVE FALSE
    OBVIOUS
  <2>1. Target(r[1]) = Target(b)
    BY DEF Target, ClockTime
  <2>2. Target(b) <= r[1] /\ r[1] <= r[2] /\ r[2] <= lastrun /\ lastrun < Target(b)
    BY <1>3, <2>1 DEF DailyInv
  <2>. QED  BY <1>3, <1>7, <2>2
<1>10. OncePerDay'
  <2>1. \A r, s \in runs' : r # s => Day(r[1]) # Day(s[1])
    BY <1>5, <1>9 DEF DailyInv, OncePerDay
  <2>2. TimeHasCome(b)
    BY <1>3, DueTimeHasCome DEF DailyInv
  <2>3. \A r \in runs' : ForThisDay(r[1]) /\ TimeHasCome(r[1])
    BY <1>5, <1>8, <2>2 DEF DailyInv, OncePerDay
  <2>4. \E r \in runs' : Day(b) \in {Day(r[1]), Day(r[2])}
    BY <1>6
  <2>. QED  BY <1>1, <1>2, <2>1, <2>3, <2>4, DaysStay DEF OncePerDay
<1>. QED  BY <1>1, <1>2, <1>4, <1>6, <1>8, <1>10, DaysStay DEF DailyInv

LEMMA DailyStep == DailyInv /\ [DailyJobsNext]_dailyvars => DailyInv'
BY TimePassesStep, TickStep, RunEndsStep DEF DailyJobsNext
-----------------------------------------------------------------------------
\* The calendar


\* Every month has a first day, and every year a January of 31.
LEMMA DatesStart == DatesInit => DatesTypeOK
<1>. SUFFICES ASSUME DatesInit PROVE DatesTypeOK
  OBVIOUS
<1>1. PICK y \in Years : today = <<y, 1, 1>>
  BY DEF DatesInit
<1>2. Year = y /\ Month = 1 /\ DayOfMonth = 1 /\ MonthLength(y, 1) = 31
  BY <1>1 DEF Year, Month, DayOfMonth, MonthLength
<1>3. 1 \in 1..12 /\ 1 \in 1..31
  OBVIOUS
<1>. QED  BY <1>2, <1>3 DEF DatesTypeOK, DatesInit

LEMMA DatesStep == DatesTypeOK /\ [DatesNext]_datevars => DatesTypeOK'
<1>. SUFFICES ASSUME DatesTypeOK, [DatesNext]_datevars PROVE DatesTypeOK'
  OBVIOUS
<1>1. \A y, m : MonthLength(y, m) \in {28, 29, 30, 31}
  BY DEF MonthLength
<1>2. PICK y \in Years, m \in 1..12, d \in Nat \ {0} :
        y = Year /\ m = Month /\ d = DayOfMonth /\ d <= MonthLength(y, m)
  BY <1>1 DEF DatesTypeOK
<1>3. CASE today' = today /\ asked' \in BOOLEAN
  BY <1>3 DEF DatesTypeOK, Year, Month, DayOfMonth
<1>4. CASE DayPasses
  <2>1. /\ asked' = FALSE
        /\ \/ d < MonthLength(y, m) /\ today' = <<y, m, d + 1>>
           \/ m < 12 /\ today' = <<y, m + 1, 1>>
    BY <1>2, <1>4 DEF DayPasses
  <2>2. CASE d < MonthLength(y, m) /\ today' = <<y, m, d + 1>>
    <3>1. Year' = y /\ Month' = m /\ DayOfMonth' = d + 1
      BY <2>2 DEF Year, Month, DayOfMonth
    <3>2. d + 1 \in 1..MonthLength(y, m)
      BY <1>1, <2>2
    <3>. QED  BY <2>1, <3>1, <3>2 DEF DatesTypeOK
  <2>3. CASE m < 12 /\ today' = <<y, m + 1, 1>>
    <3>1. Year' = y /\ Month' = m + 1 /\ DayOfMonth' = 1
      BY <2>3 DEF Year, Month, DayOfMonth
    <3>2. m + 1 \in 1..12 /\ 1 \in 1..MonthLength(y, m + 1)
      BY <1>1, <2>3
    <3>. QED  BY <2>1, <3>1, <3>2 DEF DatesTypeOK
  <2>. QED  BY <2>1, <2>2, <2>3
<1>5. CASE AskADate \/ UNCHANGED datevars
  BY <1>3, <1>5 DEF AskADate, datevars, DatesTypeOK
<1>. QED  BY <1>4, <1>5 DEF DatesNext

LEMMA IntDivision ==
  ASSUME NEW n \in Int, NEW k \in Nat \ {0}
  PROVE  /\ n \div k \in Int /\ k * (n \div k) <= n /\ n < k * (n \div k) + k
         /\ n % k = n - k * (n \div k) /\ n % k \in 0..(k - 1)
OBVIOUS

LEMMA MonthsBefore ==
  /\ BeforeMonth[1] = 0 /\ BeforeMonth[2] = 31 /\ BeforeMonth[3] = 59 /\ BeforeMonth[4] = 90
  /\ BeforeMonth[5] = 120 /\ BeforeMonth[6] = 151 /\ BeforeMonth[7] = 181 /\ BeforeMonth[8] = 212
  /\ BeforeMonth[9] = 243 /\ BeforeMonth[10] = 273 /\ BeforeMonth[11] = 304 /\ BeforeMonth[12] = 334
BY DEF BeforeMonth

\* The days of the years before, a leap day before the month, and the last day before the month.
Before(y) == 365 * (y - 1) + ((y - 1) \div 4) - ((y - 1) \div 100) + ((y - 1) \div 400)
Leap(y, m) == IF m > 2 /\ IsLeap(y) THEN 1 ELSE 0
Eve(y, m) == Before(y) + BeforeMonth[m] + Leap(y, m)

LEMMA DaysBefore ==
  /\ \A y \in Int : Before(y) \in Int
  /\ \A m \in 1..12 : BeforeMonth[m] \in Int
  /\ \A y \in Int, m \in 1..12 : Leap(y, m) \in Int
BY MonthsBefore DEF Before, Leap

LEMMA EvesAre == \A y \in Int, m \in 1..12 : Eve(y, m) \in Int
<1>. TAKE y \in Int, m \in 1..12
<1>1. Before(y) \in Int /\ BeforeMonth[m] \in Int /\ Leap(y, m) \in Int
  BY DaysBefore, Zenon
<1>. QED  BY <1>1 DEF Eve

LEMMA OrdinalIs == \A y \in Int, m \in 1..12, d \in Int : Ordinal(y, m, d) = Eve(y, m) + d
<1>. TAKE y \in Int, m \in 1..12, d \in Int
<1>1. BeforeMonth[m] \in Int /\ Leap(y, m) \in Int /\ Before(y) \in Int
  BY DaysBefore
<1>2. Ordinal(y, m, d) = Before(y) + BeforeMonth[m] + Leap(y, m) + d
  BY DEF Ordinal, Before, Leap
<1>. QED  BY <1>1, <1>2 DEF Eve

LEMMA EveOfMarch == \A y \in Int : Eve(y, 3) \in Int
<1>. DEFINE m == 3
<1>1. m \in 1..12
  OBVIOUS
<1>. HIDE DEF m
<1>2. \A y \in Int : Eve(y, m) \in Int
  BY <1>1, EvesAre, Zenon
<1>. QED  BY <1>2 DEF m

LEMMA MonthLengths == \A y \in Int, m \in 1..12 : MonthLength(y, m) \in 28..31
BY DEF MonthLength

\* Month follows month, and year follows year.
LEMMA MonthsFollow == \A y \in Int, m \in 1..11 : Eve(y, m + 1) = Eve(y, m) + MonthLength(y, m)
<1>. TAKE y \in Int, m \in 1..11
<1>1. m \in 1..12 /\ m + 1 \in 1..12
  OBVIOUS
<1>2. BeforeMonth[m + 1] + Leap(y, m + 1) = BeforeMonth[m] + Leap(y, m) + MonthLength(y, m)
  BY MonthsBefore DEF MonthLength, Leap
<1>3. BeforeMonth[m] \in Int /\ BeforeMonth[m + 1] \in Int /\ Leap(y, m) \in Int /\ Leap(y, m + 1) \in Int
  BY <1>1, DaysBefore
<1>4. MonthLength(y, m) \in Int
  BY <1>1, MonthLengths
<1>5. Before(y) \in Int
  BY DaysBefore, Zenon
<1>. QED  BY <1>5, <1>2, <1>3, <1>4 DEF Eve

LEMMA OneMoreQuotient ==
  ASSUME NEW n \in Int, NEW k \in Nat \ {0}
  PROVE  n \div k = ((n - 1) \div k) + (IF n % k = 0 THEN 1 ELSE 0)
<1>. DEFINE a == n \div k  b == (n - 1) \div k
<1>1. a \in Int /\ k * a <= n /\ n < k * a + k /\ n % k = n - k * a
  BY IntDivision
<1>2. b \in Int /\ k * b <= n - 1 /\ n - 1 < k * b + k
  BY IntDivision
<1>. QED  BY <1>1, <1>2

LEMMA YearOn ==
  ASSUME NEW y \in Int
  PROVE  Before(y) + 365 + (IF IsLeap(y) THEN 1 ELSE 0) = 365 * y + (y \div 4) - (y \div 100) + (y \div 400)
<1>. DEFINE q(k) == IF y % k = 0 THEN 1 ELSE 0
<1>1. /\ y \div 4 = ((y - 1) \div 4) + q(4)
      /\ y \div 100 = ((y - 1) \div 100) + q(100)
      /\ y \div 400 = ((y - 1) \div 400) + q(400)
  BY OneMoreQuotient
<1>2. (IF IsLeap(y) THEN 1 ELSE 0) = q(4) - q(100) + q(400)
  BY DEF IsLeap
<1>. QED  BY <1>1, <1>2 DEF Before

LEMMA YearsFollow == \A y \in Int : Eve(y + 1, 1) = Eve(y, 12) + 31
<1>. TAKE y \in Int
<1>1. Before(y + 1) = 365 * y + (y \div 4) - (y \div 100) + (y \div 400)
  BY DEF Before
<1>2. Before(y + 1) = Before(y) + 365 + Leap(y, 12)
  <2>1. Leap(y, 12) = IF IsLeap(y) THEN 1 ELSE 0
    BY DEF Leap
  <2>. QED  BY <1>1, <2>1, YearOn
<1>3. Leap(y + 1, 1) = 0 /\ Leap(y, 12) \in Int /\ Before(y) \in Int
  BY DaysBefore DEF Leap
<1>. QED  BY <1>2, <1>3, MonthsBefore DEF Eve
-----------------------------------------------------------------------------
\* Easter.  The moon's age is that of the epact tables, the rest is the way to the Sunday.

LEMMA CenturiesOfMoons ==
  ASSUME NEW b \in Nat
  PROVE  /\ (b - ((b + 8) \div 25) + 1) \div 3 = (8 * b + 13) \div 25
         /\ b - (b \div 4) = (3 * (b + 1)) \div 4
<1>1. PICK q \in Nat, r \in 0..24 : b = 25 * q + r
  <2>1. b = 25 * (b \div 25) + (b % 25) /\ b \div 25 \in Nat /\ b % 25 \in 0..24
    OBVIOUS
  <2>. QED  BY <2>1
<1>2. (8 * b + 13) \div 25 = 8 * q + ((8 * r + 13) \div 25)
  BY <1>1
<1>3. (b + 8) \div 25 = q + ((r + 8) \div 25)
  BY <1>1
<1>4. (b - ((b + 8) \div 25) + 1) \div 3 = 8 * q + ((r - ((r + 8) \div 25) + 1) \div 3)
  BY <1>1, <1>3
<1>5. (8 * r + 13) \div 25 = (r - ((r + 8) \div 25) + 1) \div 3
  BY <1>1
<1>6. b - (b \div 4) = (3 * (b + 1)) \div 4
  OBVIOUS
<1>. QED  BY <1>2, <1>4, <1>5, <1>6

\* What the computus calls h, l and m.
MoonAge(y) == LET b == y \div 100 IN (19 * (y % 19) + b - (b \div 4) - ((b - ((b + 8) \div 25) + 1) \div 3) + 15) % 30
ToSunday(y) == (32 + 2 * ((y \div 100) % 4) + 2 * ((y % 100) \div 4) - MoonAge(y) - ((y % 100) % 4)) % 7
Correction(y) == ((y % 19) + 11 * MoonAge(y) + 22 * ToSunday(y)) \div 451

\* The two ages the epact tables move by a day.
Moved(y) == IF MoonAge(y) = 29 \/ (MoonAge(y) = 28 /\ y % 19 > 10) THEN 1 ELSE 0

LEMMA EasterParts ==
  ASSUME NEW y \in Nat
  PROVE  /\ MoonAge(y) \in 0..29 /\ ToSunday(y) \in 0..6
         /\ Correction(y) = IF ToSunday(y) = 6 THEN Moved(y) ELSE 0
<1>1. y % 19 \in 0..18 /\ y \div 100 \in Nat /\ y % 100 \in 0..99
  OBVIOUS
<1>2. MoonAge(y) \in 0..29
  BY <1>1 DEF MoonAge
<1>3. ToSunday(y) \in 0..6
  <2>. DEFINE n == 32 + 2 * ((y \div 100) % 4) + 2 * ((y % 100) \div 4) - MoonAge(y) - ((y % 100) % 4)
  <2>1. (y \div 100) % 4 \in Int /\ (y % 100) \div 4 \in Int /\ (y % 100) % 4 \in Int
    BY <1>1
  <2>2. n \in Int
    BY <1>2, <2>1
  <2>3. ToSunday(y) = n % 7
    BY DEF ToSunday
  <2>. HIDE DEF n
  <2>. QED  BY <2>2, <2>3
<1>4. Correction(y) = IF ToSunday(y) = 6 THEN Moved(y) ELSE 0
  BY <1>1, <1>2, <1>3 DEF Correction, Moved
<1>. QED  BY <1>2, <1>3, <1>4

LEMMA EasterIs ==
  ASSUME NEW y \in Nat
  PROVE  Easter(y) = Eve(y, 3) + MoonAge(y) + ToSunday(y) - 7 * Correction(y) + 22
<1>. DEFINE e == MoonAge(y) + ToSunday(y) - 7 * Correction(y) + 114
<1>1. Easter(y) = Ordinal(y, e \div 31, (e % 31) + 1)
  BY DEF Easter, MoonAge, ToSunday, Correction
<1>2. MoonAge(y) \in 0..29 /\ ToSunday(y) \in 0..6 /\ Correction(y) = IF ToSunday(y) = 6 THEN Moved(y) ELSE 0
  BY EasterParts
<1>3. e \in 114..148
  BY <1>2 DEF Moved
<1>. HIDE DEF e
<1>4. Eve(y, 4) = Eve(y, 3) + 31 /\ Eve(y, 3) \in Int
  <2>1. Eve(y, 3 + 1) = Eve(y, 3) + MonthLength(y, 3)
    BY MonthsFollow
  <2>2. MonthLength(y, 3) = 31
    BY DEF MonthLength
  <2>3. Eve(y, 3) \in Int
    BY EveOfMarch
  <2>. QED  BY <2>1, <2>2, <2>3
<1>5. CASE e < 124
  <2>1. e \div 31 = 3 /\ e % 31 = e - 93
    BY <1>3, <1>5
  <2>2. Easter(y) = Eve(y, 3) + (e - 93 + 1)
    BY <1>1, <1>3, <2>1, OrdinalIs
  <2>. QED  BY <1>2, <1>4, <2>2 DEF e, Moved
<1>6. CASE e >= 124
  <2>1. e \div 31 = 4 /\ e % 31 = e - 124
    BY <1>3, <1>6
  <2>2. Easter(y) = Eve(y, 4) + (e - 124 + 1)
    BY <1>1, <1>3, <2>1, OrdinalIs
  <2>. QED  BY <1>2, <1>4, <2>2 DEF e, Moved
<1>. QED  BY <1>3, <1>5, <1>6

LEMMA FullMoonIs ==
  ASSUME NEW y \in Nat
  PROVE  FullMoon(y) = Eve(y, 3) + 21 + MoonAge(y) - Moved(y)
<1>. DEFINE a == y % 19
            b == y \div 100
            h == MoonAge(y)
            g == (8 * b + 13) \div 25
            D == (3 * (b + 1)) \div 4
            raw == (11 * (a + 1) + 20 + (g - 5) - (D - 12)) % 30
            epact == IF raw = 24 \/ (raw = 25 /\ a + 1 > 11) THEN raw + 1 ELSE raw
            march == 44 - epact
<1>1. a \in 0..18 /\ b \in Nat /\ g \in Int /\ D \in Int
  OBVIOUS
<1>2. FullMoon(y) = Ordinal(y, 3, 1) - 1 + (IF march < 21 THEN march + 30 ELSE march)
  <2>1. 8 * (b + 1) + 5 = 8 * b + 13
    BY <1>1
  <2>. QED  BY <2>1 DEF FullMoon
<1>3. h = (19 * a + D - g + 15) % 30
  BY <1>1, CenturiesOfMoons DEF MoonAge
<1>4. h \in 0..29 /\ raw = IF h < 24 THEN 23 - h ELSE 53 - h
  <2>. HIDE DEF a, b, g, D, h
  <2>1. \E k \in Int : 19 * a + D - g + 15 = 30 * k + h
    <3>. DEFINE n == 19 * a + D - g + 15
    <3>1. n \in Int
      BY <1>1
    <3>. HIDE DEF n
    <3>2. n \div 30 \in Int /\ n % 30 = n - 30 * (n \div 30)
      BY <3>1, IntDivision
    <3>3. n = 30 * (n \div 30) + h
      BY <1>3, <3>1, <3>2 DEF n
    <3>. QED  BY <3>2, <3>3 DEF n
  <2>2. PICK k \in Int : 19 * a + D - g + 15 = 30 * k + h
    BY <2>1
  <2>3. h \in 0..29
    BY <1>1, <1>3
  <2>4. 11 * (a + 1) + 20 + (g - 5) - (D - 12) = 30 * (a - k + 1) + (23 - h)
    BY <1>1, <2>2, <2>3
  <2>. QED  BY <1>1, <2>2, <2>3, <2>4
<1>5. (IF march < 21 THEN march + 30 ELSE march) = 21 + h - Moved(y)
  <2>. HIDE DEF raw, h
  <2>. QED  BY <1>1, <1>4 DEF Moved, h
<1>6. Ordinal(y, 3, 1) = Eve(y, 3) + 1
  BY OrdinalIs
<1>7. Eve(y, 3) \in Int
  BY EveOfMarch
<1>. QED  BY <1>1, <1>2, <1>4, <1>5, <1>6, <1>7 DEF Moved

LEMMA SundayIs ==
  ASSUME NEW y \in Nat
  PROVE  (Eve(y, 3) + MoonAge(y) + ToSunday(y) + 21) % 7 = 6
<1>. DEFINE b == y \div 100
            c == y % 100
            s == b \div 4
            t == b % 4
            u == c \div 4
            v == c % 4
            h == MoonAge(y)
            l == ToSunday(y)
            n == 32 + 2 * t + 2 * u - h - v
<1>1. b \in Nat /\ c \in 0..99 /\ y = 100 * b + c
  OBVIOUS
<1>2. s \in Nat /\ t \in 0..3 /\ b = 4 * s + t
  BY <1>1
<1>3. u \in 0..24 /\ v \in 0..3 /\ c = 4 * u + v
  BY <1>1
<1>4. h \in Int /\ l \in 0..6
  BY EasterParts
<1>5. y \div 4 = 25 * b + u /\ y \div 100 = b /\ y \div 400 = s
  <2>. HIDE DEF b, c, s, t, u, v
  <2>1. y = 400 * s + (100 * t + c) /\ y = 4 * (25 * b + u) + v
    BY <1>1, <1>2, <1>3
  <2>2. 100 * t + c \in 0..399
    BY <1>1, <1>2
  <2>3. y \div 400 = s
    BY <1>2, <2>1, <2>2
  <2>4. y \div 4 = 25 * b + u
    BY <1>1, <1>3, <2>1
  <2>. QED  BY <2>3, <2>4 DEF b
<1>6. Eve(y, 3) = 365 * y + (y \div 4) - (y \div 100) + (y \div 400) - 306
  <2>1. Eve(y, 3) = Before(y) + 59 + Leap(y, 3)
    BY MonthsBefore DEF Eve
  <2>2. Before(y) + 365 + Leap(y, 3) = 365 * y + (y \div 4) - (y \div 100) + (y \div 400)
    <3>1. Leap(y, 3) = IF IsLeap(y) THEN 1 ELSE 0
      BY DEF Leap
    <3>2. Before(y) + 365 + (IF IsLeap(y) THEN 1 ELSE 0) = 365 * y + (y \div 4) - (y \div 100) + (y \div 400)
      <4>1. y \in Int
        OBVIOUS
      <4>. QED  BY <4>1, YearOn, Zenon
    <3>. QED  BY <3>1, <3>2
  <2>3. Before(y) \in Int /\ Leap(y, 3) \in Int /\ y \div 4 \in Int /\ y \div 100 \in Int /\ y \div 400 \in Int
    BY DaysBefore DEF Leap
  <2>. QED  BY <2>1, <2>2, <2>3
<1>7. \E k \in Int : n = 7 * k + l
  <2>1. n \in Int
    BY <1>2, <1>3, <1>4
  <2>2. l = n % 7
    BY DEF ToSunday
  <2>. HIDE DEF n, l
  <2>3. n \div 7 \in Int /\ n % 7 = n - 7 * (n \div 7)
    BY <2>1, IntDivision
  <2>4. n = 7 * (n \div 7) + l
    BY <2>1, <2>2, <2>3
  <2>. QED  BY <2>3, <2>4
<1>. HIDE DEF b, c, s, t, u, v, h, l
<1>8. PICK k \in Int : n = 7 * k + l
  BY <1>7
<1>9. Eve(y, 3) + h + l + 21 = 7 * (20871 * s + 5218 * t + 209 * u + 52 * v - k - 37) + 6
  BY <1>1, <1>2, <1>3, <1>4, <1>5, <1>6, <1>8 DEF n
<1>10. 20871 * s + 5218 * t + 209 * u + 52 * v - k - 37 \in Int
  BY <1>2, <1>3
<1>. QED  BY <1>9, <1>10 DEF h, l

\* What easter_sunday computes is the Sunday after the church's full moon, in every year
\* (tools/dates.py).
THEOREM EasterIsTheSunday == \A y \in Nat : EasterIsRight(y)
<1>. TAKE y \in Nat
<1>1. MoonAge(y) \in 0..29 /\ ToSunday(y) \in 0..6 /\ Correction(y) = IF ToSunday(y) = 6 THEN Moved(y) ELSE 0
  BY EasterParts
<1>2. Easter(y) = Eve(y, 3) + MoonAge(y) + ToSunday(y) - 7 * Correction(y) + 22
  BY EasterIs
<1>3. FullMoon(y) = Eve(y, 3) + 21 + MoonAge(y) - Moved(y)
  BY FullMoonIs
<1>4. (Eve(y, 3) + MoonAge(y) + ToSunday(y) + 21) % 7 = 6
  BY SundayIs
<1>5. Eve(y, 3) \in Int /\ Moved(y) \in 0..1
  BY EveOfMarch DEF Moved
<1>6. Easter(y) - FullMoon(y) \in 1..7
  BY <1>1, <1>2, <1>3, <1>5
<1>7. Weekday(Easter(y)) = 6
  <2>. DEFINE o == Eve(y, 3) + MoonAge(y) + ToSunday(y) + 21
  <2>1. o \in Int /\ Correction(y) \in 0..1 /\ Easter(y) - 1 = o - 7 * Correction(y)
    BY <1>1, <1>2, <1>5
  <2>. HIDE DEF o
  <2>. QED  BY <1>4, <2>1 DEF Weekday, o
<1>. QED  BY <1>6, <1>7 DEF EasterIsRight

\* A set of naturals has a least element, and so has a set of integers from some number on.
LEMMA LeastOf ==
  ASSUME NEW S, S \subseteq Nat, S # {}
  PROVE  \E x \in S : \A y \in S : x <= y
<1>. DEFINE R == OpToRel(<, Nat)
<1>1. IsWellFoundedOn(R, Nat)
  BY NatLessThanWellFounded
<1>2. \A x, y \in Nat : <<x, y>> \in R <=> x < y
  BY Zenon DEF OpToRel
<1>. HIDE DEF R
<1>3. \E x \in S : \A y \in S : ~(<<y, x>> \in R)
  BY <1>1, WFMin
<1>4. PICK x \in S : \A y \in S : ~(<<y, x>> \in R)
  BY <1>3
<1>5. \A y \in S : ~(y < x)
  BY <1>2, <1>4
<1>. QED  BY <1>5

LEMMA MinIs ==
  ASSUME NEW S, NEW k \in Int, \A x \in S : x \in Int /\ x >= k, S # {}
  PROVE  Min(S) \in S /\ \A y \in S : Min(S) <= y
<1>. DEFINE T == {x - k : x \in S}
<1>1. T \subseteq Nat /\ T # {}
  OBVIOUS
<1>2. PICK t \in T : \A u \in T : t <= u
  BY <1>1, LeastOf
<1>3. PICK x \in S : t = x - k
  OBVIOUS
<1>4. \A y \in S : x <= y
  <2>. TAKE y \in S
  <2>1. y - k \in T
    OBVIOUS
  <2>. HIDE DEF T
  <2>2. t <= y - k
    BY <1>2, <2>1
  <2>. QED  BY <1>3, <2>2
<1>5. \E z \in S : \A y \in S : z <= y
  BY <1>4
<1>. QED  BY <1>5, Zenon DEF Min

LEMMA MaxIs ==
  ASSUME NEW S, NEW k \in Int, \A x \in S : x \in Int /\ x <= k, S # {}
  PROVE  Max(S) \in S /\ \A y \in S : Max(S) >= y
<1>. DEFINE T == {k - x : x \in S}
<1>1. T \subseteq Nat /\ T # {}
  OBVIOUS
<1>2. PICK t \in T : \A u \in T : t <= u
  BY <1>1, LeastOf
<1>3. PICK x \in S : t = k - x
  OBVIOUS
<1>4. \A y \in S : x >= y
  <2>. TAKE y \in S
  <2>1. k - y \in T
    OBVIOUS
  <2>. HIDE DEF T
  <2>2. t <= k - y
    BY <1>2, <2>1
  <2>. QED  BY <1>3, <2>2
<1>5. \E z \in S : \A y \in S : z >= y
  BY <1>4
<1>. QED  BY <1>5, Zenon DEF Max

LEMMA MinOfTwo == \A a, b \in Int : Min({a, b}) = IF a <= b THEN a ELSE b
<1>. TAKE a, b \in Int
<1>1. \A x \in {a, b} : x \in Int /\ x >= (IF a <= b THEN a ELSE b)
  OBVIOUS
<1>2. Min({a, b}) \in {a, b} /\ \A y \in {a, b} : Min({a, b}) <= y
  BY <1>1, MinIs
<1>. QED  BY <1>2
-----------------------------------------------------------------------------
\* Months, counted on from any other.
Start(k) == Eve(k \div 12, (k % 12) + 1)
Days(k) == MonthLength(k \div 12, (k % 12) + 1)

LEMMA MonthAndYear ==
  ASSUME NEW k \in Int
  PROVE  k \div 12 \in Int /\ (k % 12) + 1 \in 1..12
OBVIOUS

LEMMA StartIs == \A k \in Int : Start(k) \in Int
<1>. TAKE k \in Int
<1>1. k \div 12 \in Int /\ (k % 12) + 1 \in 1..12
  BY MonthAndYear
<1>. QED  BY <1>1, EvesAre, Zenon DEF Start

LEMMA DaysAre == \A k \in Int : Days(k) \in 28..31
<1>. TAKE k \in Int
<1>1. k \div 12 \in Int /\ (k % 12) + 1 \in 1..12
  BY MonthAndYear
<1>. QED  BY <1>1, MonthLengths, Zenon DEF Days

LEMMA StartsFollow == \A k \in Int : Start(k + 1) = Start(k) + Days(k)
<1>. TAKE k \in Int
<1>. DEFINE y == k \div 12  m == (k % 12) + 1
<1>1. y \in Int /\ m \in 1..12
  BY MonthAndYear
<1>2. CASE m < 12
  <2>1. (k + 1) \div 12 = y /\ ((k + 1) % 12) + 1 = m + 1
    BY <1>2
  <2>. HIDE DEF y, m
  <2>2. m \in 1..11
    BY <1>1, <1>2
  <2>. QED  BY <1>1, <2>1, <2>2, MonthsFollow DEF Start, Days, y, m
<1>3. CASE m = 12
  <2>1. (k + 1) \div 12 = y + 1 /\ ((k + 1) % 12) + 1 = 1
    BY <1>3
  <2>2. Start(k + 1) = Eve(y + 1, 1) /\ Start(k) = Eve(y, 12) /\ Days(k) = MonthLength(y, 12)
    BY <1>3, <2>1 DEF Start, Days
  <2>. HIDE DEF y, m
  <2>3. MonthLength(y, 12) = 31
    BY DEF MonthLength
  <2>4. Eve(y + 1, 1) = Eve(y, 12) + 31
    BY <1>1, YearsFollow
  <2>. QED  BY <2>2, <2>3, <2>4
<1>4. m < 12 \/ m = 12
  BY <1>1
<1>. QED  BY <1>2, <1>3, <1>4

\* A later month begins when the earlier one is over.
LEMMA StartsAreOrdered == \A i, j \in Int : i < j => Start(i) + Days(i) <= Start(j)
<1>. SUFFICES ASSUME NEW i \in Int, NEW j \in Int, i < j, ~(Start(i) + Days(i) <= Start(j))
              PROVE  FALSE
  OBVIOUS
<1>. DEFINE S == {n \in Nat : n > 0 /\ ~(Start(i) + Days(i) <= Start(i + n))}
<1>1. j - i \in S
  <2>1. i + (j - i) = j /\ j - i \in Nat /\ j - i > 0
    OBVIOUS
  <2>. QED  BY <2>1
<1>2. PICK n \in S : \A o \in S : n <= o
  BY <1>1, LeastOf
<1>3. n # 1
  BY StartsFollow, StartIs, DaysAre
<1>4. n - 1 \in Nat /\ n - 1 > 0 /\ n - 1 \notin S /\ i + n = (i + (n - 1)) + 1 /\ i + (n - 1) \in Int
  BY <1>2, <1>3
<1>5. Start(i) + Days(i) <= Start(i + (n - 1))
  BY <1>4
<1>6. Start(i + n) = Start(i + (n - 1)) + Days(i + (n - 1))
  BY <1>4, StartsFollow
<1>7. Days(i + (n - 1)) \in 28..31 /\ Days(i) \in 28..31
  BY <1>4, DaysAre, Zenon
<1>8. Start(i + (n - 1)) \in Int /\ Start(i) \in Int
  BY <1>4, StartIs, Zenon
<1>. QED  BY <1>2, <1>5, <1>6, <1>7, <1>8

LEMMA IndexOf ==
  ASSUME NEW y \in Int, NEW m \in 1..12
  PROVE  /\ 12 * y + m - 1 \in Int
         /\ (12 * y + m - 1) \div 12 = y /\ ((12 * y + m - 1) % 12) + 1 = m
         /\ Start(12 * y + m - 1) = Eve(y, m) /\ Days(12 * y + m - 1) = MonthLength(y, m)
<1>. DEFINE k == 12 * y + m - 1
<1>1. k \in Int /\ k \div 12 = y /\ (k % 12) + 1 = m
  OBVIOUS
<1>. HIDE DEF k
<1>2. Start(k) = Eve(y, m) /\ Days(k) = MonthLength(y, m)
  BY <1>1 DEF Start, Days
<1>. QED  BY <1>1, <1>2 DEF k

\* The months of a year, one after the other, from its first day to its last.
LEMMA MonthsOfAYear ==
  ASSUME NEW y \in Int, NEW m \in 1..12
  PROVE  /\ Eve(y, m) \in Int /\ MonthLength(y, m) \in 28..31
         /\ Eve(y, 1) <= Eve(y, m) /\ Eve(y, m) + MonthLength(y, m) <= Eve(y + 1, 1)
         /\ \A n \in 1..12 : m < n => Eve(y, m) + MonthLength(y, m) <= Eve(y, n)
<1>. DEFINE i(n) == 12 * y + n - 1
<1>1. \A n \in 1..12 : i(n) \in Int /\ Start(i(n)) = Eve(y, n) /\ Days(i(n)) = MonthLength(y, n)
  BY IndexOf
<1>2. Eve(y, m) \in Int /\ MonthLength(y, m) \in 28..31
  BY EvesAre, MonthLengths
<1>3. ASSUME NEW n \in 1..12, m < n PROVE Eve(y, m) + MonthLength(y, m) <= Eve(y, n)
  <2>1. i(m) < i(n) /\ i(m) \in Int /\ i(n) \in Int
    BY <1>3
  <2>2. Start(i(m)) + Days(i(m)) <= Start(i(n))
    BY <2>1, StartsAreOrdered, Zenon
  <2>. QED  BY <1>1, <2>2
<1>4. Eve(y, 1) \in Int /\ Eve(y, 1) <= Eve(y, m)
  <2>1. 1 \in 1..12 /\ i(1) \in Int /\ i(m) \in Int
    OBVIOUS
  <2>2. Eve(y, 1) \in Int
    BY <2>1, EvesAre, Zenon
  <2>3. CASE m = 1
    BY <2>2, <2>3
  <2>4. CASE m > 1
    <3>1. i(1) < i(m)
      BY <2>4
    <3>2. Start(i(1)) + Days(i(1)) <= Start(i(m))
      BY <2>1, <3>1, StartsAreOrdered, Zenon
    <3>3. Days(i(1)) \in 28..31
      BY <2>1, DaysAre, Zenon
    <3>4. Start(i(1)) = Eve(y, 1) /\ Start(i(m)) = Eve(y, m)
      BY <1>1, <2>1
    <3>. HIDE DEF i
    <3>. QED  BY <1>2, <2>2, <3>2, <3>3, <3>4
  <2>. QED  BY <2>2, <2>3, <2>4
<1>5. Eve(y, m) + MonthLength(y, m) <= Eve(y + 1, 1)
  <2>. DEFINE j == 12 * (y + 1) + 1 - 1
  <2>1. j \in Int /\ Start(j) = Eve(y + 1, 1)
    BY IndexOf
  <2>2. i(m) < j /\ i(m) \in Int
    OBVIOUS
  <2>3. Start(i(m)) + Days(i(m)) <= Start(j)
    BY <2>1, <2>2, StartsAreOrdered, Zenon
  <2>. QED  BY <1>1, <2>1, <2>3
<1>. QED  BY <1>2, <1>3, <1>4, <1>5

LEMMA YearsAreLong ==
  ASSUME NEW y \in Int
  PROVE  Eve(y, 1) \in Int /\ Eve(y + 1, 1) \in Int /\ Eve(y + 1, 1) - Eve(y, 1) \in 365..366
<1>1. 1 \in 1..12 /\ y + 1 \in Int
  OBVIOUS
<1>2. Eve(y, 1) \in Int /\ Eve(y + 1, 1) \in Int
  BY <1>1, EvesAre, Zenon
<1>3. Eve(y, 12) = Eve(y, 1) + 334 + Leap(y, 12) /\ Leap(y, 12) \in 0..1
  <2>1. Leap(y, 12) \in 0..1 /\ Leap(y, 1) = 0
    BY DEF Leap
  <2>2. Before(y) \in Int
    BY DaysBefore, Zenon
  <2>. QED  BY <2>1, <2>2, MonthsBefore DEF Eve
<1>4. Eve(y + 1, 1) = Eve(y, 12) + 31
  BY YearsFollow
<1>. QED  BY <1>2, <1>3, <1>4

LEMMA NoDayIsBefore == \A y \in Nat : y >= 1 => Eve(y, 1) >= 0
<1>. SUFFICES ASSUME NEW y \in Nat, y >= 1 PROVE Eve(y, 1) >= 0
  OBVIOUS
<1>. DEFINE n == y - 1
<1>1. n \in Nat /\ n \div 4 \in Nat /\ n \div 400 \in Nat /\ n \div 100 \in Nat /\ n \div 100 <= n
  OBVIOUS
<1>2. Eve(y, 1) = 365 * n + (n \div 4) - (n \div 100) + (n \div 400)
  BY MonthsBefore DEF Eve, Before, Leap
<1>. HIDE DEF n
<1>. QED  BY <1>1, <1>2
-----------------------------------------------------------------------------
\* Days of the week.
LEMMA WeekdayIs == \A o \in Int : Weekday(o) \in 0..6
BY DEF Weekday

LEMMA WeekdayOn ==
  ASSUME NEW o \in Int, NEW wd \in 0..6
  PROVE  /\ (wd - Weekday(o)) % 7 \in 0..6 /\ Weekday(o + ((wd - Weekday(o)) % 7)) = wd
         /\ (Weekday(o) - wd) % 7 \in 0..6 /\ Weekday(o - ((Weekday(o) - wd) % 7)) = wd
<1>1. PICK q \in Int, r \in 0..6 : o - 1 = 7 * q + r
  <2>1. (o - 1) \div 7 \in Int /\ (o - 1) % 7 \in 0..6 /\ o - 1 = 7 * ((o - 1) \div 7) + ((o - 1) % 7)
    BY IntDivision
  <2>. QED  BY <2>1
<1>2. Weekday(o) = r
  BY <1>1 DEF Weekday
<1>3. /\ (wd - r) % 7 = IF wd >= r THEN wd - r ELSE wd - r + 7
      /\ (r - wd) % 7 = IF r >= wd THEN r - wd ELSE r - wd + 7
  OBVIOUS
<1>4. Weekday(o + ((wd - r) % 7)) = wd
  BY <1>1, <1>3 DEF Weekday
<1>5. Weekday(o - ((r - wd) % 7)) = wd
  BY <1>1, <1>3 DEF Weekday
<1>. QED  BY <1>2, <1>3, <1>4, <1>5

LEMMA WeekOf == \A o \in Int : (o - 1) \div 7 \in Int /\ o - 1 = 7 * ((o - 1) \div 7) + Weekday(o)
BY DEF Weekday

\* Two days of one weekday are weeks apart.
LEMMA WeeksApart ==
  ASSUME NEW o \in Int, NEW p \in Int
  PROVE  Weekday(o) = Weekday(p) <=> \E k \in Int : p = o + 7 * k
<1>1. PICK q \in Int : o - 1 = 7 * q + Weekday(o)
  BY WeekOf
<1>2. PICK t \in Int : p - 1 = 7 * t + Weekday(p)
  BY WeekOf
<1>3. Weekday(o) \in 0..6 /\ Weekday(p) \in 0..6
  BY WeekdayIs
<1>4. ASSUME Weekday(o) = Weekday(p) PROVE \E k \in Int : p = o + 7 * k
  <2>1. p = o + 7 * (t - q) /\ t - q \in Int
    BY <1>1, <1>2, <1>3, <1>4
  <2>. QED  BY <2>1
<1>5. ASSUME NEW k \in Int, p = o + 7 * k PROVE Weekday(o) = Weekday(p)
  BY <1>1, <1>2, <1>3, <1>5
<1>. QED  BY <1>4, <1>5

LEMMA NthIs ==
  ASSUME NEW y \in Int, NEW m \in 1..12, NEW wd \in 0..6, NEW n \in 1..4
  PROVE  \E f \in (Eve(y, m) + 1)..(Eve(y, m) + 7) :
           Weekday(f) = wd /\ NthWeekday(y, m, wd, n) = f + 7 * (n - 1)
<1>. DEFINE first == Ordinal(y, m, 1)  f == first + ((wd - Weekday(first)) % 7)
<1>1. Eve(y, m) \in Int /\ first = Eve(y, m) + 1
  <2>1. Eve(y, m) \in Int
    BY EvesAre
  <2>2. first = Eve(y, m) + 1
    BY OrdinalIs
  <2>. QED  BY <2>1, <2>2
<1>2. (wd - Weekday(first)) % 7 \in 0..6 /\ Weekday(f) = wd
  BY <1>1, WeekdayOn
<1>3. NthWeekday(y, m, wd, n) = f + 7 * (n - 1)
  BY DEF NthWeekday
<1>. HIDE DEF first
<1>4. f \in (Eve(y, m) + 1)..(Eve(y, m) + 7)
  BY <1>1, <1>2
<1>. QED  BY <1>2, <1>3, <1>4

LEMMA LastIs ==
  ASSUME NEW y \in Int, NEW m \in 1..12, NEW wd \in 0..6
  PROVE  /\ NthWeekday(y, m, wd, -1) \in (Eve(y, m) + MonthLength(y, m) - 6)..(Eve(y, m) + MonthLength(y, m))
         /\ Weekday(NthWeekday(y, m, wd, -1)) = wd
<1>. DEFINE last == Ordinal(y, m, MonthLength(y, m))  l == last - ((Weekday(last) - wd) % 7)
<1>1. Eve(y, m) \in Int /\ MonthLength(y, m) \in Int /\ last = Eve(y, m) + MonthLength(y, m)
  <2>1. Eve(y, m) \in Int
    BY EvesAre
  <2>2. MonthLength(y, m) \in Int
    BY MonthLengths
  <2>3. last = Eve(y, m) + MonthLength(y, m)
    BY <2>2, OrdinalIs
  <2>. QED  BY <2>1, <2>2, <2>3
<1>2. (Weekday(last) - wd) % 7 \in 0..6 /\ Weekday(l) = wd
  BY <1>1, WeekdayOn
<1>3. NthWeekday(y, m, wd, -1) = l
  BY DEF NthWeekday
<1>. HIDE DEF last
<1>4. l \in (Eve(y, m) + MonthLength(y, m) - 6)..(Eve(y, m) + MonthLength(y, m))
  BY <1>1, <1>2
<1>. QED  BY <1>2, <1>3, <1>4

LEMMA MonthDaysAre ==
  ASSUME NEW y \in Int, NEW m \in 1..12
  PROVE  MonthDays(y, m) = (Eve(y, m) + 1)..(Eve(y, m) + MonthLength(y, m))
<1>1. MonthLength(y, m) \in Int
  BY MonthLengths
<1>. QED  BY <1>1, OrdinalIs DEF MonthDays

Those(y, m, wd) == {o \in MonthDays(y, m) : Weekday(o) = wd}
UpTo(days, last) == {o \in days : o <= last}

\* The n-th of a weekday has n - 1 before it in its month.
LEMMA Counted ==
  ASSUME NEW y \in Int, NEW m \in 1..12, NEW wd \in 0..6, NEW n \in 1..4
  PROVE  /\ NthWeekday(y, m, wd, n) \in Those(y, m, wd)
         /\ Cardinality(UpTo(Those(y, m, wd), NthWeekday(y, m, wd, n))) = n
<1>. DEFINE these == {o \in MonthDays(y, m) : Weekday(o) = wd}
            nth == NthWeekday(y, m, wd, n)
            e == Eve(y, m)
            upto == {o \in these : o <= nth}
<1>1. e \in Int /\ MonthLength(y, m) \in 28..31 /\ MonthDays(y, m) = (e + 1)..(e + MonthLength(y, m))
  BY EvesAre, MonthLengths, MonthDaysAre
<1>2. PICK f \in (e + 1)..(e + 7) : Weekday(f) = wd /\ nth = f + 7 * (n - 1)
  BY NthIs
<1>. HIDE DEF e, nth
<1>3. nth \in these
  <2>1. nth \in (e + 1)..(e + MonthLength(y, m)) /\ f \in Int
    BY <1>1, <1>2
  <2>2. Weekday(nth) = wd
    BY <1>2, <2>1, WeeksApart
  <2>. QED  BY <1>1, <2>1, <2>2
<1>. DEFINE g == [k \in 1..n |-> f + 7 * (k - 1)]
<1>4. ASSUME NEW k \in 1..n PROVE g[k] \in upto
  <2>1. g[k] \in (e + 1)..(e + MonthLength(y, m)) /\ f \in Int /\ g[k] = f + 7 * (k - 1) /\ g[k] <= nth
    BY <1>1, <1>2
  <2>2. Weekday(g[k]) = wd
    BY <1>2, <2>1, WeeksApart
  <2>. HIDE DEF g
  <2>. QED  BY <1>1, <2>1, <2>2
<1>5. ASSUME NEW o \in upto PROVE \E k \in 1..n : g[k] = o
  <2>1. o \in (e + 1)..(e + MonthLength(y, m)) /\ Weekday(o) = wd /\ o <= nth /\ f \in Int
    BY <1>1, <1>2
  <2>2. PICK k \in Int : o = f + 7 * k
    BY <1>2, <2>1, WeeksApart
  <2>3. k + 1 \in 1..n
    BY <1>1, <1>2, <2>1, <2>2
  <2>. QED  BY <2>2, <2>3
<1>6. \A i, j \in 1..n : g[i] = g[j] => i = j
  BY <1>1, <1>2
<1>7. ExistsBijection(1..n, upto)
  <2>. HIDE DEF upto
  <2>1. g \in [1..n -> upto]
    BY <1>4
  <2>. HIDE DEF g
  <2>2. g \in Injection(1..n, upto)
    BY <1>6, <2>1 DEF Injection, IsInjective
  <2>3. g \in Surjection(1..n, upto)
    BY <1>5, <2>1 DEF Surjection
  <2>. QED  BY <2>2, <2>3 DEF ExistsBijection, Bijection
<1>8. Cardinality(upto) = n
  <2>1. n \in Nat
    OBVIOUS
  <2>. HIDE DEF upto
  <2>. QED  BY <1>7, <2>1, FS_CountingElements
<1>. QED  BY <1>3, <1>8 DEF nth, Those, UpTo

LEMMA LastCounted ==
  ASSUME NEW y \in Int, NEW m \in 1..12, NEW wd \in 0..6
  PROVE  NthWeekday(y, m, wd, -1) \in Those(y, m, wd) /\ \A o \in Those(y, m, wd) : o <= NthWeekday(y, m, wd, -1)
<1>. DEFINE nth == NthWeekday(y, m, wd, -1)
            e == Eve(y, m) + MonthLength(y, m)
<1>1. Eve(y, m) \in Int /\ MonthLength(y, m) \in 28..31 /\ MonthDays(y, m) = (Eve(y, m) + 1)..e
  BY EvesAre, MonthLengths, MonthDaysAre
<1>2. nth \in (e - 6)..e /\ Weekday(nth) = wd /\ e \in Int
  <2>1. nth \in (e - 6)..e
    <3>1. nth \in (Eve(y, m) + MonthLength(y, m) - 6)..(Eve(y, m) + MonthLength(y, m))
      BY LastIs
    <3>. QED  BY <1>1, <3>1
  <2>2. Weekday(nth) = wd
    BY LastIs, Zenon
  <2>. QED  BY <1>1, <2>1, <2>2
<1>. HIDE DEF nth
<1>3. nth \in MonthDays(y, m)
  BY <1>1, <1>2
<1>4. ASSUME NEW o \in MonthDays(y, m), Weekday(o) = wd PROVE o <= nth
  <2>1. o \in Int /\ o <= e
    BY <1>1, <1>4
  <2>. HIDE DEF e
  <2>2. nth \in Int
    BY <1>2
  <2>3. PICK k \in Int : o = nth + 7 * k
    BY <1>2, <1>4, <2>1, <2>2, WeeksApart
  <2>. QED  BY <1>2, <2>1, <2>3
<1>. QED  BY <1>2, <1>3, <1>4 DEF nth, Those

LEMMA FixedAre ==
  \A h \in DOMAIN FixedDays, y \in Int :
    FixedDays[h][1] \in 1..12 /\ FixedDays[h][2] \in 1..MonthLength(y, FixedDays[h][1])
BY DEF FixedDays, MonthLength

LEMMA WeekdaysAre ==
  \A h \in DOMAIN WeekdaysOfMonths :
    /\ WeekdaysOfMonths[h][1] \in 1..12 /\ WeekdaysOfMonths[h][2] \in 0..6
    /\ WeekdaysOfMonths[h][3] \in 1..4 \/ WeekdaysOfMonths[h][3] = -1
BY DEF WeekdaysOfMonths

LEMMA HolidaysAre ==
  \A h \in Holidays, y \in Int :
    \/ h \in DOMAIN FixedDays /\ DayOf(h, y) = Ordinal(y, FixedDays[h][1], FixedDays[h][2])
    \/ /\ h \in DOMAIN WeekdaysOfMonths
       /\ DayOf(h, y) = NthWeekday(y, WeekdaysOfMonths[h][1], WeekdaysOfMonths[h][2], WeekdaysOfMonths[h][3])
    \/ h = "easter" /\ DayOf(h, y) = Easter(y)
    \/ h = "good_friday" /\ DayOf(h, y) = Easter(y) - 2
    \/ h = "black_friday" /\ DayOf(h, y) = NthWeekday(y, 11, 3, 4) + 1
    \/ h = "cyber_monday" /\ DayOf(h, y) = NthWeekday(y, 11, 3, 4) + 4
BY DEF Holidays, DayOf, FixedDays, WeekdaysOfMonths

LEMMA EasterIsInSpring ==
  ASSUME NEW y \in Nat
  PROVE  Easter(y) \in (Eve(y, 3) + 22)..(Eve(y, 3) + 56)
<1>1. MoonAge(y) \in 0..29 /\ ToSunday(y) \in 0..6 /\ Correction(y) = IF ToSunday(y) = 6 THEN Moved(y) ELSE 0
  BY EasterParts
<1>2. Easter(y) = Eve(y, 3) + MoonAge(y) + ToSunday(y) - 7 * Correction(y) + 22
  BY EasterIs
<1>3. Eve(y, 3) \in Int
  BY EveOfMarch
<1>. QED  BY <1>1, <1>2, <1>3 DEF Moved

\* A day of a month is a day of its year.
LEMMA DayInYear ==
  ASSUME NEW y \in Int, NEW m \in 1..12, NEW d \in 1..MonthLength(y, m)
  PROVE  Eve(y, m) + d \in (Eve(y, 1) + 1)..Eve(y + 1, 1)
<1>1. /\ Eve(y, m) \in Int /\ MonthLength(y, m) \in 28..31
      /\ Eve(y, 1) <= Eve(y, m) /\ Eve(y, m) + MonthLength(y, m) <= Eve(y + 1, 1)
  BY MonthsOfAYear
<1>2. Eve(y, 1) \in Int /\ Eve(y + 1, 1) \in Int
  BY YearsAreLong
<1>. QED  BY <1>1, <1>2

\* A weekday that is counted in a month is a day of it.
LEMMA NthInMonth ==
  ASSUME NEW y \in Int, NEW m \in 1..12, NEW wd \in 0..6, NEW n, n \in 1..4 \/ n = -1
  PROVE  \E d \in 1..MonthLength(y, m) : NthWeekday(y, m, wd, n) = Eve(y, m) + d
<1>1. Eve(y, m) \in Int
  BY EvesAre
<1>2. MonthLength(y, m) \in 28..31
  BY MonthLengths
<1>3. CASE n \in 1..4
  <2>1. PICK f \in (Eve(y, m) + 1)..(Eve(y, m) + 7) : NthWeekday(y, m, wd, n) = f + 7 * (n - 1)
    BY <1>3, NthIs
  <2>. DEFINE d == f - Eve(y, m) + 7 * (n - 1)
  <2>2. d \in 1..MonthLength(y, m) /\ NthWeekday(y, m, wd, n) = Eve(y, m) + d
    BY <1>1, <1>2, <1>3, <2>1
  <2>. QED  BY <2>2
<1>4. CASE n = -1
  <2>1. NthWeekday(y, m, wd, n) \in (Eve(y, m) + MonthLength(y, m) - 6)..(Eve(y, m) + MonthLength(y, m))
    BY <1>4, LastIs
  <2>. DEFINE d == NthWeekday(y, m, wd, n) - Eve(y, m)
  <2>2. d \in 1..MonthLength(y, m) /\ NthWeekday(y, m, wd, n) = Eve(y, m) + d
    BY <1>1, <1>2, <2>1
  <2>. QED  BY <2>2
<1>. QED  BY <1>3, <1>4

\* Every holiday falls once in a year, and in that year.
LEMMA HolidayInYear ==
  ASSUME NEW h \in Holidays, NEW y \in Nat
  PROVE  DayOf(h, y) \in (Eve(y, 1) + 1)..Eve(y + 1, 1)
<1>. DEFINE in(o) == o \in (Eve(y, 1) + 1)..Eve(y + 1, 1)
<1>0. y \in Int
  OBVIOUS
<1>1. ASSUME h \in DOMAIN FixedDays, DayOf(h, y) = Ordinal(y, FixedDays[h][1], FixedDays[h][2]) PROVE in(DayOf(h, y))
  <2>. DEFINE m == FixedDays[h][1]  d == FixedDays[h][2]
  <2>1. m \in 1..12 /\ d \in 1..MonthLength(y, m)
    BY <1>0, <1>1, FixedAre
  <2>. HIDE DEF m, d
  <2>2. d \in Int
    BY <2>1, MonthLengths
  <2>3. Ordinal(y, m, d) = Eve(y, m) + d
    BY <1>0, <2>1, <2>2, OrdinalIs
  <2>4. in(Eve(y, m) + d)
    BY <1>0, <2>1, DayInYear
  <2>. QED  BY <1>1, <2>3, <2>4 DEF m, d
<1>2. ASSUME NEW m \in 1..12, NEW wd \in 0..6, NEW n, n \in 1..4 \/ n = -1 PROVE in(NthWeekday(y, m, wd, n))
  <2>1. PICK d \in 1..MonthLength(y, m) : NthWeekday(y, m, wd, n) = Eve(y, m) + d
    BY <1>0, <1>2, NthInMonth
  <2>2. in(Eve(y, m) + d)
    BY <1>0, DayInYear
  <2>. QED  BY <2>1, <2>2
<1>3. ASSUME h \in DOMAIN WeekdaysOfMonths,
             DayOf(h, y) = NthWeekday(y, WeekdaysOfMonths[h][1], WeekdaysOfMonths[h][2], WeekdaysOfMonths[h][3])
      PROVE  in(DayOf(h, y))
  <2>. DEFINE m == WeekdaysOfMonths[h][1]  wd == WeekdaysOfMonths[h][2]  n == WeekdaysOfMonths[h][3]
  <2>1. m \in 1..12 /\ wd \in 0..6 /\ (n \in 1..4 \/ n = -1)
    BY <1>3, WeekdaysAre
  <2>. HIDE DEF m, wd, n
  <2>2. in(NthWeekday(y, m, wd, n))
    BY <1>2, <2>1
  <2>. QED  BY <1>3, <2>2 DEF m, wd, n
<1>4. ASSUME DayOf(h, y) = Easter(y) \/ DayOf(h, y) = Easter(y) - 2 PROVE in(DayOf(h, y))
  <2>1. Easter(y) \in (Eve(y, 3) + 22)..(Eve(y, 3) + 56)
    BY EasterIsInSpring
  <2>2. Eve(y, 3) \in Int
    BY EveOfMarch
  <2>3. /\ Eve(y, 1) <= Eve(y, 3) /\ Eve(y, 3) + MonthLength(y, 3) <= Eve(y, 4)
        /\ Eve(y, 4) + MonthLength(y, 4) <= Eve(y + 1, 1) /\ MonthLength(y, 3) = 31 /\ MonthLength(y, 4) = 30
        /\ Eve(y, 4) \in Int
    <3>1. 3 \in 1..12 /\ 4 \in 1..12 /\ 3 < 4
      OBVIOUS
    <3>2. Eve(y, 1) <= Eve(y, 3)
      BY <1>0, <3>1, MonthsOfAYear, Zenon
    <3>3. Eve(y, 3) + MonthLength(y, 3) <= Eve(y, 4)
      BY <1>0, <3>1, MonthsOfAYear, Zenon
    <3>4. Eve(y, 4) + MonthLength(y, 4) <= Eve(y + 1, 1)
      BY <1>0, <3>1, MonthsOfAYear, Zenon
    <3>5. Eve(y, 4) \in Int
      BY <1>0, <3>1, EvesAre, Zenon
    <3>6. MonthLength(y, 3) = 31 /\ MonthLength(y, 4) = 30
      BY DEF MonthLength
    <3>. QED  BY <3>2, <3>3, <3>4, <3>5, <3>6
  <2>4. Eve(y, 1) \in Int /\ Eve(y + 1, 1) \in Int
    BY <1>0, YearsAreLong
  <2>. QED  BY <1>4, <2>1, <2>2, <2>3, <2>4
<1>5. ASSUME DayOf(h, y) = NthWeekday(y, 11, 3, 4) + 1 \/ DayOf(h, y) = NthWeekday(y, 11, 3, 4) + 4 PROVE in(DayOf(h, y))
  <2>0. 11 \in 1..12 /\ 12 \in 1..12 /\ 11 < 12 /\ 3 \in 0..6 /\ 4 \in 1..4
    OBVIOUS
  <2>1. \E d \in 1..MonthLength(y, 11) : NthWeekday(y, 11, 3, 4) = Eve(y, 11) + d
    BY <1>0, <2>0, NthInMonth, Zenon
  <2>2. Eve(y, 11) + MonthLength(y, 11) <= Eve(y, 12)
    BY <1>0, <2>0, MonthsOfAYear, Zenon
  <2>3. Eve(y, 12) + MonthLength(y, 12) <= Eve(y + 1, 1)
    BY <1>0, <2>0, MonthsOfAYear, Zenon
  <2>4. Eve(y, 1) <= Eve(y, 11)
    BY <1>0, <2>0, MonthsOfAYear, Zenon
  <2>5. MonthLength(y, 11) = 30 /\ MonthLength(y, 12) = 31
    BY DEF MonthLength
  <2>6. Eve(y, 11) \in Int
    BY <1>0, <2>0, EvesAre, Zenon
  <2>7. Eve(y, 12) \in Int
    BY <1>0, <2>0, EvesAre, Zenon
  <2>8. Eve(y, 1) \in Int /\ Eve(y + 1, 1) \in Int
    BY <1>0, YearsAreLong
  <2>. QED  BY <1>5, <2>1, <2>2, <2>3, <2>4, <2>5, <2>6, <2>7, <2>8
<1>. QED  BY <1>0, <1>1, <1>3, <1>4, <1>5, HolidaysAre

\* Today is a day of a month of a year, and after the day before the first.
LEMMA TodayIs ==
  ASSUME DatesTypeOK
  PROVE  /\ Year \in Nat /\ Year >= 2 /\ Month \in 1..12 /\ DayOfMonth \in 1..MonthLength(Year, Month)
         /\ DayOfMonth \in 1..31 /\ Today \in Nat /\ Today > 0
         /\ Eve(Year, Month) \in Int /\ MonthLength(Year, Month) \in 28..31
         /\ Today = Eve(Year, Month) + DayOfMonth
         /\ Today \in (Eve(Year, 1) + 1)..Eve(Year + 1, 1)
<1>1. Year \in Nat /\ Year >= 2 /\ Month \in 1..12 /\ DayOfMonth \in 1..MonthLength(Year, Month)
  BY DatesAssumption DEF DatesTypeOK
<1>2. Year \in Int
  BY <1>1
<1>3. Eve(Year, Month) \in Int /\ MonthLength(Year, Month) \in 28..31
  BY <1>1, <1>2, MonthsOfAYear
<1>4. DayOfMonth \in Int
  BY <1>1, <1>3
<1>5. Today = Eve(Year, Month) + DayOfMonth
  BY <1>1, <1>2, <1>4, OrdinalIs DEF Today
<1>6. Today \in (Eve(Year, 1) + 1)..Eve(Year + 1, 1)
  BY <1>1, <1>2, <1>5, DayInYear
<1>7. Eve(Year, 1) >= 0 /\ Eve(Year, 1) \in Int
  BY <1>1, <1>2, NoDayIsBefore, YearsAreLong
<1>. QED  BY <1>1, <1>3, <1>4, <1>5, <1>6, <1>7

\* This month, and the months ahead, are counted from it.
This == 12 * Year + Month - 1

LEMMA ThisIs ==
  ASSUME DatesTypeOK
  PROVE  This \in Int /\ Start(This) = Eve(Year, Month) /\ Days(This) = MonthLength(Year, Month)
<1>1. Year \in Int /\ Month \in 1..12
  BY TodayIs
<1>. QED  BY <1>1, IndexOf DEF This

LEMMA MonthAheadIs ==
  ASSUME DatesTypeOK, NEW n \in Int
  PROVE  /\ MonthAhead(n)[1] = (This + n) \div 12 /\ MonthAhead(n)[2] = ((This + n) % 12) + 1
         /\ MonthAhead(n)[1] \in Int /\ MonthAhead(n)[2] \in 1..12
         /\ Start(This + n) = Eve(MonthAhead(n)[1], MonthAhead(n)[2])
         /\ Days(This + n) = MonthLength(MonthAhead(n)[1], MonthAhead(n)[2])
<1>. DEFINE j == Month - 1 + n
<1>1. Year \in Int /\ Month \in 1..12
  BY TodayIs
<1>2. This + n = 12 * Year + j /\ j \in Int
  BY <1>1 DEF This
<1>3. MonthAhead(n)[1] = Year + (j \div 12) /\ MonthAhead(n)[2] = (j % 12) + 1
  BY DEF MonthAhead
<1>. HIDE DEF j
<1>4. (12 * Year + j) \div 12 = Year + (j \div 12) /\ (12 * Year + j) % 12 = j % 12
  <2>1. j \div 12 \in Int /\ j % 12 \in 0..11 /\ j = 12 * (j \div 12) + (j % 12)
    BY <1>2
  <2>. QED  BY <1>1, <1>2, <2>1
<1>5. MonthAhead(n)[1] = (This + n) \div 12 /\ MonthAhead(n)[2] = ((This + n) % 12) + 1
  BY <1>2, <1>3, <1>4
<1>6. MonthAhead(n)[1] \in Int /\ MonthAhead(n)[2] \in 1..12
  BY <1>1, <1>2, <1>3
<1>. QED  BY <1>5, <1>6 DEF Start, Days

LEMMA DayAheadIs ==
  ASSUME DatesTypeOK, NEW n \in Int, NEW d \in Int
  PROVE  DayAhead(n, d) = IF d \in 1..Days(This + n) THEN Start(This + n) + d ELSE NoDay
<1>. DEFINE y == MonthAhead(n)[1]  m == MonthAhead(n)[2]
<1>1. y \in Int /\ m \in 1..12 /\ Start(This + n) = Eve(y, m) /\ Days(This + n) = MonthLength(y, m)
  BY MonthAheadIs
<1>2. DayAhead(n, d) = DateOf(y, m, d)
  BY DEF DayAhead
<1>. HIDE DEF y, m
<1>3. Ordinal(y, m, d) = Eve(y, m) + d
  BY <1>1, OrdinalIs
<1>. QED  BY <1>1, <1>2, <1>3 DEF DateOf

\* The days ahead that a month of its own has: none of the month before is left, and those of
\* the months ahead come in the order of the months.
LEMMA DaysAhead ==
  ASSUME DatesTypeOK, NEW d \in 1..31
  PROVE  /\ \A n \in Int : DayAhead(n, d) \in Int
         /\ DayAhead(-1, d) < Today
         /\ \A n \in 0..13 : DayAhead(n, d) = NoDay \/ DayAhead(n, d) > 0
         /\ \A i, j \in 0..13 : i < j /\ DayAhead(i, d) # NoDay /\ DayAhead(j, d) # NoDay => DayAhead(i, d) < DayAhead(j, d)
         /\ \A n \in 1..13 : DayAhead(n, d) # NoDay => DayAhead(n, d) > Today
         /\ DayAhead(1, d) # NoDay \/ DayAhead(2, d) # NoDay
<1>1. This \in Int /\ Today \in Nat /\ Today > 0 /\ DayOfMonth \in 1..Days(This) /\ Today = Start(This) + DayOfMonth
  BY TodayIs, ThisIs
<1>2. ASSUME NEW n \in Int
      PROVE  /\ This + n \in Int /\ Start(This + n) \in Int /\ Days(This + n) \in 28..31
             /\ DayAhead(n, d) = IF d \in 1..Days(This + n) THEN Start(This + n) + d ELSE NoDay
  <2>1. This + n \in Int
    BY <1>1
  <2>2. Start(This + n) \in Int
    BY <2>1, StartIs, Zenon
  <2>3. Days(This + n) \in 28..31
    BY <2>1, DaysAre, Zenon
  <2>4. DayAhead(n, d) = IF d \in 1..Days(This + n) THEN Start(This + n) + d ELSE NoDay
    BY DayAheadIs
  <2>. QED  BY <2>1, <2>2, <2>3, <2>4
<1>3. ASSUME NEW i \in Int, NEW j \in Int, i < j PROVE Start(This + i) + Days(This + i) <= Start(This + j)
  <2>1. This + i < This + j /\ This + i \in Int /\ This + j \in Int
    BY <1>1, <1>3
  <2>. QED  BY <2>1, StartsAreOrdered, Zenon
<1>4. Start(This) \in Int /\ Start(This) >= 0
  <2>1. Eve(Year, 1) >= 0 /\ Eve(Year, 1) \in Int /\ Eve(Year, 1) <= Eve(Year, Month)
    <3>1. Year \in Nat /\ Year >= 1 /\ Year \in Int /\ Month \in 1..12
      BY TodayIs
    <3>. QED  BY <3>1, NoDayIsBefore, YearsAreLong, MonthsOfAYear
  <2>2. Start(This) \in Int
    BY <1>1, StartIs, Zenon
  <2>. QED  BY <2>1, <2>2, ThisIs
<1>5. \A n \in Int : DayAhead(n, d) \in Int
  BY <1>2 DEF NoDay
<1>6. DayAhead(-1, d) < Today
  <2>. DEFINE n == -1
  <2>1. n \in Int /\ 0 \in Int /\ n < 0 /\ This + 0 = This
    BY <1>1
  <2>2. Start(This + n) + Days(This + n) <= Start(This + 0)
    BY <1>3, <2>1, Zenon
  <2>. HIDE DEF n
  <2>3. /\ Start(This + n) \in Int /\ Days(This + n) \in 28..31
        /\ DayAhead(n, d) = IF d \in 1..Days(This + n) THEN Start(This + n) + d ELSE NoDay
    BY <1>2, <2>1
  <2>4. DayAhead(n, d) < Today
    BY <1>1, <1>4, <2>1, <2>2, <2>3 DEF NoDay
  <2>. QED  BY <2>4 DEF n
<1>7. ASSUME NEW n \in 1..13 PROVE Start(This) + Days(This) <= Start(This + n)
  <2>1. 0 \in Int /\ n \in Int /\ 0 < n /\ This + 0 = This
    BY <1>1
  <2>2. Start(This + 0) + Days(This + 0) <= Start(This + n)
    BY <1>3, <2>1, Zenon
  <2>. QED  BY <2>1, <2>2
<1>8. Days(This) \in 28..31
  BY <1>1, DaysAre, Zenon
<1>9. \A n \in 1..13 : DayAhead(n, d) # NoDay => DayAhead(n, d) > Today
  <2>. TAKE n \in 1..13
  <2>1. n \in Int
    OBVIOUS
  <2>2. Start(This + n) \in Int /\ DayAhead(n, d) = IF d \in 1..Days(This + n) THEN Start(This + n) + d ELSE NoDay
    BY <1>2, <2>1
  <2>3. Start(This) + Days(This) <= Start(This + n)
    BY <1>7
  <2>. QED  BY <1>1, <1>4, <1>8, <2>2, <2>3
<1>10. \A n \in 0..13 : DayAhead(n, d) = NoDay \/ DayAhead(n, d) > 0
  <2>. TAKE n \in 0..13
  <2>1. CASE n = 0
    <3>1. /\ This + 0 = This /\ 0 \in Int
      BY <1>1
    <3>2. DayAhead(0, d) = IF d \in 1..Days(This + 0) THEN Start(This + 0) + d ELSE NoDay
      BY <1>2, <3>1, Zenon
    <3>. QED  BY <1>4, <2>1, <3>1, <3>2
  <2>2. CASE n \in 1..13
    BY <1>1, <1>9, <2>2, <1>5
  <2>. QED  BY <2>1, <2>2
<1>11. ASSUME NEW i \in 0..13, NEW j \in 0..13, i < j, DayAhead(i, d) # NoDay, DayAhead(j, d) # NoDay
       PROVE  DayAhead(i, d) < DayAhead(j, d)
  <2>1. i \in Int /\ j \in Int
    OBVIOUS
  <2>2. Start(This + i) + Days(This + i) <= Start(This + j)
    BY <1>3, <1>11, <2>1
  <2>. QED  BY <1>2, <1>11, <2>1, <2>2
<1>12. DayAhead(1, d) # NoDay \/ DayAhead(2, d) # NoDay
  <2>. DEFINE a == This + 1  b == This + 2
  <2>1. a \in Int /\ b \in Int /\ b = a + 1 /\ 1 \in Int /\ 2 \in Int /\ 1 \in 1..13 /\ 2 \in 1..13
    BY <1>1
  <2>2. Days(a) = 31 \/ Days(b) = 31
    <3>. HIDE DEF a, b
    <3>1. CASE a % 12 < 11
      <4>1. b \div 12 = a \div 12 /\ b % 12 = (a % 12) + 1 /\ a % 12 \in 0..11
        BY <2>1, <3>1
      <4>. QED  BY <3>1, <4>1 DEF Days, MonthLength
    <3>2. CASE a % 12 = 11
      BY <2>1, <3>2 DEF Days, MonthLength
    <3>. QED  BY <2>1, <3>1, <3>2
  <2>3. Start(a) >= 0 /\ Start(b) >= 0
    <3>1. Start(This) + Days(This) <= Start(This + 1)
      BY <1>7, <2>1, Zenon
    <3>2. Start(This) + Days(This) <= Start(This + 2)
      BY <1>7, <2>1, Zenon
    <3>3. Start(a) \in Int
      BY <2>1, StartIs, Zenon
    <3>4. Start(b) \in Int
      BY <2>1, StartIs, Zenon
    <3>. QED  BY <1>4, <1>8, <3>1, <3>2, <3>3, <3>4
  <2>4. DayAhead(1, d) = IF d \in 1..Days(a) THEN Start(a) + d ELSE NoDay
    BY <1>2, <2>1, Zenon
  <2>5. DayAhead(2, d) = IF d \in 1..Days(b) THEN Start(b) + d ELSE NoDay
    BY <1>2, <2>1, Zenon
  <2>6. Start(a) \in Int
    BY <2>1, StartIs, Zenon
  <2>7. Start(b) \in Int
    BY <2>1, StartIs, Zenon
  <2>. HIDE DEF a, b
  <2>. QED  BY <2>2, <2>3, <2>4, <2>5, <2>6, <2>7 DEF NoDay
<1>. QED  BY <1>5, <1>6, <1>9, <1>10, <1>11, <1>12

LEMMA YearsAround ==
  ASSUME DatesTypeOK
  PROVE  /\ Year \in Nat /\ Year - 1 \in Nat /\ Year + 1 \in Nat /\ Year \in Int /\ Year - 1 \in Int /\ Year + 1 \in Int
         /\ Around = {Year - 1, Year, Year + 1}
         /\ Eve(Year - 1, 1) \in Int /\ Eve(Year - 1, 1) >= 0
         /\ Eve(Year, 1) \in Int /\ Eve(Year, 1) - Eve(Year - 1, 1) \in 365..366
         /\ Eve(Year + 1, 1) \in Int /\ Eve(Year + 1, 1) - Eve(Year, 1) \in 365..366
         /\ Eve(Year + 1 + 1, 1) \in Int /\ Eve(Year + 1 + 1, 1) - Eve(Year + 1, 1) \in 365..366
<1>1. Year \in Nat /\ Year >= 2
  BY TodayIs
<1>2. Year \in Int /\ Year - 1 \in Int /\ Year + 1 \in Int /\ (Year - 1) + 1 = Year
  BY <1>1
<1>3. Eve(Year - 1, 1) \in Int /\ Eve(Year, 1) \in Int /\ Eve(Year, 1) - Eve(Year - 1, 1) \in 365..366
  BY <1>2, YearsAreLong
<1>4. Eve(Year + 1, 1) \in Int /\ Eve(Year + 1, 1) - Eve(Year, 1) \in 365..366
  BY <1>2, YearsAreLong
<1>5. Eve(Year + 1 + 1, 1) \in Int /\ Eve(Year + 1 + 1, 1) - Eve(Year + 1, 1) \in 365..366
  BY <1>2, YearsAreLong
<1>6. Eve(Year - 1, 1) >= 0
  BY <1>1, NoDayIsBefore
<1>. QED  BY <1>1, <1>2, <1>3, <1>4, <1>5, <1>6 DEF Around

\* A holiday falls in each of the years around.
LEMMA HolidaysAround ==
  ASSUME DatesTypeOK, NEW h \in Holidays
  PROVE  /\ DayOf(h, Year - 1) \in (Eve(Year - 1, 1) + 1)..Eve(Year, 1)
         /\ DayOf(h, Year) \in (Eve(Year, 1) + 1)..Eve(Year + 1, 1)
         /\ DayOf(h, Year + 1) \in (Eve(Year + 1, 1) + 1)..Eve(Year + 1 + 1, 1)
<1>1. Year \in Nat /\ Year - 1 \in Nat /\ Year + 1 \in Nat /\ (Year - 1) + 1 = Year
  BY YearsAround
<1>2. DayOf(h, Year - 1) \in (Eve(Year - 1, 1) + 1)..Eve((Year - 1) + 1, 1)
  BY <1>1, HolidayInYear, Zenon
<1>3. DayOf(h, Year) \in (Eve(Year, 1) + 1)..Eve(Year + 1, 1)
  BY <1>1, HolidayInYear, Zenon
<1>4. DayOf(h, Year + 1) \in (Eve(Year + 1, 1) + 1)..Eve(Year + 1 + 1, 1)
  BY <1>1, HolidayInYear, Zenon
<1>. QED  BY <1>1, <1>2, <1>3, <1>4

LEMMA HolidayDaysAre ==
  ASSUME DatesTypeOK, NEW h \in Holidays, NEW y \in Around
  PROVE  DayOf(h, y) \in Int /\ DayOf(h, y) > 0
<1>1. DayOf(h, Year - 1) \in Int /\ DayOf(h, Year) \in Int /\ DayOf(h, Year + 1) \in Int
      /\ DayOf(h, Year - 1) > 0 /\ DayOf(h, Year) > 0 /\ DayOf(h, Year + 1) > 0
  BY HolidaysAround, YearsAround
<1>. QED  BY <1>1 DEF Around

LEMMA NextHolidayIs ==
  ASSUME DatesTypeOK, NEW h \in Holidays
  PROVE  /\ NextHoliday(h) \in Int /\ NextHoliday(h) >= Today
         /\ NextHoliday(h) \in {DayOf(h, Year), DayOf(h, Year + 1)}
         /\ \A y \in Around : DayOf(h, y) >= Today => NextHoliday(h) <= DayOf(h, y)
<1>1. Today \in Int /\ Today \in (Eve(Year, 1) + 1)..Eve(Year + 1, 1)
  BY TodayIs
<1>2. NextHoliday(h) = IF DayOf(h, Year) >= Today THEN DayOf(h, Year) ELSE DayOf(h, Year + 1)
  BY DEF NextHoliday
<1>3. DayOf(h, Year - 1) < Today /\ DayOf(h, Year) < DayOf(h, Year + 1) /\ Today < DayOf(h, Year + 1)
      /\ DayOf(h, Year - 1) \in Int /\ DayOf(h, Year) \in Int /\ DayOf(h, Year + 1) \in Int
  BY <1>1, HolidaysAround, YearsAround
<1>4. \A y \in Around : DayOf(h, y) >= Today => NextHoliday(h) <= DayOf(h, y)
  BY <1>1, <1>2, <1>3 DEF Around
<1>. QED  BY <1>1, <1>2, <1>3, <1>4

LEMMA HolidaysAreNext ==
  ASSUME DatesTypeOK
  PROVE  \A h \in Holidays : FirstFrom({DayOf(h, y) : y \in Around}, NextHoliday(h))
<1>. TAKE h \in Holidays
<1>1. NextHoliday(h) \in {DayOf(h, y) : y \in Around}
  BY NextHolidayIs DEF Around
<1>2. NextHoliday(h) >= Today
  BY NextHolidayIs
<1>3. \A y \in Around : DayOf(h, y) >= Today => NextHoliday(h) <= DayOf(h, y)
  BY NextHolidayIs
<1>. QED  BY <1>1, <1>2, <1>3 DEF FirstFrom

LEMMA WrittenDays ==
  ASSUME NEW y \in Int
  PROVE  /\ "christmas" \in Holidays /\ DayOf("christmas", y) = Ordinal(y, 12, 25)
         /\ "new_year" \in Holidays /\ DayOf("new_year", y) = Ordinal(y, 1, 1)
<1>1. /\ "christmas" \in DOMAIN FixedDays /\ FixedDays["christmas"] = <<12, 25>>
      /\ "new_year" \in DOMAIN FixedDays /\ FixedDays["new_year"] = <<1, 1>>
  BY DEF FixedDays
<1>2. "christmas" \notin DOMAIN WeekdaysOfMonths /\ "new_year" \notin DOMAIN WeekdaysOfMonths
  BY DEF WeekdaysOfMonths
<1>3. "christmas" \in Holidays /\ "new_year" \in Holidays
  BY <1>1 DEF Holidays
<1>4. DayOf("christmas", y) = Ordinal(y, FixedDays["christmas"][1], FixedDays["christmas"][2])
  BY <1>2, <1>3, HolidaysAre
<1>5. DayOf("new_year", y) = Ordinal(y, FixedDays["new_year"][1], FixedDays["new_year"][2])
  BY <1>2, <1>3, HolidaysAre
<1>. QED  BY <1>1, <1>3, <1>4, <1>5

\* Days off.
LEMMA FederalAre == Federal \subseteq Holidays /\ "christmas" \in Federal
BY DEF Federal, Holidays, FixedDays, WeekdaysOfMonths

LEMMA ObservedIs == \A o \in Int : Observed(o) \in (o - 1)..(o + 1)
BY DEF Observed

LEMMA DaysOffAreNext ==
  ASSUME DatesTypeOK
  PROVE  LET off == {Observed(DayOf(h, y)) : h \in Federal, y \in Around} IN
         /\ FirstFrom(off \ {Today}, NextFederal[1])
         /\ Today \in off => IsFederal(Today)
<1>. DEFINE off == {Observed(DayOf(h, y)) : h \in Federal, y \in Around}
            ahead == {f \in FederalDays : f[1] > Today}
            firsts == {f[1] : f \in ahead}
<1>1. Today \in Int /\ Today \in (Eve(Year, 1) + 1)..Eve(Year + 1, 1)
  BY TodayIs
<1>2. FederalYears = Around
  BY DEF FederalYears, Around
<1>3. FederalDays = {<<Observed(DayOf(h, y)), DayOf(h, y)>> : h \in Federal, y \in Around}
  BY <1>2 DEF FederalDays
<1>4. \A h \in Federal, y \in Around : Observed(DayOf(h, y)) \in Int
  <2>. TAKE h \in Federal, y \in Around
  <2>1. DayOf(h, y) \in Int
    BY FederalAre, HolidayDaysAre
  <2>2. Observed(DayOf(h, y)) \in (DayOf(h, y) - 1)..(DayOf(h, y) + 1)
    BY <2>1, ObservedIs
  <2>. HIDE DEF off
  <2>. QED  BY <2>1, <2>2
<1>5. firsts # {}
  <2>. DEFINE c == DayOf("christmas", Year + 1)
  <2>1. "christmas" \in Federal /\ "christmas" \in Holidays /\ Year + 1 \in Around
    BY FederalAre DEF Around
  <2>2. c \in Int /\ c - 1 > Today
    <3>1. c \in (Eve(Year + 1, 1) + 1)..Eve(Year + 1 + 1, 1)
      BY <2>1, HolidaysAround
    <3>2. c = Ordinal(Year + 1, 12, 25)
      BY WrittenDays, YearsAround
    <3>3. Year + 1 \in Int /\ 12 \in 1..12 /\ 1 \in 1..12 /\ 1 < 12
      BY YearsAround
    <3>4. c = Eve(Year + 1, 12) + 25
      BY <3>2, <3>3, OrdinalIs
    <3>5. Eve(Year + 1, 1) <= Eve(Year + 1, 12)
      BY <3>3, MonthsOfAYear, Zenon
    <3>6. Eve(Year + 1, 12) \in Int
      BY <3>3, EvesAre, Zenon
    <3>7. Eve(Year + 1, 1) \in Int
      BY YearsAround
    <3>. HIDE DEF c
    <3>. QED  BY <1>1, <3>4, <3>5, <3>6, <3>7
  <2>3. Observed(c) \in (c - 1)..(c + 1)
    BY <2>2, ObservedIs
  <2>4. <<Observed(c), c>> \in FederalDays
    BY <1>3, <2>1
  <2>. HIDE DEF c
  <2>5. <<Observed(c), c>> \in ahead
    BY <1>1, <2>2, <2>3, <2>4
  <2>. HIDE DEF ahead
  <2>. QED  BY <2>5
<1>6. \A o \in firsts : o \in Int /\ o >= Today
  <2>1. \A f \in FederalDays : f[1] \in Int
    BY <1>3, <1>4
  <2>. QED  BY <1>1, <2>1
<1>7. \E f \in ahead : \A g \in ahead : f[1] <= g[1]
  <2>1. Min(firsts) \in firsts /\ \A o \in firsts : Min(firsts) <= o
    <3>. HIDE DEF firsts
    <3>. QED  BY <1>1, <1>5, <1>6, MinIs
  <2>. DEFINE least == Min(firsts)
  <2>2. least \in firsts /\ \A o \in firsts : least <= o
    BY <2>1
  <2>. HIDE DEF least
  <2>3. PICK f \in ahead : f[1] = least
    BY <2>2
  <2>4. \A g \in ahead : least <= g[1]
    BY <2>2
  <2>. QED  BY <2>3, <2>4
<1>8. /\ NextFederal \in FederalDays /\ NextFederal[1] > Today
      /\ \A other \in FederalDays : other[1] > Today => NextFederal[1] <= other[1]
  <2>1. \E f \in FederalDays : f[1] > Today /\ \A other \in FederalDays : other[1] > Today => f[1] <= other[1]
    BY <1>7
  <2>. QED  BY <2>1, Zenon DEF NextFederal
<1>9. \A o \in off : \E f \in FederalDays : f[1] = o
  <2>. TAKE o \in off
  <2>1. PICK h \in Federal, y \in Around : o = Observed(DayOf(h, y))
    OBVIOUS
  <2>2. <<Observed(DayOf(h, y)), DayOf(h, y)>> \in FederalDays
    BY <1>3
  <2>. QED  BY <2>1, <2>2
<1>10. \A f \in FederalDays : f[1] \in off
  BY <1>3
<1>. HIDE DEF off
<1>11. NextFederal[1] \in off \ {Today} /\ NextFederal[1] >= Today
  <2>1. NextFederal[1] \in off
    BY <1>8, <1>10
  <2>2. NextFederal[1] \in Int
    BY <1>3, <1>4, <1>8
  <2>. QED  BY <1>1, <1>8, <2>1, <2>2
<1>12. ASSUME NEW o \in off \ {Today}, o >= Today PROVE NextFederal[1] <= o
  <2>1. PICK f \in FederalDays : f[1] = o
    BY <1>9, <1>12
  <2>2. o \in Int
    BY <1>3, <1>4, <2>1
  <2>3. f[1] > Today
    BY <1>1, <1>12, <2>1, <2>2
  <2>. QED  BY <1>8, <2>1, <2>3
<1>13. Today \in off => IsFederal(Today)
  BY <1>9 DEF IsFederal
<1>. QED  BY <1>11, <1>12, <1>13 DEF FirstFrom, off

\* A date of a year is none, or a day of that year.
LEMMA DateIs ==
  ASSUME NEW y \in Nat, y >= 1, NEW m \in 1..12, NEW d \in Int
  PROVE  IF d \in 1..MonthLength(y, m)
         THEN DateOf(y, m, d) = Eve(y, m) + d /\ DateOf(y, m, d) \in (Eve(y, 1) + 1)..Eve(y + 1, 1) /\ DateOf(y, m, d) # NoDay
         ELSE DateOf(y, m, d) = NoDay
<1>1. y \in Int
  OBVIOUS
<1>2. CASE d \in 1..MonthLength(y, m)
  <2>1. DateOf(y, m, d) = Eve(y, m) + d
    BY <1>1, <1>2, OrdinalIs DEF DateOf
  <2>2. Eve(y, m) + d \in (Eve(y, 1) + 1)..Eve(y + 1, 1)
    BY <1>1, <1>2, DayInYear
  <2>3. Eve(y, 1) >= 0
    BY NoDayIsBefore
  <2>4. Eve(y, 1) \in Int /\ Eve(y + 1, 1) \in Int
    BY <1>1, YearsAreLong
  <2>. QED  BY <1>2, <2>1, <2>2, <2>3, <2>4 DEF NoDay
<1>3. CASE d \notin 1..MonthLength(y, m)
  BY <1>3 DEF DateOf
<1>. QED  BY <1>2, <1>3

\* A date that this year has not, or the next, is a 29 February or is on no calendar.
LEMMA DatesOfYears ==
  ASSUME NEW y \in Int, NEW z \in Int, NEW m \in 1..12, NEW d \in Int, d \in 1..MonthLength(z, m), d \notin 1..MonthLength(y, m)
  PROVE  m = 2 /\ d = 29
BY DEF MonthLength

LEMMA DatesMissing ==
  ASSUME DatesTypeOK, NEW m \in 1..12, NEW d \in Int
  PROVE  \A y \in Around : DateOf(y, m, d) = NoDay <=> d \notin 1..MonthLength(y, m)
<1>. SUFFICES ASSUME NEW y \in Around PROVE DateOf(y, m, d) = NoDay <=> d \notin 1..MonthLength(y, m)
  OBVIOUS
<1>1. y \in Nat /\ y >= 1
  <2>1. Year \in Nat /\ Year >= 2
    BY TodayIs
  <2>. QED  BY <2>1 DEF Around
<1>. QED  BY <1>1, DateIs

LEMMA DatesAround ==
  ASSUME DatesTypeOK, NEW m \in 1..12, NEW d \in Int
  PROVE  /\ \A y \in Around : DateOf(y, m, d) = NoDay \/ DateOf(y, m, d) > 0
         /\ \A y \in Around : DateOf(y, m, d) \in Int
         /\ DateOf(Year - 1, m, d) < Today
         /\ DateOf(Year - 1, m, d) # NoDay => DateOf(Year - 1, m, d) > Eve(Year - 1, 1)
         /\ DateOf(Year + 1, m, d) # NoDay => DateOf(Year + 1, m, d) > Today /\ DateOf(Year, m, d) < DateOf(Year + 1, m, d)
<1>1. /\ Year \in Nat /\ Year >= 2 /\ Year - 1 \in Nat /\ Year + 1 \in Nat /\ (Year - 1) + 1 = Year
      /\ Today \in Nat /\ Today > 0 /\ Today \in (Eve(Year, 1) + 1)..Eve(Year + 1, 1)
  BY TodayIs, YearsAround
<1>2. ASSUME NEW y \in {Year - 1, Year, Year + 1}
      PROVE  IF d \in 1..MonthLength(y, m)
             THEN DateOf(y, m, d) \in (Eve(y, 1) + 1)..Eve(y + 1, 1) /\ DateOf(y, m, d) # NoDay
             ELSE DateOf(y, m, d) = NoDay
  <2>1. y \in Nat /\ y >= 1
    BY <1>1
  <2>. QED  BY <2>1, DateIs
<1>3. /\ Eve(Year - 1, 1) \in Int /\ Eve(Year - 1, 1) >= 0 /\ Eve(Year, 1) \in Int /\ Eve(Year, 1) >= 0
      /\ Eve(Year + 1, 1) \in Int /\ Eve(Year + 1, 1) >= 0 /\ Eve(Year + 1 + 1, 1) \in Int
  BY YearsAround
<1>4. IF d \in 1..MonthLength(Year - 1, m)
      THEN DateOf(Year - 1, m, d) \in (Eve(Year - 1, 1) + 1)..Eve(Year, 1) /\ DateOf(Year - 1, m, d) # NoDay
      ELSE DateOf(Year - 1, m, d) = NoDay
  BY <1>1, <1>2
<1>5. IF d \in 1..MonthLength(Year, m)
      THEN DateOf(Year, m, d) \in (Eve(Year, 1) + 1)..Eve(Year + 1, 1) /\ DateOf(Year, m, d) # NoDay
      ELSE DateOf(Year, m, d) = NoDay
  BY <1>1, <1>2
<1>6. IF d \in 1..MonthLength(Year + 1, m)
      THEN DateOf(Year + 1, m, d) \in (Eve(Year + 1, 1) + 1)..Eve(Year + 1 + 1, 1) /\ DateOf(Year + 1, m, d) # NoDay
      ELSE DateOf(Year + 1, m, d) = NoDay
  BY <1>1, <1>2
<1>8. \A y \in {Year - 1, Year, Year + 1} : DateOf(y, m, d) \in Int /\ (DateOf(y, m, d) = NoDay \/ DateOf(y, m, d) > 0)
  BY <1>3, <1>4, <1>5, <1>6 DEF NoDay
<1>9. DateOf(Year - 1, m, d) < Today
  BY <1>1, <1>3, <1>4 DEF NoDay
<1>10. DateOf(Year + 1, m, d) # NoDay => DateOf(Year + 1, m, d) > Today /\ DateOf(Year, m, d) < DateOf(Year + 1, m, d)
  BY <1>1, <1>3, <1>5, <1>6 DEF NoDay
<1>11. DateOf(Year - 1, m, d) # NoDay => DateOf(Year - 1, m, d) > Eve(Year - 1, 1)
  BY <1>3, <1>4
<1>. QED  BY <1>8, <1>9, <1>10, <1>11 DEF Around

LEMMA MonthDayIs ==
  ASSUME DatesTypeOK, NEW m \in 1..12, NEW d \in Int
  PROVE  /\ MonthDay(m, d) \in Int /\ (MonthDay(m, d) = NoDay \/ MonthDay(m, d) >= Today)
         /\ MonthDay(m, d) \in {DateOf(Year, m, d), DateOf(Year + 1, m, d)}
         /\ MonthDay(m, d) # NoDay => FirstFrom(DatesOf(m, d), MonthDay(m, d))
<1>1. MonthDay(m, d) = IF DateOf(Year, m, d) = NoDay \/ DateOf(Year, m, d) >= Today THEN DateOf(Year, m, d) ELSE DateOf(Year + 1, m, d)
  BY DEF MonthDay
<1>2. Today \in Int /\ Today > 0
  BY TodayIs
<1>3. /\ DateOf(Year - 1, m, d) \in Int /\ DateOf(Year, m, d) \in Int /\ DateOf(Year + 1, m, d) \in Int
      /\ DateOf(Year - 1, m, d) < Today
      /\ DateOf(Year + 1, m, d) # NoDay => DateOf(Year + 1, m, d) > Today /\ DateOf(Year, m, d) < DateOf(Year + 1, m, d)
  BY DatesAround DEF Around
<1>4. MonthDay(m, d) # NoDay => FirstFrom(DatesOf(m, d), MonthDay(m, d))
  <2>. SUFFICES ASSUME MonthDay(m, d) # NoDay PROVE FirstFrom(DatesOf(m, d), MonthDay(m, d))
    OBVIOUS
  <2>. DEFINE days == DatesOf(m, d)
  <2>1. days = {DateOf(Year - 1, m, d), DateOf(Year, m, d), DateOf(Year + 1, m, d)}
    BY DEF Around, DatesOf
  <2>. HIDE DEF days
  <2>2. MonthDay(m, d) \in days /\ MonthDay(m, d) >= Today
    BY <1>1, <1>2, <1>3, <2>1
  <2>3. \A o \in days : o >= Today => MonthDay(m, d) <= o
    BY <1>1, <1>2, <1>3, <2>1 DEF NoDay
  <2>. QED  BY <2>2, <2>3 DEF FirstFrom, days
<1>5. MonthDay(m, d) \in Int /\ MonthDay(m, d) \in {DateOf(Year, m, d), DateOf(Year + 1, m, d)}
  BY <1>1, <1>3
<1>6. MonthDay(m, d) = NoDay \/ MonthDay(m, d) >= Today
  BY <1>1, <1>2, <1>3
<1>. QED  BY <1>4, <1>5, <1>6

LEMMA DateIsNext ==
  ASSUME DatesTypeOK, NEW m \in 1..12, NEW d \in Int, d \in 1..MonthLength(2000, m), MonthDay(m, d) = NoDay
  PROVE  m = 2 /\ d = 29
<1>1. 2000 \in Int /\ Year \in Int /\ Year + 1 \in Int /\ Year \in Around /\ Year + 1 \in Around
  BY YearsAround
<1>2. DateOf(Year, m, d) = NoDay \/ DateOf(Year + 1, m, d) = NoDay
  BY DEF MonthDay
<1>3. \A y \in Around : DateOf(y, m, d) = NoDay => d \notin 1..MonthLength(y, m)
  BY DatesMissing
<1>4. d \notin 1..MonthLength(Year, m) \/ d \notin 1..MonthLength(Year + 1, m)
  BY <1>1, <1>2, <1>3
<1>. QED  BY <1>1, <1>4, DatesOfYears

LEMMA DatesAreNext ==
  ASSUME DatesTypeOK
  PROVE  \A m \in 1..12 : \A d \in 1..MonthLength(2000, m) :
           IF MonthDay(m, d) = NoDay THEN m = 2 /\ d = 29 ELSE FirstFrom(DatesOf(m, d), MonthDay(m, d))
<1>1. ASSUME NEW m \in 1..12, NEW d \in 1..MonthLength(2000, m) PROVE d \in Int
  BY <1>1, MonthLengths
<1>2. \A m \in 1..12, d \in Int : MonthDay(m, d) # NoDay => FirstFrom(DatesOf(m, d), MonthDay(m, d))
  BY MonthDayIs
<1>3. \A m \in 1..12, d \in Int : d \in 1..MonthLength(2000, m) /\ MonthDay(m, d) = NoDay => m = 2 /\ d = 29
  BY DateIsNext
<1>. QED  BY <1>1, <1>2, <1>3

LEMMA OnTheIs ==
  ASSUME DatesTypeOK, NEW d \in 1..31
  PROVE  /\ OnThe(d) \in Int /\ OnThe(d) >= Today
         /\ FirstFrom({DayAhead(n, d) : n \in -1..13}, OnThe(d))
<1>. DEFINE fits == {n \in 0..13 : DayAhead(n, d) # NoDay /\ DayAhead(n, d) >= Today}
<1>1. Today \in Int /\ Today > 0
  BY TodayIs
<1>2. \A n \in Int : DayAhead(n, d) \in Int
  BY DaysAhead
<1>3. fits # {}
  <2>1. \A n \in 1..13 : DayAhead(n, d) # NoDay => DayAhead(n, d) > Today
    BY DaysAhead
  <2>2. DayAhead(1, d) # NoDay \/ DayAhead(2, d) # NoDay
    BY DaysAhead
  <2>3. 1 \in 1..13 /\ 2 \in 1..13 /\ 1 \in 0..13 /\ 2 \in 0..13 /\ 1 \in Int /\ 2 \in Int
    OBVIOUS
  <2>4. ASSUME NEW n \in 1..13, DayAhead(n, d) # NoDay PROVE n \in fits
    <3>1. n \in Int /\ n \in 0..13
      OBVIOUS
    <3>. QED  BY <1>1, <1>2, <2>1, <2>4, <3>1
  <2>. HIDE DEF fits
  <2>5. 1 \in fits \/ 2 \in fits
    BY <2>2, <2>3, <2>4, Zenon
  <2>. QED  BY <2>5
<1>4. \A n \in fits : n \in Int /\ n >= 0
  OBVIOUS
<1>. DEFINE k == Min(fits)
<1>5. k \in fits /\ \A n \in fits : k <= n
  <2>. HIDE DEF fits
  <2>1. 0 \in Int
    OBVIOUS
  <2>. QED  BY <1>3, <1>4, <2>1, MinIs
<1>6. OnThe(d) = DayAhead(k, d)
  BY <1>3 DEF OnThe
<1>. HIDE DEF k
<1>7. k \in 0..13 /\ k \in Int /\ k \in -1..13 /\ DayAhead(k, d) # NoDay /\ DayAhead(k, d) >= Today
  BY <1>5
<1>8. ASSUME NEW n \in -1..13, DayAhead(n, d) >= Today PROVE DayAhead(k, d) <= DayAhead(n, d)
  <2>1. n \in Int /\ DayAhead(n, d) \in Int /\ DayAhead(k, d) \in Int
    BY <1>2, <1>7
  <2>2. DayAhead(n, d) # NoDay
    BY <1>1, <1>8 DEF NoDay
  <2>3. n # -1
    <3>1. DayAhead(-1, d) < Today
      BY DaysAhead
    <3>. DEFINE j == -1
    <3>2. j \in Int
      OBVIOUS
    <3>3. DayAhead(j, d) < Today
      BY <3>1
    <3>. HIDE DEF j
    <3>4. n # j
      BY <1>1, <1>8, <2>1, <3>3
    <3>. QED  BY <3>4 DEF j
  <2>4. n \in 0..13
    BY <2>1, <2>3
  <2>5. n \in fits
    BY <1>8, <2>2, <2>4
  <2>6. k <= n
    BY <1>5, <2>5
  <2>7. CASE k = n
    BY <2>1, <2>7
  <2>8. CASE k < n
    <3>1. DayAhead(k, d) < DayAhead(n, d)
      BY <1>7, <2>2, <2>4, <2>8, DaysAhead
    <3>. QED  BY <2>1, <3>1
  <2>. QED  BY <1>7, <2>1, <2>6, <2>7, <2>8
<1>. HIDE DEF fits
<1>9. DayAhead(k, d) \in {DayAhead(n, d) : n \in -1..13}
  BY <1>7
<1>. QED  BY <1>2, <1>6, <1>7, <1>8, <1>9 DEF FirstFrom

LEMMA NothingIsPassedOver == ASSUME DatesTypeOK PROVE NoneIsPassedOver
<1>1. \A d \in 1..31 : FirstFrom({DayAhead(n, d) : n \in -1..13}, OnThe(d))
  BY OnTheIs
<1>2. \A h \in Holidays : FirstFrom({DayOf(h, y) : y \in Around}, NextHoliday(h))
  BY HolidaysAreNext
<1>3. LET off == {Observed(DayOf(h, y)) : h \in Federal, y \in Around} IN
      /\ FirstFrom(off \ {Today}, NextFederal[1])
      /\ Today \in off => IsFederal(Today)
  BY DaysOffAreNext
<1>4. \A m \in 1..12 : \A d \in 1..MonthLength(2000, m) :
        IF MonthDay(m, d) = NoDay THEN m = 2 /\ d = 29
        ELSE FirstFrom(DatesOf(m, d), MonthDay(m, d))
  BY DatesAreNext
<1>. QED  BY <1>1, <1>2, <1>3, <1>4 DEF NoneIsPassedOver

LEMMA EveryWeekdayIsCounted == ASSUME DatesTypeOK PROVE WeekdaysAreCounted
<1>1. ASSUME NEW h \in DOMAIN WeekdaysOfMonths
      PROVE  LET m == WeekdaysOfMonths[h][1]
                 wd == WeekdaysOfMonths[h][2]
                 n == WeekdaysOfMonths[h][3]
             IN /\ DayOf(h, Year) \in Those(Year, m, wd)
                /\ n > 0 => Cardinality(UpTo(Those(Year, m, wd), DayOf(h, Year))) = n
                /\ n = -1 => \A o \in Those(Year, m, wd) : o <= DayOf(h, Year)
  <2>. DEFINE m == WeekdaysOfMonths[h][1]
              wd == WeekdaysOfMonths[h][2]
              n == WeekdaysOfMonths[h][3]
              nth == NthWeekday(Year, m, wd, n)
  <2>1. m \in 1..12 /\ wd \in 0..6 /\ (n \in 1..4 \/ n = -1) /\ Year \in Int
    BY WeekdaysAre, YearsAround
  <2>2. DayOf(h, Year) = nth
    <3>1. h \in Holidays /\ h \notin DOMAIN FixedDays
          /\ h \notin {"easter", "good_friday", "black_friday", "cyber_monday"}
      BY DEF Holidays, FixedDays, WeekdaysOfMonths
    <3>. QED  BY <2>1, <3>1, HolidaysAre
  <2>. HIDE DEF m, wd, n
  <2>3. CASE n \in 1..4
    <3>1. nth \in Those(Year, m, wd)
      BY <2>1, <2>3, Counted, Zenon
    <3>2. Cardinality(UpTo(Those(Year, m, wd), nth)) = n
      BY <2>1, <2>3, Counted, Zenon
    <3>. HIDE DEF nth
    <3>. QED  BY <2>2, <2>3, <3>1, <3>2 DEF m, wd, n
  <2>4. CASE n = -1
    <3>1. nth \in Those(Year, m, wd) /\ \A o \in Those(Year, m, wd) : o <= nth
      BY <2>1, <2>4, LastCounted
    <3>. HIDE DEF nth
    <3>. QED  BY <2>2, <2>4, <3>1 DEF m, wd, n
  <2>. QED  BY <2>1, <2>3, <2>4
<1>. QED  BY <1>1 DEF WeekdaysAreCounted, Those, UpTo

\* So many months on: the same day of that month, or its last.
LEMMA ShiftedIs ==
  ASSUME DatesTypeOK, NEW n \in Int
  PROVE  ShiftedMonths(n) = Start(This + n) + (IF DayOfMonth <= Days(This + n) THEN DayOfMonth ELSE Days(This + n))
<1>. DEFINE y == MonthAhead(n)[1]  m == MonthAhead(n)[2]  last == MonthLength(y, m)
            d == IF DayOfMonth <= last THEN DayOfMonth ELSE last
<1>1. y \in Int /\ m \in 1..12 /\ Start(This + n) = Eve(y, m) /\ Days(This + n) = last
  BY MonthAheadIs
<1>2. DayOfMonth \in Int
  BY TodayIs
<1>3. ShiftedMonths(n) = Ordinal(y, m, Min({DayOfMonth, last}))
  BY DEF ShiftedMonths, MonthAhead
<1>. HIDE DEF y, m
<1>4. last \in Int
  BY <1>1, MonthLengths
<1>5. Min({DayOfMonth, last}) = d /\ d \in Int
  BY <1>2, <1>4, MinOfTwo
<1>6. Ordinal(y, m, d) = Eve(y, m) + d
  BY <1>1, <1>5, OrdinalIs
<1>. QED  BY <1>1, <1>3, <1>5, <1>6

LEMMA EndOfMonthIs ==
  ASSUME DatesTypeOK
  PROVE  EndOfMonth = Eve(Year, Month) + MonthLength(Year, Month) /\ EndOfMonth \in Int
<1>. DEFINE one == 1  y == MonthAhead(one)[1]  m == MonthAhead(one)[2]
<1>0. one \in Int
  OBVIOUS
<1>1. y \in Int /\ m \in 1..12 /\ Start(This + one) = Eve(y, m)
  BY <1>0, MonthAheadIs
<1>2. EndOfMonth = Ordinal(y, m, 1) - 1
  BY DEF EndOfMonth
<1>. HIDE DEF y, m
<1>3. Ordinal(y, m, 1) = Eve(y, m) + 1
  BY <1>1, OrdinalIs
<1>4. Eve(y, m) \in Int
  BY <1>1, EvesAre
<1>5. This \in Int /\ Start(This) = Eve(Year, Month) /\ Days(This) = MonthLength(Year, Month)
  BY ThisIs
<1>6. Start(This + 1) = Start(This) + Days(This)
  BY <1>5, StartsFollow
<1>. QED  BY <1>1, <1>2, <1>3, <1>4, <1>5, <1>6

LEMMA EveryMonthIsCounted == ASSUME DatesTypeOK PROVE MonthsAreCounted
<1>1. /\ This \in Int /\ Start(This) = Eve(Year, Month) /\ Days(This) = MonthLength(Year, Month)
      /\ DayOfMonth \in 1..Days(This) /\ DayOfMonth \in 1..31 /\ Today = Start(This) + DayOfMonth
      /\ Start(This) \in Int /\ Days(This) \in 28..31
  BY TodayIs, ThisIs
<1>2. ASSUME NEW n \in Int PROVE Start(This + n) \in Int /\ Days(This + n) \in 28..31
  <2>1. This + n \in Int
    BY <1>1
  <2>2. Start(This + n) \in Int
    BY <2>1, StartIs, Zenon
  <2>3. Days(This + n) \in 28..31
    BY <2>1, DaysAre, Zenon
  <2>. QED  BY <2>2, <2>3
<1>3. ShiftedMonths(0) = Today
  <2>1. ShiftedMonths(0) = Start(This + 0) + (IF DayOfMonth <= Days(This + 0) THEN DayOfMonth ELSE Days(This + 0))
    BY ShiftedIs
  <2>2. This + 0 = This
    BY <1>1
  <2>. QED  BY <1>1, <2>1, <2>2
<1>4. ASSUME NEW n \in -13..13
      PROVE  LET m == MonthAhead(n) IN
             /\ ShiftedMonths(n) < ShiftedMonths(n + 1)
             /\ ShiftedMonths(n) \in MonthDays(m[1], m[2])
  <2>. DEFINE y == MonthAhead(n)[1]  m == MonthAhead(n)[2]  k == This + n  l == k + 1
  <2>0. n \in Int /\ n + 1 \in Int /\ This + (n + 1) = l /\ k \in Int
    BY <1>1
  <2>1. y \in Int /\ m \in 1..12 /\ Start(k) = Eve(y, m) /\ Days(k) = MonthLength(y, m)
    BY <2>0, MonthAheadIs
  <2>2. ShiftedMonths(n) = Start(k) + (IF DayOfMonth <= Days(k) THEN DayOfMonth ELSE Days(k))
    BY <2>0, ShiftedIs
  <2>3. ShiftedMonths(n + 1) = Start(l) + (IF DayOfMonth <= Days(l) THEN DayOfMonth ELSE Days(l))
    BY <2>0, ShiftedIs
  <2>4. Start(k) \in Int /\ Days(k) \in 28..31 /\ Start(l) \in Int /\ Days(l) \in 28..31
    BY <1>2, <2>0
  <2>5. Start(l) = Start(k) + Days(k)
    BY <2>0, StartsFollow
  <2>6. MonthDays(y, m) = (Eve(y, m) + 1)..(Eve(y, m) + MonthLength(y, m))
    BY <2>1, MonthDaysAre
  <2>. HIDE DEF y, m, k, l
  <2>7. ShiftedMonths(n) < ShiftedMonths(n + 1)
    BY <1>1, <2>2, <2>3, <2>4, <2>5
  <2>8. ShiftedMonths(n) \in MonthDays(y, m)
    <3>1. ShiftedMonths(n) \in (Start(k) + 1)..(Start(k) + Days(k))
      BY <1>1, <2>2, <2>4
    <3>. QED  BY <2>1, <2>6, <3>1
  <2>. QED  BY <2>7, <2>8 DEF y, m
<1>5. EndOfMonth \in MonthDays(Year, Month) /\ EndOfMonth + 1 \notin MonthDays(Year, Month)
  <2>1. EndOfMonth = Eve(Year, Month) + MonthLength(Year, Month)
    BY EndOfMonthIs
  <2>2. Year \in Int /\ Month \in 1..12
    BY TodayIs
  <2>3. MonthDays(Year, Month) = (Eve(Year, Month) + 1)..(Eve(Year, Month) + MonthLength(Year, Month))
    BY <2>2, MonthDaysAre
  <2>. QED  BY <1>1, <2>1, <2>3
<1>. QED  BY <1>3, <1>4, <1>5 DEF MonthsAreCounted

LEMMA PhrasesAre ==
  ASSUME DatesTypeOK, NEW p \in DayPhrases
  PROVE  \/ p.kind \in {"today", "tonight", "tomorrow", "day_after_tomorrow", "next_week"}
         \/ p.kind \in {"weekday", "next_weekday"} /\ p.wd \in 0..6
         \/ p.kind = "written" /\ p.m \in 1..12 /\ p.d \in 1..31
         \/ p.kind \in {"monthly", "this_month", "next_month"} /\ p.d \in 1..31
<1>1. Month \in 1..12 /\ DayOfMonth \in 1..31
  BY TodayIs
<1>2. CASE p \in [kind : {"today", "tonight", "tomorrow", "day_after_tomorrow", "next_week"}]
  BY <1>2
<1>3. CASE p \in [kind : {"weekday", "next_weekday"}, wd : 0..6]
  BY <1>3
<1>4. CASE p \in {[kind |-> "written", m |-> m, d |-> d] : m \in 1..12, d \in {1, 15, 29, 31}}
  BY <1>4
<1>5. CASE p = [kind |-> "written", m |-> Month, d |-> DayOfMonth]
  BY <1>1, <1>5
<1>6. CASE p \in [kind : {"monthly", "this_month", "next_month"}, d : 1..31]
  BY <1>6
<1>. QED  BY <1>2, <1>3, <1>4, <1>5, <1>6 DEF DayPhrases

LEMMA ComingIs ==
  ASSUME DatesTypeOK, NEW wd \in 0..6
  PROVE  /\ ComingWeekday(wd) \in Today..(Today + 6) /\ Weekday(ComingWeekday(wd)) = wd
         /\ NextWeekday(wd) = Today - Weekday(Today) + 7 + wd /\ Weekday(NextWeekday(wd)) = wd
         /\ NextWeekday(wd) \in (Today + 1)..(Today + 13)
<1>1. Today \in Int /\ Weekday(Today) \in 0..6
  BY TodayIs, WeekdayIs
<1>2. (wd - Weekday(Today)) % 7 \in 0..6 /\ Weekday(Today + ((wd - Weekday(Today)) % 7)) = wd
  BY <1>1, WeekdayOn
<1>3. NextWeekday(wd) = Today - Weekday(Today) + 7 + wd
  BY <1>1 DEF NextWeekday
<1>4. Weekday(Today - Weekday(Today) + 7 + wd) = wd
  <2>1. PICK q \in Int : Today - 1 = 7 * q + Weekday(Today)
    BY <1>1, WeekOf
  <2>2. (Today - Weekday(Today) + 7 + wd) - 1 = 7 * (q + 1) + wd
    BY <1>1, <2>1
  <2>. QED  BY <2>2 DEF Weekday
<1>. QED  BY <1>1, <1>2, <1>3, <1>4 DEF ComingWeekday

\* A day that is found is today or later, and is the day it was called.
LEMMA FoundIs ==
  ASSUME DatesTypeOK, NEW p \in DayPhrases
  PROVE  /\ FindDay(p) \in Int /\ (FindDay(p) # NoDay => FindDay(p) >= Today)
         /\ p.kind = "weekday" => Weekday(FindDay(p)) = p.wd /\ FindDay(p) - Today \in 0..6
         /\ p.kind = "next_weekday" => Weekday(FindDay(p)) = p.wd /\ FindDay(p) - p.wd = Today - Weekday(Today) + 7
         /\ p.kind = "this_month" /\ FindDay(p) # NoDay =>
              FindDay(p) \in Today..EndOfMonth /\ FindDay(p) = DateOf(Year, Month, p.d)
         /\ p.kind = "next_month" /\ FindDay(p) # NoDay => FindDay(p) = EndOfMonth + p.d
<1>1. Today \in Int /\ Today > 0 /\ Weekday(Today) \in 0..6
  BY TodayIs, WeekdayIs
<1>2. CASE p.kind \in {"today", "tonight", "tomorrow", "day_after_tomorrow", "next_week"}
  <2>1. CASE p.kind \in {"today", "tonight"}
    <3>1. FindDay(p) = Today
      BY <2>1 DEF FindDay
    <3>. QED  BY <1>1, <2>1, <3>1
  <2>2. CASE p.kind = "tomorrow"
    <3>1. FindDay(p) = Today + 1
      BY <2>2 DEF FindDay
    <3>. QED  BY <1>1, <2>2, <3>1
  <2>3. CASE p.kind = "day_after_tomorrow"
    <3>1. FindDay(p) = Today + 2
      BY <2>3 DEF FindDay
    <3>. QED  BY <1>1, <2>3, <3>1
  <2>4. CASE p.kind = "next_week"
    <3>1. FindDay(p) = Today + 7
      BY <2>4 DEF FindDay
    <3>. QED  BY <1>1, <2>4, <3>1
  <2>. QED  BY <1>2, <2>1, <2>2, <2>3, <2>4
<1>3. CASE p.kind = "weekday" /\ p.wd \in 0..6
  <2>1. FindDay(p) = ComingWeekday(p.wd)
    BY <1>3 DEF FindDay
  <2>2. ComingWeekday(p.wd) \in Today..(Today + 6) /\ Weekday(ComingWeekday(p.wd)) = p.wd
    BY <1>3, ComingIs
  <2>. QED  BY <1>1, <1>3, <2>1, <2>2
<1>4. CASE p.kind = "next_weekday" /\ p.wd \in 0..6
  <2>1. FindDay(p) = NextWeekday(p.wd)
    BY <1>4 DEF FindDay
  <2>2. /\ NextWeekday(p.wd) = Today - Weekday(Today) + 7 + p.wd /\ Weekday(NextWeekday(p.wd)) = p.wd
        /\ NextWeekday(p.wd) \in (Today + 1)..(Today + 13)
    BY <1>4, ComingIs
  <2>. QED  BY <1>1, <1>4, <2>1, <2>2
<1>5. CASE p.kind = "written" /\ p.m \in 1..12 /\ p.d \in 1..31
  <2>1. FindDay(p) = MonthDay(p.m, p.d)
    BY <1>5 DEF FindDay
  <2>2. p.d \in Int
    BY <1>5
  <2>3. MonthDay(p.m, p.d) \in Int /\ (MonthDay(p.m, p.d) = NoDay \/ MonthDay(p.m, p.d) >= Today)
    BY <1>5, <2>2, MonthDayIs
  <2>. QED  BY <1>5, <2>1, <2>3
<1>6. CASE p.kind = "monthly" /\ p.d \in 1..31
  <2>1. FindDay(p) = OnThe(p.d)
    BY <1>6 DEF FindDay
  <2>2. OnThe(p.d) \in Int /\ OnThe(p.d) >= Today
    BY <1>6, OnTheIs
  <2>. QED  BY <1>6, <2>1, <2>2
<1>7. CASE p.kind = "this_month" /\ p.d \in 1..31
  <2>. DEFINE d == p.d
  <2>1. FindDay(p) = IF DayAhead(0, d) >= Today THEN DayAhead(0, d) ELSE NoDay
    BY <1>7 DEF FindDay
  <2>2. d \in Int /\ 0 \in Int /\ This + 0 = This /\ d \in 1..31
    BY <1>7, ThisIs
  <2>. HIDE DEF d
  <2>3. DayAhead(0, d) = IF d \in 1..Days(This + 0) THEN Start(This + 0) + d ELSE NoDay
    BY <2>2, DayAheadIs, Zenon
  <2>4. Start(This) = Eve(Year, Month) /\ Days(This) = MonthLength(Year, Month)
    BY ThisIs
  <2>5. Year \in Int /\ Month \in 1..12 /\ Eve(Year, Month) \in Int /\ MonthLength(Year, Month) \in 28..31
    BY TodayIs
  <2>6. DateOf(Year, Month, d) = IF d \in 1..MonthLength(Year, Month) THEN Eve(Year, Month) + d ELSE NoDay
    BY <2>2, <2>5, OrdinalIs DEF DateOf
  <2>7. EndOfMonth = Eve(Year, Month) + MonthLength(Year, Month)
    BY EndOfMonthIs
  <2>8. DayAhead(0, d) = DateOf(Year, Month, d)
    BY <2>2, <2>3, <2>4, <2>6
  <2>9. FindDay(p) \in Int /\ (FindDay(p) # NoDay => FindDay(p) >= Today)
    BY <1>1, <2>1, <2>2, <2>5, <2>6, <2>8 DEF NoDay
  <2>10. FindDay(p) # NoDay => FindDay(p) \in Today..EndOfMonth /\ FindDay(p) = DateOf(Year, Month, d)
    BY <1>1, <2>1, <2>2, <2>5, <2>6, <2>7, <2>8 DEF NoDay
  <2>. QED  BY <1>7, <2>9, <2>10 DEF d
<1>8. CASE p.kind = "next_month" /\ p.d \in 1..31
  <2>. DEFINE d == p.d
  <2>1. FindDay(p) = DayAhead(1, d)
    BY <1>8 DEF FindDay
  <2>2. d \in Int /\ 1 \in Int /\ d \in 1..31 /\ This \in Int /\ This + 1 \in Int
    BY <1>8, ThisIs
  <2>. HIDE DEF d
  <2>3. DayAhead(1, d) = IF d \in 1..Days(This + 1) THEN Start(This + 1) + d ELSE NoDay
    BY <2>2, DayAheadIs, Zenon
  <2>4. Start(This) = Eve(Year, Month) /\ Days(This) = MonthLength(Year, Month)
    BY ThisIs
  <2>5. Start(This + 1) = Start(This) + Days(This)
    BY <2>2, StartsFollow
  <2>6. EndOfMonth = Eve(Year, Month) + MonthLength(Year, Month) /\ EndOfMonth \in Int
    BY EndOfMonthIs
  <2>7. FindDay(p) # NoDay => FindDay(p) = EndOfMonth + d
    BY <2>1, <2>3, <2>4, <2>5, <2>6
  <2>8. EndOfMonth >= Today
    BY <2>6, TodayIs
  <2>9. FindDay(p) \in Int /\ (FindDay(p) # NoDay => FindDay(p) >= Today)
    BY <1>1, <2>2, <2>6, <2>7, <2>8 DEF NoDay
  <2>. QED  BY <1>8, <2>7, <2>9 DEF d
<1>. QED  BY <1>2, <1>3, <1>4, <1>5, <1>6, <1>7, <1>8, PhrasesAre

LEMMA EveryMomentIsNext == ASSUME DatesTypeOK PROVE MomentsAreNext
<1>1. Today \in Int
  BY TodayIs
<1>2. ASSUME NEW p \in DayPhrases, NEW o, o = FindDay(p), o # NoDay, NEW time \in Times, NEW clock \in Clocks
      PROVE  LET at == DayAndTime(p, o, time, clock) IN
             /\ at > Now(clock) \/ p.kind \in {"today", "tonight"}
             /\ at # Moment(o, time) => Overdue(o, time, clock) /\ at = Moment(o + 7, time)
             /\ p.kind = "weekday" => at - Moment(7, 0) <= Now(clock)
  <2>. DEFINE at == DayAndTime(p, o, time, clock)
  <2>1. o \in Int /\ o >= Today
    BY <1>2, FoundIs
  <2>2. time \in 0..1439 /\ clock \in 0..1439
    BY DEF Times, Clocks
  <2>3. at = IF o = Today /\ time <= clock /\ p.kind \notin {"today", "tonight"}
             THEN 1440 * (o + 7) + time ELSE 1440 * o + time
    BY DEF DayAndTime, Moment
  <2>4. Now(clock) = 1440 * Today + clock /\ Moment(o, time) = 1440 * o + time
        /\ Moment(o + 7, time) = 1440 * (o + 7) + time /\ Moment(7, 0) = 10080
    BY DEF Now, Moment
  <2>5. p.kind = "weekday" => o - Today \in 0..6
    BY <1>2, FoundIs
  <2>. HIDE DEF at
  <2>6. at > Now(clock) \/ p.kind \in {"today", "tonight"}
    BY <1>1, <2>1, <2>2, <2>3, <2>4
  <2>7. at # Moment(o, time) => Overdue(o, time, clock) /\ at = Moment(o + 7, time)
    BY <2>3, <2>4 DEF Overdue
  <2>8. p.kind = "weekday" => at - Moment(7, 0) <= Now(clock)
    BY <1>1, <2>1, <2>2, <2>3, <2>4, <2>5
  <2>. QED  BY <2>6, <2>7, <2>8 DEF at
<1>3. ASSUME NEW time \in Times, NEW clock \in Clocks
      PROVE  TimeAt(time, clock) > Now(clock) /\ TimeAt(time, clock) - Moment(1, 0) <= Now(clock)
  <2>1. time \in 0..1439 /\ clock \in 0..1439
    BY DEF Times, Clocks
  <2>2. TimeAt(time, clock) = (IF time <= clock THEN 1440 * (Today + 1) + time ELSE 1440 * Today + time)
        /\ Now(clock) = 1440 * Today + clock /\ Moment(1, 0) = 1440
    BY DEF TimeAt, Moment, Now
  <2>. QED  BY <1>1, <2>1, <2>2
<1>4. ASSUME NEW p \in DayPhrases
      PROVE  LET o == FindDay(p) IN
             /\ p.kind = "weekday" => Weekday(o) = p.wd /\ o - Today \in 0..6
             /\ p.kind = "next_weekday" => Weekday(o) = p.wd /\ o - p.wd = Today - Weekday(Today) + 7
             /\ p.kind = "this_month" /\ o # NoDay => o \in Today..EndOfMonth /\ o = DateOf(Year, Month, p.d)
             /\ p.kind = "next_month" /\ o # NoDay => o = EndOfMonth + p.d
  BY FoundIs
<1>. QED  BY <1>2, <1>3, <1>4 DEF MomentsAreNext

\* What is read back is the same day, said again.
LEMMA EveryDayReadsBack == ASSUME DatesTypeOK PROVE ReadBackIsTheSame
<1>. SUFFICES ASSUME NEW o \in Today..(Today + 14), Describe(o).kind # "stamp"
              PROVE  FindDay(Describe(o)) = o
  BY DEF ReadBackIsTheSame
<1>1. Today \in Int /\ o \in Int
  BY TodayIs
<1>2. CASE o - Today = 0
  <2>1. Describe(o) = [kind |-> "today"]
    BY <1>2 DEF Describe
  <2>2. Describe(o).kind = "today"
    BY <2>1
  <2>. QED  BY <1>1, <1>2, <2>2 DEF FindDay
<1>3. CASE o - Today = 1
  <2>1. Describe(o) = [kind |-> "tomorrow"]
    BY <1>3 DEF Describe
  <2>2. Describe(o).kind = "tomorrow"
    BY <2>1
  <2>. QED  BY <1>1, <1>3, <2>2 DEF FindDay
<1>4. CASE o - Today \in 2..6
  <2>1. Describe(o) = [kind |-> "weekday", wd |-> Weekday(o)]
    BY <1>4 DEF Describe
  <2>2. Describe(o).kind = "weekday" /\ Describe(o).wd = Weekday(o)
    BY <2>1
  <2>3. FindDay(Describe(o)) = ComingWeekday(Weekday(o))
    BY <2>2 DEF FindDay
  <2>4. Weekday(o) \in 0..6
    BY <1>1, WeekdayIs
  <2>5. ComingWeekday(Weekday(o)) \in Today..(Today + 6) /\ Weekday(ComingWeekday(Weekday(o))) = Weekday(o)
    BY <2>4, ComingIs
  <2>. DEFINE c == ComingWeekday(Weekday(o))
  <2>6. c \in Int /\ c - Today \in 0..6 /\ Weekday(c) = Weekday(o)
    BY <1>1, <2>5
  <2>. HIDE DEF c
  <2>7. PICK k \in Int : c = o + 7 * k
    BY <1>1, <2>6, WeeksApart
  <2>8. c = o
    BY <1>1, <1>4, <2>6, <2>7
  <2>. QED  BY <2>3, <2>8 DEF c
<1>5. CASE o - Today \notin 0..6
  <2>1. Describe(o) = [kind |-> "stamp"]
    BY <1>1, <1>5 DEF Describe
  <2>. QED  BY <2>1
<1>. QED  BY <1>1, <1>2, <1>3, <1>4, <1>5

\* A day of the year: a holiday, or a date that some years may lack.
LEMMA InYearIs ==
  ASSUME DatesTypeOK, NEW p \in YearlyPhrases
  PROVE  /\ \A y \in Around : InYear(p, y) = NoDay \/ InYear(p, y) \in (Eve(y, 1) + 1)..Eve(y + 1, 1)
         /\ (\A y \in Around : InYear(p, y) # NoDay) \/ (\A y \in Around : InYear(p, y) = NoDay) \/ Leaps(p)
         /\ Resolve(p) \in {InYear(p, Year), InYear(p, Year + 1)} /\ (Resolve(p) = NoDay \/ Resolve(p) >= Today)
<1>1. CASE p.kind = "holiday" /\ p.name \in Holidays
  <2>1. /\ \A y : InYear(p, y) = DayOf(p.name, y)
        /\ Resolve(p) = NextHoliday(p.name)
    BY <1>1 DEF InYear, Resolve
  <2>2. \A y \in Around : y \in Nat
    BY YearsAround
  <2>3. \A y \in Around : DayOf(p.name, y) \in (Eve(y, 1) + 1)..Eve(y + 1, 1)
    BY <1>1, <2>2, HolidayInYear
  <2>4. \A y \in Around : DayOf(p.name, y) # NoDay
    BY <1>1, HolidayDaysAre DEF NoDay
  <2>5. NextHoliday(p.name) \in {DayOf(p.name, Year), DayOf(p.name, Year + 1)} /\ NextHoliday(p.name) >= Today
    BY <1>1, NextHolidayIs
  <2>. QED  BY <2>1, <2>3, <2>4, <2>5
<1>2. CASE p.kind = "written" /\ p.m \in 1..12 /\ p.d \in 1..31
  <2>1. /\ \A y : InYear(p, y) = DateOf(y, p.m, p.d)
        /\ Resolve(p) = MonthDay(p.m, p.d)
    BY <1>2 DEF InYear, Resolve
  <2>2. p.d \in Int /\ \A y \in Around : y \in Nat /\ y \in Int /\ y >= 1
    BY <1>2, YearsAround, TodayIs
  <2>3. \A y \in Around : DateOf(y, p.m, p.d) = NoDay \/ DateOf(y, p.m, p.d) \in (Eve(y, 1) + 1)..Eve(y + 1, 1)
    BY <1>2, <2>2, DateIs
  <2>4. \A y \in Around : DateOf(y, p.m, p.d) = NoDay <=> p.d \notin 1..MonthLength(y, p.m)
    BY <1>2, <2>2, DatesMissing
  <2>5. ASSUME ~Leaps(p), NEW y \in Around, NEW z \in Around, DateOf(y, p.m, p.d) = NoDay PROVE DateOf(z, p.m, p.d) = NoDay
    <3>1. SUFFICES ASSUME p.d \in 1..MonthLength(z, p.m) PROVE FALSE
      BY <2>4
    <3>2. p.d \notin 1..MonthLength(y, p.m)
      BY <2>4, <2>5
    <3>3. p.m = 2 /\ p.d = 29
      BY <1>2, <2>2, <3>1, <3>2, DatesOfYears
    <3>. QED  BY <1>2, <2>5, <3>3 DEF Leaps
  <2>6. MonthDay(p.m, p.d) \in {DateOf(Year, p.m, p.d), DateOf(Year + 1, p.m, p.d)}
        /\ (MonthDay(p.m, p.d) = NoDay \/ MonthDay(p.m, p.d) >= Today)
    BY <1>2, <2>2, MonthDayIs
  <2>7. (\A y \in Around : DateOf(y, p.m, p.d) # NoDay) \/ (\A y \in Around : DateOf(y, p.m, p.d) = NoDay) \/ Leaps(p)
    BY <2>5
  <2>. QED  BY <2>1, <2>3, <2>6, <2>7
<1>3. CASE p \in [kind : {"holiday"}, name : Holidays]
  BY <1>1, <1>3
<1>4. CASE p \in {[kind |-> "written", m |-> m, d |-> d] : m \in 1..12, d \in {1, 15, 29, 31}}
  <2>1. p.kind = "written" /\ p.m \in 1..12 /\ p.d \in 1..31
    BY <1>4
  <2>. QED  BY <1>2, <2>1
<1>. QED  BY <1>3, <1>4 DEF YearlyPhrases

LEMMA SinceIs ==
  ASSUME DatesTypeOK, NEW p \in YearlyPhrases
  PROVE  /\ Since(p) # NoDay /\ ~Leaps(p) =>
              Since(p) <= Today /\ \A y \in PinnedYears : ~(InYear(p, y) > Since(p) /\ InYear(p, y) <= Today)
         /\ Since(p) = NoDay => \A y \in PinnedYears : InYear(p, y) = NoDay \/ Leaps(p)
<1>. DEFINE a == InYear(p, Year - 1)
            b == InYear(p, Year)
            c == InYear(p, Year + 1)
            r == Resolve(p)
            earlier == {y \in {Year, Year - 1} : InYear(p, y) # NoDay /\ InYear(p, y) <= Today}
<1>1. /\ Year \in Int /\ Today \in Int /\ Today > 0 /\ Today \in (Eve(Year, 1) + 1)..Eve(Year + 1, 1)
      /\ Eve(Year - 1, 1) \in Int /\ Eve(Year - 1, 1) >= 0 /\ Eve(Year, 1) \in Int /\ Eve(Year + 1, 1) \in Int
      /\ Eve(Year + 1 + 1, 1) \in Int /\ Eve(Year, 1) > Eve(Year - 1, 1) /\ Eve(Year + 1, 1) > Eve(Year, 1)
  BY TodayIs, YearsAround
<1>2. PinnedYears = {Year - 1, Year, Year + 1} /\ Around = {Year - 1, Year, Year + 1}
  BY DEF PinnedYears, Around
<1>3. Year - 1 + 1 = Year
  BY <1>1
<1>4. /\ a = NoDay \/ a \in (Eve(Year - 1, 1) + 1)..Eve(Year, 1)
      /\ b = NoDay \/ b \in (Eve(Year, 1) + 1)..Eve(Year + 1, 1)
      /\ c = NoDay \/ c \in (Eve(Year + 1, 1) + 1)..Eve(Year + 1 + 1, 1)
  <2>1. \A y \in Around : InYear(p, y) = NoDay \/ InYear(p, y) \in (Eve(y, 1) + 1)..Eve(y + 1, 1)
    BY InYearIs
  <2>2. InYear(p, Year - 1) = NoDay \/ InYear(p, Year - 1) \in (Eve(Year - 1, 1) + 1)..Eve(Year - 1 + 1, 1)
    BY <1>2, <2>1
  <2>3. b = NoDay \/ b \in (Eve(Year, 1) + 1)..Eve(Year + 1, 1)
    BY <1>2, <2>1
  <2>4. c = NoDay \/ c \in (Eve(Year + 1, 1) + 1)..Eve(Year + 1 + 1, 1)
    BY <1>2, <2>1
  <2>. QED  BY <1>3, <2>2, <2>3, <2>4
<1>5. (a # NoDay /\ b # NoDay /\ c # NoDay) \/ (a = NoDay /\ b = NoDay /\ c = NoDay) \/ Leaps(p)
  BY <1>2, InYearIs
<1>6. r \in {b, c} /\ (r = NoDay \/ r >= Today)
  BY InYearIs
<1>7. Since(p) = IF r > Today /\ earlier # {} THEN InYear(p, Max(earlier)) ELSE r
  BY DEF Since
<1>8. earlier # {} => /\ Max(earlier) \in {Year, Year - 1} /\ InYear(p, Max(earlier)) # NoDay /\ InYear(p, Max(earlier)) <= Today
                      /\ \A y \in earlier : Max(earlier) >= y
  <2>1. ASSUME earlier # {} PROVE Max(earlier) \in earlier /\ \A y \in earlier : Max(earlier) >= y
    <3>1. \A y \in earlier : y \in Int /\ y <= Year
      BY <1>1
    <3>. HIDE DEF earlier
    <3>. QED  BY <1>1, <2>1, <3>1, MaxIs
  <2>. QED  BY <2>1
<1>9. Year \in earlier <=> b # NoDay /\ b <= Today
  OBVIOUS
<1>10. Year - 1 \in earlier <=> a # NoDay /\ a <= Today
  OBVIOUS
<1>11. earlier # {} => (Max(earlier) = Year /\ InYear(p, Max(earlier)) = b) \/ (Max(earlier) = Year - 1 /\ InYear(p, Max(earlier)) = a)
  BY <1>8
<1>. DEFINE s == Since(p)
            top == Max(earlier)
            found == InYear(p, top)
<1>12. ASSUME s # NoDay, ~Leaps(p)
       PROVE  s <= Today /\ ~(a > s /\ a <= Today) /\ ~(b > s /\ b <= Today) /\ ~(c > s /\ c <= Today)
  <2>1. CASE r > Today
    <3>1. r # NoDay
      BY <1>1, <2>1 DEF NoDay
    <3>2. a # NoDay /\ b # NoDay /\ c # NoDay
      BY <1>5, <1>6, <1>12, <3>1
    <3>3. a <= Today
      BY <1>1, <1>4, <3>2
    <3>4. earlier # {}
      BY <1>10, <3>2, <3>3
    <3>5. s = found
      BY <1>7, <2>1, <3>4
    <3>. HIDE DEF a, b, c, r, s, earlier, found, top
    <3>6. c > Today
      BY <1>1, <1>4, <3>2
    <3>7. CASE b <= Today
      <4>1. top = Year
        <5>1. Year \in earlier
          BY <1>9, <3>2, <3>7
        <5>2. top >= Year /\ top \in {Year, Year - 1}
          BY <1>8, <3>4, <5>1 DEF top
        <5>. QED  BY <1>1, <5>2
      <4>2. s = b
        BY <1>1, <1>11, <3>4, <3>5, <4>1 DEF top, found
      <4>. QED  BY <1>1, <1>4, <3>2, <3>6, <3>7, <4>2
    <3>8. CASE b > Today
      <4>1. s = a \/ s = b
        BY <1>11, <3>4, <3>5 DEF top, found
      <4>2. s <= Today
        BY <1>8, <3>4, <3>5 DEF top, found
      <4>. QED  BY <1>1, <1>4, <3>2, <3>6, <3>8, <4>1, <4>2
    <3>. QED  BY <1>1, <1>4, <3>2, <3>7, <3>8
  <2>2. CASE ~(r > Today)
    <3>1. s = r
      BY <1>7, <2>2
    <3>2. r \in Int
      BY <1>1, <1>4, <1>6 DEF NoDay
    <3>. HIDE DEF a, b, c, r, s
    <3>3. s = Today
      BY <1>1, <1>6, <1>12, <2>2, <3>1, <3>2
    <3>. QED  BY <1>1, <1>4, <3>3 DEF NoDay
  <2>. QED  BY <2>1, <2>2
<1>13. ASSUME s = NoDay, ~Leaps(p) PROVE a = NoDay /\ b = NoDay /\ c = NoDay
  <2>1. r = NoDay
    BY <1>7, <1>8, <1>13
  <2>. QED  BY <1>5, <1>6, <1>13, <2>1
<1>14. s # NoDay /\ ~Leaps(p) => \A y \in PinnedYears : ~(InYear(p, y) > s /\ InYear(p, y) <= Today)
  BY <1>2, <1>12
<1>15. s = NoDay => \A y \in PinnedYears : InYear(p, y) = NoDay \/ Leaps(p)
  BY <1>2, <1>13
<1>. QED  BY <1>12, <1>14, <1>15

\* A year that is said is kept to, and "since" looks back no further than it must.
LEMMA EveryYearIsKept == ASSUME DatesTypeOK PROVE YearsAreKept
<1>1. ASSUME NEW p \in YearlyPhrases, NEW y \in PinnedYears, InYear(p, y) # NoDay
      PROVE  InYear(p, y) \in Ordinal(y, 1, 1)..Ordinal(y, 12, 31)
  <2>1. y \in Int /\ y \in Around
    BY YearsAround DEF PinnedYears
  <2>2. InYear(p, y) \in (Eve(y, 1) + 1)..Eve(y + 1, 1)
    BY <1>1, <2>1, InYearIs
  <2>3. 1 \in Int /\ 31 \in Int /\ 1 \in 1..12 /\ 12 \in 1..12
    OBVIOUS
  <2>4. Ordinal(y, 1, 1) = Eve(y, 1) + 1
    BY <2>1, <2>3, OrdinalIs, Zenon
  <2>5. Ordinal(y, 12, 31) = Eve(y, 12) + 31
    BY <2>1, <2>3, OrdinalIs, Zenon
  <2>6. Eve(y + 1, 1) = Eve(y, 12) + 31
    BY <2>1, YearsFollow
  <2>. QED  BY <2>2, <2>4, <2>5, <2>6
<1>2. \A wd \in 0..6 : Weekday(SinceWeekday(wd)) = wd /\ Today - SinceWeekday(wd) \in 0..6
  <2>. SUFFICES ASSUME NEW wd \in 0..6 PROVE Weekday(SinceWeekday(wd)) = wd /\ Today - SinceWeekday(wd) \in 0..6
    OBVIOUS
  <2>. DEFINE c == ComingWeekday(wd)
  <2>1. Today \in Int /\ c \in Today..(Today + 6) /\ Weekday(c) = wd
    BY ComingIs, TodayIs
  <2>2. SinceWeekday(wd) = IF c > Today THEN c - 7 ELSE c
    BY DEF SinceWeekday
  <2>. HIDE DEF c
  <2>3. Weekday(c - 7) = Weekday(c)
    BY <2>1 DEF Weekday
  <2>. QED  BY <2>1, <2>2, <2>3
<1>3. \A p \in YearlyPhrases :
        /\ Since(p) # NoDay /\ ~Leaps(p) =>
             Since(p) <= Today /\ \A y \in PinnedYears : ~(InYear(p, y) > Since(p) /\ InYear(p, y) <= Today)
        /\ Since(p) = NoDay => \A y \in PinnedYears : InYear(p, y) = NoDay \/ Leaps(p)
  BY SinceIs
<1>. QED  BY <1>1, <1>2, <1>3 DEF YearsAreKept

LEMMA LeapDays ==
  ASSUME NEW y \in Nat, y >= 1
  PROVE  DateOf(y, 2, 29) # NoDay <=> IsLeap(y)
<1>1. 2 \in 1..12 /\ 29 \in Int
  OBVIOUS
<1>2. IF 29 \in 1..MonthLength(y, 2) THEN DateOf(y, 2, 29) # NoDay ELSE DateOf(y, 2, 29) = NoDay
  BY <1>1, DateIs
<1>3. MonthLength(y, 2) = IF IsLeap(y) THEN 29 ELSE 28
  BY DEF MonthLength
<1>. QED  BY <1>2, <1>3

\* Of any eight years that follow each other, one is a leap year.
LEMMA ALeapYearIsNear == \A y \in Int : \E z \in (y + 1)..(y + 8) : IsLeap(z)
<1>. SUFFICES ASSUME NEW y \in Int PROVE \E z \in (y + 1)..(y + 8) : IsLeap(z)
  OBVIOUS
<1>. DEFINE q == 4 * ((y \div 4) + 1)
<1>1. q \in (y + 1)..(y + 4) /\ q \in Int
  OBVIOUS
<1>2. q % 4 = 0 /\ (q + 4) % 4 = 0
  OBVIOUS
<1>. HIDE DEF q
<1>3. CASE q % 100 # 0
  BY <1>1, <1>2, <1>3 DEF IsLeap
<1>4. CASE q % 100 = 0
  <2>1. (q + 4) % 100 # 0
    BY <1>1, <1>4
  <2>2. IsLeap(q + 4) /\ q + 4 \in (y + 1)..(y + 8)
    BY <1>1, <1>2, <2>1 DEF IsLeap
  <2>. QED  BY <2>2
<1>. QED  BY <1>3, <1>4

LEMMA LeapYearIsNext ==
  ASSUME DatesTypeOK
  PROVE  /\ NextLeapYear > Year /\ DateOf(NextLeapYear, 2, 29) # NoDay
         /\ \A y \in (Year + 1)..(NextLeapYear - 1) : DateOf(y, 2, 29) = NoDay
<1>. DEFINE S == {y \in (Year + 1)..(Year + 8) : IsLeap(y)}
<1>1. Year \in Nat /\ Year \in Int /\ Year + 1 \in Int
  BY TodayIs
<1>2. S # {}
  BY <1>1, ALeapYearIsNear
<1>3. \A y \in S : y \in Int /\ y >= Year + 1
  BY <1>1
<1>4. NextLeapYear = Min(S)
  BY DEF NextLeapYear
<1>5. Min(S) \in S /\ \A y \in S : Min(S) <= y
  <2>. HIDE DEF S
  <2>. QED  BY <1>1, <1>2, <1>3, MinIs
<1>. DEFINE n == NextLeapYear
<1>6. n \in (Year + 1)..(Year + 8) /\ IsLeap(n) /\ \A y \in S : n <= y
  BY <1>4, <1>5
<1>. HIDE DEF n
<1>7. n \in Nat /\ n >= 1 /\ n > Year
  BY <1>1, <1>6
<1>8. DateOf(n, 2, 29) # NoDay
  BY <1>6, <1>7, LeapDays
<1>9. ASSUME NEW y \in (Year + 1)..(n - 1) PROVE DateOf(y, 2, 29) = NoDay
  <2>1. y \in Nat /\ y >= 1 /\ y \in (Year + 1)..(Year + 8) /\ ~(n <= y)
    BY <1>1, <1>6, <1>7
  <2>2. ~IsLeap(y)
    BY <1>6, <2>1
  <2>. QED  BY <2>1, <2>2, LeapDays
<1>. QED  BY <1>7, <1>8, <1>9 DEF n

LEMMA WeekendIs ==
  ASSUME DatesTypeOK
  PROVE  /\ Weekday(Today + DaysToWeekend) \in 5..6
         /\ DaysToWeekend > 0 => Weekday(Today + DaysToWeekend - 1) = 4
<1>. DEFINE w == Weekday(Today)
<1>1. Today \in Int /\ w \in 0..6
  BY TodayIs, WeekdayIs
<1>2. CASE w >= 5
  <2>1. DaysToWeekend = 0
    BY <1>2 DEF DaysToWeekend
  <2>2. Today + 0 = Today
    BY <1>1
  <2>. QED  BY <1>1, <1>2, <2>1, <2>2
<1>3. CASE ~(w >= 5)
  <2>1. DaysToWeekend = 5 - w
    BY <1>3 DEF DaysToWeekend
  <2>2. PICK q \in Int : Today - 1 = 7 * q + w
    BY <1>1, WeekOf
  <2>. HIDE DEF w
  <2>3. (Today + (5 - w)) - 1 = 7 * q + 5 /\ (Today + (5 - w) - 1) - 1 = 7 * q + 4
    BY <1>1, <2>2
  <2>4. Weekday(Today + (5 - w)) = 5
    BY <2>3 DEF Weekday
  <2>5. Weekday(Today + (5 - w) - 1) = 4
    BY <2>3 DEF Weekday
  <2>. QED  BY <2>1, <2>4, <2>5
<1>. QED  BY <1>2, <1>3

\* By the new year's first day there is another holiday: that one, or this year's Christmas.
LEMMA SoonAHoliday ==
  ASSUME DatesTypeOK
  PROVE  \E h \in NamedHolidays : NextHoliday(h) \in (Today + 1)..(Eve(Year + 1, 1) + 1)
<1>1. /\ Year \in Int /\ Today \in (Eve(Year, 1) + 1)..Eve(Year + 1, 1) /\ Today \in Int
      /\ Eve(Year, 1) \in Int /\ Eve(Year + 1, 1) \in Int /\ Eve(Year + 1, 1) - Eve(Year, 1) \in 365..366
      /\ Year \in Around /\ Year + 1 \in Around /\ Year + 1 \in Int
  BY TodayIs, YearsAround
<1>2. "christmas" \in NamedHolidays /\ "new_year" \in NamedHolidays /\ "christmas" \in Holidays /\ "new_year" \in Holidays
  BY WrittenDays DEF NamedHolidays
<1>3. 1 \in Int /\ 25 \in Int /\ 1 \in 1..12 /\ 12 \in 1..12
  OBVIOUS
<1>4. DayOf("new_year", Year) = Eve(Year, 1) + 1
  <2>1. DayOf("new_year", Year) = Ordinal(Year, 1, 1)
    BY <1>1, WrittenDays
  <2>2. Ordinal(Year, 1, 1) = Eve(Year, 1) + 1
    BY <1>1, <1>3, OrdinalIs, Zenon
  <2>. QED  BY <2>1, <2>2
<1>5. DayOf("new_year", Year + 1) = Eve(Year + 1, 1) + 1
  <2>1. DayOf("new_year", Year + 1) = Ordinal(Year + 1, 1, 1)
    BY <1>1, WrittenDays
  <2>2. Ordinal(Year + 1, 1, 1) = Eve(Year + 1, 1) + 1
    BY <1>1, <1>3, OrdinalIs, Zenon
  <2>. QED  BY <2>1, <2>2
<1>6. DayOf("christmas", Year) = Eve(Year, 12) + 25 /\ Eve(Year, 12) \in Int /\ Eve(Year, 12) >= Eve(Year, 1)
  <2>1. DayOf("christmas", Year) = Ordinal(Year, 12, 25)
    BY <1>1, WrittenDays
  <2>2. Ordinal(Year, 12, 25) = Eve(Year, 12) + 25
    BY <1>1, <1>3, OrdinalIs, Zenon
  <2>3. Eve(Year, 12) \in Int /\ Eve(Year, 1) <= Eve(Year, 12)
    BY <1>1, <1>3, MonthsOfAYear
  <2>. QED  BY <2>1, <2>2, <2>3
<1>7. DayOf("christmas", Year + 1) > Eve(Year + 1, 1) /\ DayOf("christmas", Year) <= Eve(Year + 1, 1)
  BY <1>1, <1>2, HolidaysAround
<1>. DEFINE c == NextHoliday("christmas")
            n == NextHoliday("new_year")
<1>8. /\ c \in Int /\ c >= Today /\ c \in {DayOf("christmas", Year), DayOf("christmas", Year + 1)}
      /\ \A y \in Around : DayOf("christmas", y) >= Today => c <= DayOf("christmas", y)
  BY <1>2, NextHolidayIs
<1>9. /\ n \in Int /\ n >= Today /\ n \in {DayOf("new_year", Year), DayOf("new_year", Year + 1)}
      /\ \A y \in Around : DayOf("new_year", y) >= Today => n <= DayOf("new_year", y)
  BY <1>2, NextHolidayIs
<1>. HIDE DEF c, n
<1>10. CASE Today = Eve(Year, 1) + 1
  <2>1. c \in (Today + 1)..(Eve(Year + 1, 1) + 1)
    BY <1>1, <1>6, <1>7, <1>8, <1>10
  <2>. QED  BY <1>2, <2>1 DEF c
<1>11. CASE Today # Eve(Year, 1) + 1
  <2>1. n \in (Today + 1)..(Eve(Year + 1, 1) + 1)
    BY <1>1, <1>4, <1>5, <1>9, <1>11
  <2>. QED  BY <1>2, <2>1 DEF n
<1>. QED  BY <1>10, <1>11

LEMMA NamedHolidayIs ==
  ASSUME DatesTypeOK
  PROVE  /\ NamedHoliday > Today
         /\ \A h \in NamedHolidays, y \in Around : DayOf(h, y) > Today => NamedHoliday <= DayOf(h, y)
<1>. DEFINE S == {NextHoliday(h) : h \in NamedHolidays} \ {Today}
            least == NamedHoliday
<1>1. /\ Year \in Int /\ Today \in (Eve(Year, 1) + 1)..Eve(Year + 1, 1) /\ Today \in Int /\ Today + 1 \in Int
      /\ Eve(Year, 1) \in Int /\ Eve(Year + 1, 1) \in Int /\ Eve(Year - 1, 1) \in Int
      /\ Around = {Year - 1, Year, Year + 1} /\ Eve(Year + 1 + 1, 1) \in Int
  BY TodayIs, YearsAround
<1>2. \A h \in NamedHolidays : h \in Holidays
  BY DEF NamedHolidays
<1>3. \A h \in NamedHolidays : NextHoliday(h) \in Int /\ NextHoliday(h) >= Today
  BY <1>2, NextHolidayIs
<1>4. PICK x \in NamedHolidays : NextHoliday(x) \in (Today + 1)..(Eve(Year + 1, 1) + 1)
  BY SoonAHoliday
<1>5. NextHoliday(x) \in S
  BY <1>1, <1>4
<1>6. \A o \in S : o \in Int /\ o >= Today + 1
  BY <1>1, <1>3
<1>7. least = Min(S)
  BY DEF NamedHoliday
<1>8. Min(S) \in S /\ \A o \in S : Min(S) <= o
  <2>. HIDE DEF S
  <2>. QED  BY <1>1, <1>5, <1>6, MinIs
<1>9. least \in Int /\ least > Today /\ least <= NextHoliday(x)
  BY <1>1, <1>5, <1>6, <1>7, <1>8
<1>10. \A h \in NamedHolidays : NextHoliday(h) # Today => least <= NextHoliday(h)
  BY <1>7, <1>8
<1>11. ASSUME NEW h \in NamedHolidays, NEW y \in Around, DayOf(h, y) > Today PROVE least <= DayOf(h, y)
  <2>. DEFINE at == DayOf(h, y)
              next == NextHoliday(h)
  <2>1. at \in Int /\ h \in Holidays
    BY <1>2, HolidayDaysAre
  <2>2. next \in Int /\ next <= at
    BY <1>1, <1>11, <2>1, NextHolidayIs
  <2>. HIDE DEF least
  <2>3. CASE next # Today
    <3>1. least <= next
      BY <1>10, <2>3
    <3>2. least <= at
      <4>. HIDE DEF at, next
      <4>. QED  BY <1>9, <2>1, <2>2, <3>1
    <3>. QED  BY <3>2
  <2>4. CASE next = Today
    <3>1. /\ DayOf(h, Year - 1) <= Eve(Year, 1) /\ DayOf(h, Year - 1) \in Int
          /\ DayOf(h, Year) \in Int /\ DayOf(h, Year + 1) \in Int /\ DayOf(h, Year + 1) > Eve(Year + 1, 1)
      BY <1>1, <2>1, HolidaysAround
    <3>2. next \in {DayOf(h, Year), DayOf(h, Year + 1)}
      BY <2>1, NextHolidayIs
    <3>3. DayOf(h, Year) = Today
      BY <1>1, <2>4, <3>1, <3>2
    <3>4. y = Year + 1
      BY <1>1, <1>11, <3>1, <3>3
    <3>5. at > Eve(Year + 1, 1)
      BY <3>1, <3>4
    <3>6. least <= at
      <4>. HIDE DEF at, next
      <4>. QED  BY <1>1, <1>4, <1>9, <2>1, <3>5
    <3>. QED  BY <3>6
  <2>. QED  BY <2>3, <2>4
<1>. QED  BY <1>9, <1>11

LEMMA YearsAreOrdered == ASSUME NEW y \in Int, NEW z \in Int, y < z PROVE Eve(y + 1, 1) <= Eve(z, 1)
<1>1. CASE y + 1 = z
  <2>1. Eve(z, 1) \in Int
    BY EvesAre
  <2>. QED  BY <1>1, <2>1
<1>2. CASE y + 1 < z
  <2>1. 1 \in 1..12 /\ y + 1 \in Int
    OBVIOUS
  <2>. DEFINE i == 12 * (y + 1) + 1 - 1
              j == 12 * z + 1 - 1
  <2>2. i \in Int /\ j \in Int /\ i < j
    BY <1>2
  <2>3. Start(i) = Eve(y + 1, 1)
    BY <2>1, IndexOf
  <2>4. Start(j) = Eve(z, 1)
    BY <2>1, IndexOf
  <2>. HIDE DEF i, j
  <2>5. Start(i) + Days(i) <= Start(j)
    BY <2>2, StartsAreOrdered
  <2>6. Days(i) \in 28..31 /\ Start(i) \in Int /\ Start(j) \in Int
    BY <2>2, StartIs, DaysAre
  <2>. QED  BY <2>3, <2>4, <2>5, <2>6
<1>. QED  BY <1>1, <1>2

LEMMA MonthsAreOrdered ==
  \A y \in Int, a \in 1..12, b \in 1..12 : a < b => Eve(y, a) + MonthLength(y, a) <= Eve(y, b)
BY MonthsOfAYear

\* A birthday: the day it is kept on, in a year that may lack it.
Birthday(y, m, d) == Ordinal(y, m, 1) + d - 1

LEMMA BirthdayIs ==
  ASSUME NEW y \in Int, NEW m \in 1..12, NEW d \in 1..29
  PROVE  Birthday(y, m, d) = Eve(y, m) + d /\ Birthday(y, m, d) <= Eve(y + 1, 1)
<1>1. 1 \in Int /\ 12 \in 1..12 /\ y + 1 \in Int
  OBVIOUS
<1>2. Ordinal(y, m, 1) = Eve(y, m) + 1
  BY <1>1, OrdinalIs, Zenon
<1>3. /\ Eve(y, m) \in Int /\ MonthLength(y, m) \in 28..31 /\ Eve(y, m) + MonthLength(y, m) <= Eve(y + 1, 1)
      /\ (m < 12 => Eve(y, m) + MonthLength(y, m) <= Eve(y, 12))
  BY <1>1, MonthsOfAYear
<1>4. Eve(y + 1, 1) \in Int /\ Eve(y, 12) \in Int /\ Eve(y + 1, 1) = Eve(y, 12) + 31
  BY <1>1, YearsAreLong, EvesAre, YearsFollow
<1>5. m = 12 => Eve(y, m) = Eve(y, 12)
  OBVIOUS
<1>6. Birthday(y, m, d) = Eve(y, m) + d
  BY <1>2, <1>3 DEF Birthday
<1>. QED  BY <1>3, <1>4, <1>5, <1>6

Birthdays(m, d) == {y \in 2025..Year : Birthday(y, m, d) <= Today}

LEMMA BirthdayIsPast ==
  ASSUME DatesTypeOK, NEW m \in 1..12, NEW d \in 1..29
  PROVE  /\ \A y \in Int : y < Year => Birthday(y, m, d) <= Today
         /\ Birthday(Year, m, d) <= Today <=> ~(Month < m \/ (Month = m /\ DayOfMonth < d))
<1>1. /\ Year \in Int /\ Month \in 1..12 /\ DayOfMonth \in 1..MonthLength(Year, Month) /\ DayOfMonth \in 1..31
      /\ Today \in Int /\ Eve(Year, Month) \in Int /\ MonthLength(Year, Month) \in 28..31
      /\ Today = Eve(Year, Month) + DayOfMonth /\ Today > Eve(Year, 1) /\ Eve(Year, 1) \in Int
  BY TodayIs, YearsAround
<1>2. ASSUME NEW y \in Int, y < Year PROVE Birthday(y, m, d) <= Today
  <2>1. Birthday(y, m, d) = Eve(y, m) + d /\ Birthday(y, m, d) <= Eve(y + 1, 1)
    BY BirthdayIs
  <2>2. Eve(y, m) \in Int
    BY EvesAre
  <2>3. Eve(y + 1, 1) \in Int
    BY YearsAreLong
  <2>4. Eve(y + 1, 1) <= Eve(Year, 1)
    BY <1>1, <1>2, YearsAreOrdered
  <2>. QED  BY <1>1, <2>1, <2>2, <2>3, <2>4
<1>3. Birthday(Year, m, d) <= Today <=> ~(Month < m \/ (Month = m /\ DayOfMonth < d))
  <2>1. Birthday(Year, m, d) = Eve(Year, m) + d
    BY <1>1, BirthdayIs
  <2>2. Eve(Year, m) \in Int
    BY <1>1, EvesAre
  <2>3. MonthLength(Year, m) \in 28..31
    BY <1>1, MonthLengths
  <2>4. Month < m => Eve(Year, Month) + MonthLength(Year, Month) <= Eve(Year, m)
    BY <1>1, MonthsAreOrdered
  <2>5. m < Month => Eve(Year, m) + MonthLength(Year, m) <= Eve(Year, Month)
    BY <1>1, MonthsAreOrdered
  <2>6. CASE Month < m
    <3>1. DayOfMonth <= MonthLength(Year, Month)
      BY <1>1
    <3>. QED  BY <1>1, <2>1, <2>2, <2>4, <2>6, <3>1
  <2>7. CASE Month = m
    BY <1>1, <2>1, <2>2, <2>7
  <2>8. CASE m < Month
    BY <1>1, <2>1, <2>2, <2>3, <2>5, <2>8
  <2>. QED  BY <1>1, <2>6, <2>7, <2>8
<1>. QED  BY <1>2, <1>3

LEMMA AgeIs ==
  ASSUME DatesTypeOK, NEW m \in 1..12, NEW d \in 1..29, Year > 2024
  PROVE  Age(2024, m, d) = Cardinality(Birthdays(m, d))
<1>. DEFINE early == Month < m \/ (Month = m /\ DayOfMonth < d)
            last == IF early THEN Year - 1 ELSE Year
<1>1. Year \in Int
  BY TodayIs
<1>2. Age(2024, m, d) = Year - 2024 - (IF early THEN 1 ELSE 0)
  BY DEF Age
<1>3. \A y \in Int : y < Year => Birthday(y, m, d) <= Today
  BY BirthdayIsPast
<1>4. Birthday(Year, m, d) <= Today <=> ~early
  BY BirthdayIsPast
<1>. HIDE DEF early
<1>5. last \in Int /\ last >= 2024 /\ Age(2024, m, d) = last - 2024
  BY <1>1, <1>2
<1>6. \A y \in Int : y \in Birthdays(m, d) <=> y \in 2025..last
  BY <1>1, <1>3, <1>4 DEF Birthdays
<1>7. Birthdays(m, d) = 2025..last
  BY <1>1, <1>5, <1>6 DEF Birthdays
<1>. HIDE DEF last
<1>8. Cardinality(2025..last) = last - 2024
  <2>1. Cardinality(2025..last) = IF 2025 > last THEN 0 ELSE last - 2025 + 1
    BY <1>5, FS_Interval
  <2>. QED  BY <1>5, <2>1
<1>. QED  BY <1>5, <1>7, <1>8

LEMMA DaysOfMonths ==
  ASSUME DatesTypeOK, NEW m \in 1..12
  PROVE  DateOf(Year, m, DaysIn(m)) # NoDay /\ DateOf(Year, m, DaysIn(m) + 1) = NoDay
<1>. DEFINE n == DaysIn(m)
<1>1. Year \in Nat /\ Year >= 1 /\ Year \in Int
  BY TodayIs
<1>2. n = MonthLength(Year, m) /\ n \in 28..31
  BY <1>1, MonthLengths DEF DaysIn
<1>3. n \in Int /\ n + 1 \in Int /\ n \in 1..MonthLength(Year, m) /\ n + 1 \notin 1..MonthLength(Year, m)
  BY <1>2
<1>. HIDE DEF n
<1>4. DateOf(Year, m, n) # NoDay
  BY <1>1, <1>3, DateIs
<1>5. DateOf(Year, m, n + 1) = NoDay
  BY <1>1, <1>3, DateIs
<1>. QED  BY <1>4, <1>5 DEF n

\* The facts of the calendar are those that are counted another way.
LEMMA EveryFactIsCounted == ASSUME DatesTypeOK PROVE FactsAreCounted
<1>1. Month \in (3 * (Quarter - 1) + 1)..(3 * Quarter)
  <2>1. Month \in 1..12
    BY TodayIs
  <2>. DEFINE m == Month
  <2>2. Quarter = ((m - 1) \div 3) + 1
    BY DEF Quarter
  <2>. HIDE DEF m
  <2>3. m \in 1..12
    BY <2>1 DEF m
  <2>4. m \in (3 * (Quarter - 1) + 1)..(3 * Quarter)
    BY <2>2, <2>3
  <2>. QED  BY <2>4 DEF m
<1>2. ASSUME NEW m \in 1..12, NEW d \in {1, 28, 29}, d <= MonthLength(2024, m)
      PROVE  LET birthdays == {y \in 2025..Year : Ordinal(y, m, 1) + d - 1 <= Today} IN
             Year > 2024 => Age(2024, m, d) = Cardinality(birthdays)
  <2>1. d \in 1..29
    OBVIOUS
  <2>2. Year > 2024 => Age(2024, m, d) = Cardinality(Birthdays(m, d))
    BY <2>1, AgeIs
  <2>. QED  BY <2>2 DEF Birthday, Birthdays
<1>3. \A m \in 1..12 : DateOf(Year, m, DaysIn(m)) # NoDay /\ DateOf(Year, m, DaysIn(m) + 1) = NoDay
  BY DaysOfMonths
<1>4. /\ NextLeapYear > Year /\ DateOf(NextLeapYear, 2, 29) # NoDay
      /\ \A y \in (Year + 1)..(NextLeapYear - 1) : DateOf(y, 2, 29) = NoDay
  BY LeapYearIsNext
<1>5. Weekday(Today + DaysToWeekend) \in 5..6 /\ (DaysToWeekend > 0 => Weekday(Today + DaysToWeekend - 1) = 4)
  BY WeekendIs
<1>6. /\ NamedHoliday > Today
      /\ \A h \in NamedHolidays, y \in Around : DayOf(h, y) > Today => NamedHoliday <= DayOf(h, y)
  BY NamedHolidayIs
<1>. QED  BY <1>1, <1>2, <1>3, <1>4, <1>5, <1>6 DEF FactsAreCounted

\* What an hour, minutes and a half of the day are read as.
LEMMA ClockIs ==
  ASSUME NEW hr \in 0..25, NEW minute \in 0..60, NEW half \in {"am", "pm", "none"}, NEW had \in BOOLEAN
  PROVE  LET time == NormaliseClock(hr, minute, half, had) IN
         IF hr > 23 \/ minute > 59 \/ (half # NoHalf /\ hr \notin 1..12) THEN time = NoTime
         ELSE \E h \in 0..23 : /\ time = 60 * h + minute /\ minute \in 0..59
                               /\ h = hr \/ h = hr - 12 \/ h = hr + 12
                               /\ half = "am" => h < 12
                               /\ half = "pm" => h >= 12
                               /\ half = NoHalf /\ ~had /\ hr \in 1..12 => h \in 7..18
<1>. DEFINE time == NormaliseClock(hr, minute, half, had)
            bad == hr > 23 \/ minute > 59 \/ (half # NoHalf /\ hr \notin 1..12)
            Right(h) == /\ time = 60 * h + minute /\ minute \in 0..59
                        /\ h = hr \/ h = hr - 12 \/ h = hr + 12
                        /\ half = "am" => h < 12
                        /\ half = "pm" => h >= 12
                        /\ half = NoHalf /\ ~had /\ hr \in 1..12 => h \in 7..18
<1>1. CASE bad
  <2>1. time = NoTime
    BY <1>1 DEF NormaliseClock
  <2>. QED  BY <1>1, <2>1
<1>2. CASE ~bad /\ half # NoHalf
  <2>. DEFINE h == (hr % 12) + (IF half = "pm" THEN 12 ELSE 0)
  <2>1. time = 60 * h + minute
    BY <1>2 DEF NormaliseClock
  <2>2. hr \in 1..12 /\ minute \in 0..59 /\ half \in {"am", "pm"}
    BY <1>2 DEF NoHalf
  <2>3. hr % 12 = IF hr = 12 THEN 0 ELSE hr
    BY <2>2
  <2>4. h \in 0..23 /\ (h = hr \/ h = hr - 12 \/ h = hr + 12)
    BY <2>2, <2>3
  <2>5. (half = "am" => h < 12) /\ (half = "pm" => h >= 12)
    BY <2>2, <2>3
  <2>. HIDE DEF h, time
  <2>6. Right(h)
    BY <1>2, <2>1, <2>2, <2>4, <2>5
  <2>. QED  BY <1>2, <2>4, <2>6 DEF time
<1>3. CASE ~bad /\ half = NoHalf /\ ~had /\ hr \in 1..6
  <2>1. time = 60 * (hr + 12) + minute
    BY <1>3 DEF NormaliseClock
  <2>2. Right(hr + 12) /\ hr + 12 \in 0..23
    BY <1>3, <2>1 DEF NoHalf
  <2>. QED  BY <1>3, <2>2
<1>4. CASE ~bad /\ half = NoHalf /\ ~(~had /\ hr \in 1..6)
  <2>1. time = 60 * hr + minute
    BY <1>4 DEF NormaliseClock
  <2>2. Right(hr) /\ hr \in 0..23
    BY <1>4, <2>1 DEF NoHalf
  <2>. QED  BY <1>4, <2>2
<1>. QED  BY <1>1, <1>2, <1>3, <1>4

OnClock(h, minute) == 60 * h + minute
DayMinutes == 0..1439
Near(h, hr) == h = hr \/ h = hr - 12 \/ h = hr + 12

LEMMA ClockInDay == \A h \in 0..23, minute \in 0..59 : OnClock(h, minute) \in DayMinutes
BY DEF OnClock, DayMinutes

LEMMA ShownAt ==
  ASSUME NEW hr \in Int, NEW minute \in 0..59, NEW h \in 0..23, Near(h, hr)
  PROVE  Shows(OnClock(h, minute), hr, minute)
<1>1. OnClock(h, minute) = 60 * h + minute
  BY DEF OnClock
<1>2. (60 * h + minute) \div 60 = h /\ (60 * h + minute) % 60 = minute
  OBVIOUS
<1>3. (h - hr) % 12 = 0
  BY DEF Near
<1>. QED  BY <1>1, <1>2, <1>3 DEF Shows

LEMMA TimesAreRead ==
  ASSUME NEW hr \in 0..25, NEW minute \in 0..60,
         NEW half \in {"am", "pm", "none"}, NEW around \in {"am", "pm", "none"}, NEW default \in {"am", "pm", "none"}
  PROVE  IsRead(hr, minute, half, around, default)
<1>. DEFINE time == FindTime([hour |-> hr, minute |-> minute, half |-> half, hadMinutes |-> minute # 0], around, default)
            chosen == IF half # NoHalf \/ hr \notin 1..12 THEN half ELSE IF around # NoHalf THEN around ELSE default
            bad == hr > 23 \/ minute > 59 \/ (half # NoHalf /\ hr \notin 1..12)
            had == minute # 0
<1>1. time = NormaliseClock(hr, minute, chosen, had)
  BY DEF FindTime
<1>2. chosen \in {"am", "pm", "none"} /\ had \in BOOLEAN /\ minute \in 0..60 /\ hr \in Int
  OBVIOUS
<1>9. minute = 0 => ~had
  OBVIOUS
<1>3. (chosen # NoHalf /\ hr \notin 1..12) <=> (half # NoHalf /\ hr \notin 1..12)
  OBVIOUS
<1>4. half # NoHalf => chosen = half
  OBVIOUS
<1>5. hr \in 1..12 /\ half = NoHalf /\ around # NoHalf => chosen = around
  OBVIOUS
<1>6. half = NoHalf /\ around = NoHalf /\ default = NoHalf => chosen = NoHalf
  OBVIOUS
<1>. HIDE DEF time, chosen, had
<1>7. CASE bad
  <2>1. time = NoTime
    BY <1>1, <1>2, <1>3, <1>7, ClockIs
  <2>. QED  BY <1>7, <2>1 DEF time, IsRead
<1>8. CASE ~bad
  <2>1. PICK h \in 0..23 : /\ time = 60 * h + minute /\ minute \in 0..59
                           /\ h = hr \/ h = hr - 12 \/ h = hr + 12
                           /\ chosen = "am" => h < 12
                           /\ chosen = "pm" => h >= 12
                           /\ chosen = NoHalf /\ ~had /\ hr \in 1..12 => h \in 7..18
    <3>1. LET t == NormaliseClock(hr, minute, chosen, had) IN
          IF hr > 23 \/ minute > 59 \/ (chosen # NoHalf /\ hr \notin 1..12) THEN t = NoTime
          ELSE \E h \in 0..23 : /\ t = 60 * h + minute /\ minute \in 0..59
                                /\ h = hr \/ h = hr - 12 \/ h = hr + 12
                                /\ chosen = "am" => h < 12
                                /\ chosen = "pm" => h >= 12
                                /\ chosen = NoHalf /\ ~had /\ hr \in 1..12 => h \in 7..18
      BY <1>2, ClockIs
    <3>. QED  BY <1>1, <1>3, <1>8, <3>1
  <2>2. time \in 0..1439 /\ Shows(time, hr, minute)
    <3>1. Near(h, hr)
      BY <2>1 DEF Near
    <3>2. Shows(OnClock(h, minute), hr, minute) /\ OnClock(h, minute) \in DayMinutes
      BY <1>2, <2>1, <3>1, ShownAt, ClockInDay
    <3>. QED  BY <2>1, <3>2 DEF OnClock, DayMinutes
  <2>3. time # NoTime
    BY <2>2 DEF NoTime
  <2>4. chosen # NoHalf => (time >= 720 <=> chosen = "pm")
    BY <1>2, <2>1 DEF NoHalf
  <2>5. hr \in 1..12 /\ minute = 0 /\ chosen = NoHalf => time \in 420..1080
    BY <1>9, <2>1
  <2>6. hr \in 1..12 /\ half # NoHalf => (time >= 720 <=> half = "pm")
    BY <1>4, <2>4
  <2>7. hr \in 1..12 /\ half = NoHalf /\ around # NoHalf => (time >= 720 <=> around = "pm")
    BY <1>5, <2>4
  <2>. QED  BY <1>6, <1>8, <2>2, <2>3, <2>5, <2>6, <2>7 DEF time, IsRead
<1>. QED  BY <1>7, <1>8

\* A clock that shows a time in the half of the day it is read in, or in the other.
LEMMA ShownTwice ==
  ASSUME NEW v \in DayMinutes, NEW hr \in 1..12, NEW minute \in 0..59, Shows(v, hr, minute)
  PROVE  v = OnClock(hr % 12, minute) \/ v = OnClock((hr % 12) + 12, minute)
<1>. DEFINE q == v \div 60
            r == hr % 12
<1>1. q \in 0..23 /\ v = 60 * q + (v % 60)
  <2>1. v \in Int /\ v >= 0 /\ v <= 1439 /\ 60 \in Nat \ {0}
    BY DEF DayMinutes
  <2>2. q \in Int /\ 60 * q <= v /\ v < 60 * q + 60 /\ v % 60 = v - 60 * q
    BY <2>1, IntDivision
  <2>. HIDE DEF q
  <2>. QED  BY <2>1, <2>2
<1>2. (q - hr) % 12 = 0 /\ v % 60 = minute
  BY DEF Shows
<1>. HIDE DEF q
<1>3. r = (IF hr = 12 THEN 0 ELSE hr) /\ r \in Int
  OBVIOUS
<1>4. q = hr \/ q = hr - 12 \/ q = hr + 12
  <2>1. q - hr \in Int /\ 12 \in Nat \ {0} /\ q - hr \in -12..22
    BY <1>1
  <2>. DEFINE k == (q - hr) \div 12
  <2>2. k \in Int /\ (q - hr) % 12 = q - hr - 12 * k
    BY <2>1, IntDivision
  <2>. HIDE DEF k
  <2>. QED  BY <1>1, <1>2, <2>1, <2>2
<1>. HIDE DEF r
<1>5. q = r \/ q = r + 12
  BY <1>1, <1>3, <1>4
<1>6. v = OnClock(r, minute) \/ v = OnClock(r + 12, minute)
  BY <1>1, <1>2, <1>3, <1>5 DEF OnClock
<1>. QED  BY <1>6 DEF r

\* The next moment of a time of day.
LEMMA TimeAtIs ==
  ASSUME DatesTypeOK, NEW time \in DayMinutes, NEW clock \in DayMinutes
  PROVE  /\ TimeAt(time, clock) \in Int /\ TimeAt(time, clock) > Now(clock) /\ TimeAt(time, clock) % 1440 = time
         /\ Now(clock) \in Int /\ Now(clock) = 1440 * Today + clock
         /\ \A x \in Int : x > Now(clock) /\ x % 1440 = time => TimeAt(time, clock) <= x
<1>1. Today \in Int /\ time \in 0..1439 /\ clock \in 0..1439
  BY TodayIs DEF DayMinutes
<1>2. TimeAt(time, clock) = (IF time <= clock THEN 1440 * (Today + 1) + time ELSE 1440 * Today + time)
      /\ Now(clock) = 1440 * Today + clock
  BY DEF TimeAt, Moment, Now
<1>3. (1440 * (Today + 1) + time) % 1440 = time /\ (1440 * Today + time) % 1440 = time
  BY <1>1
<1>4. ASSUME NEW x \in Int, x > Now(clock), x % 1440 = time PROVE TimeAt(time, clock) <= x
  <2>. DEFINE k == x \div 1440
  <2>1. k \in Int /\ x = 1440 * k + time
    BY <1>4
  <2>. HIDE DEF k
  <2>. QED  BY <1>1, <1>2, <1>4, <2>1
<1>. QED  BY <1>1, <1>2, <1>3, <1>4

UntilIn(hr, minute, half) ==
  FindTime([hour |-> hr, minute |-> minute, half |-> NoHalf, hadMinutes |-> TRUE], NoHalf, half)

LEMMA UntilInIs ==
  ASSUME NEW hr \in 0..23, NEW minute \in 0..59
  PROVE  /\ \A half \in {"am", "pm"} : UntilIn(hr, minute, half) \in DayMinutes /\ Shows(UntilIn(hr, minute, half), hr, minute)
         /\ hr \in 1..12 => /\ UntilIn(hr, minute, "am") = OnClock(hr % 12, minute)
                              /\ UntilIn(hr, minute, "pm") = OnClock((hr % 12) + 12, minute)
<1>0. hr \in Int
  OBVIOUS
<1>1. \A half : UntilIn(hr, minute, half) = NormaliseClock(hr, minute, IF hr \notin 1..12 THEN NoHalf ELSE half, TRUE)
  BY DEF UntilIn, FindTime
<1>2. CASE hr \notin 1..12
  <2>1. \A half : UntilIn(hr, minute, half) = OnClock(hr, minute)
    BY <1>1, <1>2 DEF NormaliseClock, OnClock
  <2>2. Shows(OnClock(hr, minute), hr, minute) /\ OnClock(hr, minute) \in DayMinutes
    <3>1. Near(hr, hr)
      BY DEF Near
    <3>. QED  BY <1>0, <3>1, ShownAt, ClockInDay
  <2>. QED  BY <1>2, <2>1, <2>2
<1>3. CASE hr \in 1..12
  <2>. DEFINE h == hr % 12
              g == (hr % 12) + 12
  <2>1. UntilIn(hr, minute, "am") = OnClock((hr % 12) + 0, minute)
    BY <1>1, <1>3 DEF NormaliseClock, NoHalf, OnClock
  <2>2. UntilIn(hr, minute, "pm") = OnClock(g, minute)
    BY <1>1, <1>3 DEF NormaliseClock, NoHalf, OnClock
  <2>3. h \in 0..23 /\ g \in 0..23 /\ h + 0 = h
    OBVIOUS
  <2>4. Near(h, hr) /\ Near(g, hr)
    BY <1>3 DEF Near
  <2>5. UntilIn(hr, minute, "am") = OnClock(h, minute)
    BY <2>1, <2>3
  <2>6. Shows(OnClock(h, minute), hr, minute) /\ OnClock(h, minute) \in DayMinutes
    <3>. HIDE DEF h, g
    <3>. QED  BY <1>0, <2>3, <2>4, ShownAt, ClockInDay
  <2>7. Shows(OnClock(g, minute), hr, minute) /\ OnClock(g, minute) \in DayMinutes
    <3>. HIDE DEF h, g
    <3>. QED  BY <1>0, <2>3, <2>4, ShownAt, ClockInDay
  <2>8. \A half \in {"am", "pm"} : UntilIn(hr, minute, half) \in DayMinutes /\ Shows(UntilIn(hr, minute, half), hr, minute)
    <3>. HIDE DEF h, g
    <3>. QED  BY <2>2, <2>5, <2>6, <2>7
  <2>. QED  BY <2>2, <2>5, <2>8
<1>. QED  BY <1>2, <1>3

\* What is counted down to is the next time that a clock shows it.
LEMMA UntilTimeIs ==
  ASSUME DatesTypeOK, NEW hr \in 0..23, NEW minute \in 0..59, NEW clock \in DayMinutes
  PROVE  IsCountedTo(hr, minute, clock)
<1>. DEFINE am == UntilIn(hr, minute, "am")
            pm == UntilIn(hr, minute, "pm")
            first == TimeAt(am, clock)
            second == TimeAt(pm, clock)
            at == UntilTime(hr, minute, clock)
            asOf == Now(clock)
<1>1. /\ am \in DayMinutes /\ Shows(am, hr, minute) /\ pm \in DayMinutes /\ Shows(pm, hr, minute)
      /\ hr \in 1..12 => am = OnClock(hr % 12, minute) /\ pm = OnClock((hr % 12) + 12, minute)
  BY UntilInIs
<1>2. at = Min({first, second})
  <2>1. {TimeAt(UntilIn(hr, minute, half), clock) : half \in {"am", "pm"}} = {first, second}
    OBVIOUS
  <2>2. at = Min({TimeAt(UntilIn(hr, minute, half), clock) : half \in {"am", "pm"}})
    BY DEF UntilTime, UntilIn
  <2>. QED  BY <2>1, <2>2
<1>. HIDE DEF am, pm, at
<1>3. /\ first \in Int /\ first > asOf /\ first % 1440 = am /\ asOf \in Int
      /\ \A x \in Int : x > asOf /\ x % 1440 = am => first <= x
  BY <1>1, TimeAtIs
<1>4. /\ second \in Int /\ second > asOf /\ second % 1440 = pm
      /\ \A x \in Int : x > asOf /\ x % 1440 = pm => second <= x
  BY <1>1, TimeAtIs
<1>. HIDE DEF first, second, asOf
<1>5. at = IF first <= second THEN first ELSE second
  BY <1>2, <1>3, <1>4, MinOfTwo
<1>6. at > asOf /\ Shows(at % 1440, hr, minute) /\ at <= first /\ at <= second /\ at \in Int
  BY <1>1, <1>3, <1>4, <1>5
<1>7. ASSUME NEW later \in 1..(at - asOf - 1), hr \in 1..12, Shows((asOf + later) % 1440, hr, minute) PROVE FALSE
  <2>. DEFINE x == asOf + later
              v == x % 1440
  <2>1. x \in Int /\ x > asOf /\ x < at
    BY <1>3, <1>6
  <2>2. v \in DayMinutes
    BY <2>1 DEF DayMinutes
  <2>3. Shows(v, hr, minute)
    BY <1>7
  <2>. HIDE DEF x
  <2>4. v = am \/ v = pm
    <3>. HIDE DEF v
    <3>1. v = OnClock(hr % 12, minute) \/ v = OnClock((hr % 12) + 12, minute)
      BY <1>7, <2>2, <2>3, ShownTwice
    <3>. QED  BY <1>1, <1>7, <3>1
  <2>5. first <= x \/ second <= x
    BY <1>3, <1>4, <2>1, <2>4
  <2>. QED  BY <1>3, <1>4, <1>6, <2>1, <2>5
<1>. QED  BY <1>6, <1>7 DEF at, asOf, IsCountedTo

LEMMA SpansAdd ==
  ASSUME NEW minutes \in Nat, NEW unit \in {"days", "hours", "minutes"}
  PROVE  SpanAddsUp(minutes, unit)
<1>. DEFINE d == IF unit = "hours" THEN 0 ELSE minutes \div 1440
            rest == minutes - 1440 * d
<1>1. d \in Int /\ rest \in Int /\ (unit = "days" => rest < 1440) /\ rest >= 0
  <2>1. minutes \in Int /\ 1440 \in Nat \ {0}
    OBVIOUS
  <2>2. minutes \div 1440 \in Int /\ 1440 * (minutes \div 1440) <= minutes /\ minutes < 1440 * (minutes \div 1440) + 1440
    BY <2>1, IntDivision
  <2>. QED  BY <2>2
<1>2. SpanText(minutes, unit) = IF unit = "minutes" THEN <<0, 0, minutes>> ELSE <<d, rest \div 60, rest % 60>>
  BY DEF SpanText
<1>3. rest = minutes - 1440 * d
  OBVIOUS
<1>. HIDE DEF d, rest
<1>4. rest \div 60 \in Int /\ 60 * (rest \div 60) <= rest /\ rest % 60 = rest - 60 * (rest \div 60) /\ rest % 60 \in 0..59
  <2>1. 60 \in Nat \ {0}
    OBVIOUS
  <2>2. rest \div 60 \in Int /\ 60 * (rest \div 60) <= rest /\ rest % 60 = rest - 60 * (rest \div 60) /\ rest % 60 \in 0..(60 - 1)
    BY <1>1, <2>1, IntDivision
  <2>. QED  BY <2>2
<1>. DEFINE h == rest \div 60
            m == rest % 60
<1>5. CASE unit = "minutes"
  BY <1>2, <1>5 DEF SpanAddsUp
<1>6. CASE unit # "minutes"
  <2>1. h \in Int /\ m \in Int /\ 60 * h <= rest /\ m = rest - 60 * h /\ m < 60
    BY <1>4
  <2>2. SpanText(minutes, unit) = <<d, h, m>>
    BY <1>2, <1>6
  <2>. HIDE DEF h, m
  <2>3. 1440 * d + 60 * h + m = minutes
    BY <1>1, <1>3, <2>1
  <2>4. unit = "days" => h < 24 /\ m < 60
    BY <1>1, <2>1
  <2>. QED  BY <2>2, <2>3, <2>4 DEF SpanAddsUp
<1>. QED  BY <1>5, <1>6

\* An hour is read in the half of the day that was said, and shows as it was said.
LEMMA EveryClockIsRead == ASSUME DatesTypeOK PROVE ClocksAreRead
<1>1. \A hr \in 1..12 : ((60 * QuarterTo(hr)[1]) + QuarterTo(hr)[2] + 15 - (60 * hr)) % 720 = 0
  <2>. SUFFICES ASSUME NEW hr \in 1..12
                PROVE  ((60 * QuarterTo(hr)[1]) + QuarterTo(hr)[2] + 15 - (60 * hr)) % 720 = 0
    OBVIOUS
  <2>. DEFINE q == (hr - 2) % 12
  <2>1. QuarterTo(hr)[1] = q + 1 /\ QuarterTo(hr)[2] = 45
    BY DEF QuarterTo
  <2>2. q = IF hr = 1 THEN 11 ELSE hr - 2
    OBVIOUS
  <2>. HIDE DEF q
  <2>3. (60 * (q + 1)) + 45 + 15 - (60 * hr) = IF hr = 1 THEN 720 ELSE 0
    BY <2>2
  <2>. QED  BY <2>1, <2>3
<1>2. ASSUME NEW minutes \in {1, 59, 60, 1439, 1440, 1505, 10080}, NEW unit \in {"days", "hours", "minutes"}
      PROVE  SpanAddsUp(minutes, unit)
  <2>1. minutes \in Nat
    OBVIOUS
  <2>. QED  BY <2>1, SpansAdd
<1>3. InDuration(0, 0) = NoTime /\ InDuration(1430, 20) = Moment(Today + 1, 10)
  <2>1. Today \in Int
    BY TodayIs
  <2>. QED  BY <2>1 DEF InDuration, NoTime, Now, Moment
<1>4. ASSUME NEW hr \in 0..23, NEW minute \in {0, 30}, NEW clock \in {0, 90, 570, 1170, 1439}
      PROVE  IsCountedTo(hr, minute, clock)
  <2>1. minute \in 0..59 /\ clock \in DayMinutes
    BY DEF DayMinutes
  <2>. QED  BY <2>1, UntilTimeIs
<1>5. ASSUME NEW hr \in 0..25, NEW minute \in {0, 15, 59, 60}, NEW half \in Halves \cup {NoHalf},
             NEW around \in Halves \cup {NoHalf}, NEW default \in Halves \cup {NoHalf}
      PROVE  IsRead(hr, minute, half, around, default)
  <2>1. half \in {"am", "pm", "none"} /\ around \in {"am", "pm", "none"} /\ default \in {"am", "pm", "none"}
    BY DEF Halves, NoHalf
  <2>2. minute \in 0..60
    OBVIOUS
  <2>. QED  BY <2>1, <2>2, TimesAreRead
<1>6. \A hr \in 0..25, minute \in {0, 15, 59, 60}, half, around, default \in Halves \cup {NoHalf} :
        IsRead(hr, minute, half, around, default)
  BY <1>5
<1>7. \A hr \in 0..23, minute \in {0, 30}, clock \in {0, 90, 570, 1170, 1439} : IsCountedTo(hr, minute, clock)
  BY <1>4
<1>8. \A minutes \in {1, 59, 60, 1439, 1440, 1505, 10080}, unit \in {"days", "hours", "minutes"} :
        SpanAddsUp(minutes, unit)
  BY <1>2
<1>. QED  BY <1>1, <1>3, <1>6, <1>7, <1>8 DEF ClocksAreRead

\* Every answer about a date is the next day that fits.
LEMMA EveryDateIsCounted == ASSUME DatesTypeOK PROVE DatesAreCounted
<1>1. Year \in Nat
  BY TodayIs
<1>2. \A y \in EasterYears : y \in Nat
  BY DatesAssumption
<1>3. EasterIsRight(Year) /\ \A y \in EasterYears : EasterIsRight(y)
  BY <1>1, <1>2, EasterIsTheSunday
<1>. QED
  BY <1>3, EveryWeekdayIsCounted, NothingIsPassedOver, EveryMonthIsCounted, EveryMomentIsNext, EveryClockIsRead,
     EveryDayReadsBack, EveryYearIsKept, EveryFactIsCounted DEF DatesAreCounted
-----------------------------------------------------------------------------
\* Watches


\* What the threads of this watch are still to tell is told once, and not shown before.
TellApart ==
  /\ silent => Tellers = {}
  /\ \A m \in Tellers : minder[m].titles \cap heard = {}
  /\ \A m, o \in Tellers : m # o => minder[m].titles \cap minder[o].titles = {}

\* The entry remembers what was told, is to be told or was lost, and whether anything was read.
Synced == news.seeded = ~silent /\ news.seen = heard \cup lost \cup Pending /\ TellApart

\* Unless two of them overlapped, one request at most starts or ends the watch; while there is a
\* watch, or one is about to be added, its entry fits; and who ends it knows of every job.
NewsInv ==
  ~crossed =>
    /\ \A m, o \in Minders : Requesting(m) /\ Requesting(o) => m = o
    /\ watchJobs # {} \/ (\E m \in Minders : Minds(m, "adding")) => Synced
    /\ \A m \in Minders : /\ Minds(m, "ending") => watchJobs \subseteq minder[m].jobs
                          /\ Minds(m, "forgetting") => watchJobs = {}

\* The time that is kept of a kind is that of its latest warning.
HealthInv ==
  \A w \in warnings : healthEntry.last[w[1]] # NotWarned /\ w[2] <= healthEntry.last[w[1]]

WatchesInv == WatchesTypeOK /\ NewsInv /\ HealthInv /\ WarnsAreApart

LEMMA WatchTypes ==
  /\ AtRest \in Minder /\ NoNews \in [there: BOOLEAN, seeded: BOOLEAN, seen: SUBSET Headlines]
  /\ NoHealth \in [cpuHigh: BOOLEAN, last: [Kinds -> 0..NotWarned]]
  /\ MaxHours \in Nat /\ MaxWatches \in Nat /\ QuietFor \in Nat /\ NotWarned = MaxHours + 1
<1>1. MaxHours \in Nat /\ MaxWatches \in Nat /\ QuietFor \in Nat /\ NotWarned = MaxHours + 1
  BY WatchesAssumption DEF NotWarned
<1>2. 0 \in 0..MaxHours /\ NotWarned \in 0..NotWarned
  BY <1>1
<1>3. AtRest \in Minder
  BY <1>2 DEF AtRest, Minder, MinderSteps
<1>4. NoHealth \in [cpuHigh: BOOLEAN, last: [Kinds -> 0..NotWarned]]
  BY <1>2 DEF NoHealth
<1>. QED  BY <1>1, <1>3, <1>4 DEF NoNews

\* A thread that goes on to another step.
LEMMA MinderMoves ==
  ASSUME WatchesTypeOK, NEW m \in Minders, NEW s \in Minder, GoesTo(m, s)
  PROVE  /\ minder' \in [Minders -> Minder] /\ minder'[m] = s
         /\ \A o \in Minders \ {m} : minder'[o] = minder[o]
BY DEF GoesTo, WatchesTypeOK

\* What is late is what it was, and what is to be told too, when nobody comes to tell or leaves.
LEMMA LateStays ==
  ASSUME WatchesTypeOK, NEW m \in Minders, NEW s \in Minder, GoesTo(m, s), ~Minds(m, "telling"), lagging' = lagging
  PROVE  lagging' \subseteq {o \in Minders : minder'[o].step = "telling"}
BY MinderMoves DEF WatchesTypeOK, Minds

LEMMA TellersStay ==
  ASSUME lagging' = lagging,
         \A o \in Minders : minder'[o] = minder[o] \/ (~Minds(o, "telling") /\ ~Minds(o, "telling")')
  PROVE  Tellers' = Tellers /\ Pending' = Pending /\ \A o \in Tellers : minder'[o] = minder[o]
<1>1. \A o \in Minders : /\ Minds(o, "telling")' <=> Minds(o, "telling")
                         /\ Minds(o, "telling") => minder'[o] = minder[o]
  BY DEF Minds
<1>2. Tellers' = Tellers /\ \A o \in Tellers : minder'[o] = minder[o]
  BY <1>1 DEF Tellers
<1>3. {minder'[o].titles : o \in Tellers} = {minder[o].titles : o \in Tellers}
  BY <1>2
<1>. QED  BY <1>2, <1>3 DEF Pending

LEMMA SyncedStays ==
  ASSUME Synced, UNCHANGED <<news, heard, lost, lagging, silent>>,
         \A o \in Minders : minder'[o] = minder[o] \/ (~Minds(o, "telling") /\ ~Minds(o, "telling")')
  PROVE  Synced'
BY TellersStay DEF Synced, TellApart

LEMMA WatchesStart == WatchesInit => WatchesInv
<1>. SUFFICES ASSUME WatchesInit PROVE WatchesInv
  OBVIOUS
<1>1. 0 \in 0..MaxHours /\ 0 \in 0..MaxWatches
  BY WatchTypes
<1>2. WatchesTypeOK
  BY <1>1, WatchTypes DEF WatchesInit, WatchesTypeOK
<1>3. \A m \in Minders : minder[m].step = "idle"
  BY DEF WatchesInit, AtRest
<1>4. NewsInv
  BY <1>3 DEF WatchesInit, NewsInv, Requesting, Minds
<1>5. HealthInv /\ WarnsAreApart
  BY DEF WatchesInit, HealthInv, WarnsAreApart
<1>. QED  BY <1>2, <1>4, <1>5 DEF WatchesInv

\* A step of the news leaves what is known of the laptop's health.
LEMMA HealthStays ==
  ASSUME WatchesInv, UNCHANGED TheHealth PROVE HealthInv' /\ WarnsAreApart'
<1>1. healthEntry' = healthEntry /\ warnings' = warnings
  BY DEF TheHealth
<1>. QED  BY <1>1 DEF WatchesInv, HealthInv, WarnsAreApart

\* A step that neither begins nor ends anything of the watch.
LEMMA NewsStays ==
  ASSUME WatchesInv, UNCHANGED TheNews, NEW m \in Minders, NEW s \in Minder, GoesTo(m, s),
         ~Minds(m, "telling"), s.step \in {"idle", "seeding", "checking", "judging", "warning"},
         s.step = "seeding" => Requesting(m)
  PROVE  NewsInv'
<1>1. /\ minder'[m] = s /\ \A o \in Minders \ {m} : minder'[o] = minder[o]
  BY MinderMoves DEF WatchesInv
<1>2. UNCHANGED <<watchJobs, news, heard, lost, lagging, silent, crossed>>
  BY DEF TheNews, NewsHistory
<1>3. \A o \in Minders : /\ Requesting(o)' => Requesting(o)
                         /\ Minds(o, "adding")' => Minds(o, "adding")
                         /\ Minds(o, "ending")' => Minds(o, "ending") /\ minder'[o].jobs = minder[o].jobs
                         /\ Minds(o, "forgetting")' => Minds(o, "forgetting")
  BY <1>1 DEF Requesting, Minds
<1>4. \A o \in Minders : minder'[o] = minder[o] \/ (~Minds(o, "telling") /\ ~Minds(o, "telling")')
  BY <1>1 DEF Minds
<1>5. Synced => Synced'
  BY <1>2, <1>4, SyncedStays
<1>. QED  BY <1>2, <1>3, <1>5 DEF WatchesInv, NewsInv

LEMMA WorldStep == ASSUME WatchesInv, World PROVE WatchesInv'
<1>1. UNCHANGED <<subject, watchJobs, everAdded, news, heard, lost, lagging, silent, crossed, healthEntry, warnings, minder>>
  BY DEF World, TheNews, NewsHistory, TheHealth
<1>2. hour' \in 0..MaxHours /\ feed' \subseteq Headlines
  BY WatchTypes DEF World, WatchesInv, WatchesTypeOK
<1>3. WatchesTypeOK'
  BY <1>1, <1>2 DEF WatchesInv, WatchesTypeOK
<1>4. NewsInv'
  <2>1. Synced => Synced'
    BY <1>1, SyncedStays
  <2>. QED  BY <1>1, <2>1 DEF WatchesInv, NewsInv, Requesting, Minds
<1>5. HealthInv' /\ WarnsAreApart'
  BY HealthStays, <1>1 DEF TheHealth
<1>. QED  BY <1>3, <1>4, <1>5 DEF WatchesInv

\* A request to start or end the watch begins.
LEMMA RequestBegins ==
  ASSUME WatchesInv, NEW m \in Minders, WatchNews(m) \/ Unwatch(m) PROVE WatchesInv'
<1>1. PICK s \in Minder : /\ GoesTo(m, s) /\ s.step \in {"starting", "ending"}
                          /\ s.step = "ending" => s.jobs = watchJobs
  <2>1. watchJobs \in SUBSET WatchJobs
    BY DEF WatchesInv, WatchesTypeOK
  <2>2. [AtRest EXCEPT !.step = "starting"] \in Minder
    BY WatchTypes DEF Minder, MinderSteps
  <2>3. [AtRest EXCEPT !.step = "ending", !.jobs = watchJobs] \in Minder
    BY WatchTypes, <2>1 DEF Minder, MinderSteps
  <2>4. /\ [AtRest EXCEPT !.step = "starting"].step = "starting"
        /\ [AtRest EXCEPT !.step = "ending", !.jobs = watchJobs].step = "ending"
        /\ [AtRest EXCEPT !.step = "ending", !.jobs = watchJobs].jobs = watchJobs
    BY DEF AtRest
  <2>. QED  BY <2>2, <2>3, <2>4 DEF WatchNews, Unwatch
<1>2. /\ UNCHANGED <<subject, feed, hour, watchJobs, everAdded, news, heard, lost, lagging, silent, TheHealth>>
      /\ Minds(m, "idle") /\ Crosses(m)
  BY DEF WatchNews, Unwatch
<1>3. /\ minder' \in [Minders -> Minder] /\ minder'[m] = s
      /\ \A o \in Minders \ {m} : minder'[o] = minder[o]
  BY <1>1, MinderMoves DEF WatchesInv
<1>4. crossed' \in BOOLEAN
  BY <1>2 DEF Crosses
<1>5. WatchesTypeOK'
  <2>1. lagging' \subseteq {o \in Minders : minder'[o].step = "telling"}
    BY <1>1, <1>2, LateStays DEF WatchesInv, Minds
  <2>. QED  BY <1>2, <1>3, <1>4, <2>1 DEF WatchesInv, WatchesTypeOK, TheHealth
<1>6. NewsInv'
  <2>. SUFFICES ASSUME ~crossed' PROVE NewsInv'
    BY DEF NewsInv
  <2>1. ~crossed /\ \A o \in Minders \ {m} : ~Requesting(o) /\ ~Requesting(o)'
    BY <1>2, <1>3 DEF Crosses, Requesting
  <2>2. \A o \in Minders \ {m} : ~Minds(o, "adding")' /\ ~Minds(o, "ending")' /\ ~Minds(o, "forgetting")'
    BY <2>1 DEF Requesting, Minds
  <2>3. ~Minds(m, "adding")' /\ ~Minds(m, "forgetting")' /\ (Minds(m, "ending")' => minder'[m].jobs = watchJobs')
    BY <1>1, <1>2, <1>3 DEF Minds
  <2>4. watchJobs' # {} => Synced'
    <3>1. \A o \in Minders : minder'[o] = minder[o] \/ (~Minds(o, "telling") /\ ~Minds(o, "telling")')
      BY <1>1, <1>2, <1>3 DEF Minds
    <3>2. Synced => Synced'
      BY <1>2, <3>1, SyncedStays
    <3>. QED  BY <1>2, <2>1, <3>2 DEF WatchesInv, NewsInv
  <2>. QED  BY <2>1, <2>2, <2>3, <2>4 DEF NewsInv
<1>7. HealthInv' /\ WarnsAreApart'
  BY <1>2, HealthStays
<1>. QED  BY <1>5, <1>6, <1>7 DEF WatchesInv

\* The headlines were read, or a check begins, or one with nothing to tell ends.
LEMMA PassingStep ==
  ASSUME WatchesInv, NEW m \in Minders,
         \/ \E titles \in Shown : ReadToStart(m, titles)
         \/ CheckNews(m) \/ NotifyHealth(m)
         \/ \E high \in SUBSET Kinds : CheckHealth(m, high)
  PROVE  WatchesInv'
<1>1. feed \in SUBSET Headlines /\ hour \in 0..MaxHours
  BY DEF WatchesInv, WatchesTypeOK
<1>2. PICK s \in Minder : /\ GoesTo(m, s) /\ s.step \in {"idle", "seeding", "checking", "judging", "warning"}
                          /\ s.step = "seeding" => Requesting(m)
  <2>1. ASSUME NEW titles \in Shown, ReadToStart(m, titles)
        PROVE  \E s \in Minder : GoesTo(m, s) /\ s.step = "seeding" /\ Requesting(m)
    <3>1. titles \in SUBSET Headlines
      BY <1>1 DEF Shown
    <3>2. /\ [AtRest EXCEPT !.step = "seeding", !.titles = titles] \in Minder
          /\ [AtRest EXCEPT !.step = "seeding", !.titles = titles].step = "seeding"
      BY WatchTypes, <3>1 DEF Minder, MinderSteps
    <3>3. GoesTo(m, [AtRest EXCEPT !.step = "seeding", !.titles = titles]) /\ Minds(m, "starting")
      BY <2>1, Zenon DEF ReadToStart
    <3>. QED  BY <3>2, <3>3 DEF Requesting, Minds
  <2>2. ASSUME CheckNews(m) PROVE \E s \in Minder : GoesTo(m, s) /\ s.step = "checking"
    <3>1. /\ [AtRest EXCEPT !.step = "checking", !.titles = feed] \in Minder
          /\ [AtRest EXCEPT !.step = "checking", !.titles = feed].step = "checking"
      BY WatchTypes, <1>1 DEF Minder, MinderSteps
    <3>. QED  BY <2>2, <3>1 DEF CheckNews
  <2>3. ASSUME NEW high \in SUBSET Kinds, CheckHealth(m, high)
        PROVE  \E s \in Minder : GoesTo(m, s) /\ s.step = "judging"
    <3>1. /\ [AtRest EXCEPT !.step = "judging", !.high = high, !.at = hour] \in Minder
          /\ [AtRest EXCEPT !.step = "judging", !.high = high, !.at = hour].step = "judging"
      BY WatchTypes, <1>1 DEF Minder, MinderSteps
    <3>2. GoesTo(m, [AtRest EXCEPT !.step = "judging", !.high = high, !.at = hour])
      BY <2>3, Zenon DEF CheckHealth
    <3>. QED  BY <3>1, <3>2
  <2>4. ASSUME NotifyHealth(m) PROVE \E s \in Minder : GoesTo(m, s) /\ s.step = "idle"
    BY <2>4, WatchTypes DEF NotifyHealth, Rests, AtRest
  <2>. QED  BY <2>1, <2>2, <2>3, <2>4
<1>3. UNCHANGED <<subject, feed, hour, TheNews, TheHealth>> /\ ~Minds(m, "telling")
  <2>1. UNCHANGED <<subject, feed, hour, TheNews, TheHealth>>
    BY Zenon DEF ReadToStart, CheckNews, NotifyHealth, CheckHealth
  <2>2. Minds(m, "starting") \/ Minds(m, "idle") \/ Minds(m, "warning")
    BY Zenon DEF ReadToStart, CheckNews, NotifyHealth, CheckHealth
  <2>. QED  BY <2>1, <2>2 DEF Minds
<1>4. /\ minder' \in [Minders -> Minder]
      /\ lagging' \subseteq {o \in Minders : minder'[o].step = "telling"}
  BY <1>2, <1>3, MinderMoves, LateStays DEF WatchesInv, TheNews, NewsHistory
<1>5. WatchesTypeOK'
  BY <1>3, <1>4 DEF WatchesInv, WatchesTypeOK, TheNews, NewsHistory, TheHealth
<1>. QED  BY <1>2, <1>3, <1>5, NewsStays, HealthStays DEF WatchesInv

LEMMA SeedStep == ASSUME WatchesInv, NEW m \in Minders, SeedEntry(m) PROVE WatchesInv'
<1>1. PICK s \in Minder : GoesTo(m, s) /\ s.step = "adding"
  <2>1. [AtRest EXCEPT !.step = "adding"] \in Minder /\ [AtRest EXCEPT !.step = "adding"].step = "adding"
    BY WatchTypes DEF Minder, MinderSteps
  <2>. QED  BY <2>1 DEF SeedEntry
<1>2. /\ minder' \in [Minders -> Minder] /\ minder'[m] = s
      /\ \A o \in Minders \ {m} : minder'[o] = minder[o]
  BY <1>1, MinderMoves DEF WatchesInv
<1>3. /\ UNCHANGED <<subject, feed, hour, watchJobs, everAdded, crossed>> /\ UNCHANGED TheHealth
      /\ Minds(m, "seeding") /\ news'.seeded = ~silent' /\ news'.seen = heard'
      /\ news' \in [there: BOOLEAN, seeded: BOOLEAN, seen: SUBSET Headlines]
      /\ heard' \subseteq Headlines /\ silent' \in BOOLEAN
      /\ lost' = {} /\ lagging' = {o \in Minders : Minds(o, "telling")}
  BY DEF SeedEntry, WatchesInv, WatchesTypeOK, Minder
<1>4. WatchesTypeOK'
  <2>1. lagging' \subseteq {o \in Minders : minder'[o].step = "telling"}
    BY <1>1, <1>2, <1>3 DEF Minds
  <2>. QED  BY <1>2, <1>3, <2>1 DEF WatchesInv, WatchesTypeOK, TheHealth
<1>5. \A o \in Minders : /\ Requesting(o)' => Requesting(o)
                         /\ Minds(o, "ending")' => Minds(o, "ending") /\ minder'[o].jobs = minder[o].jobs
                         /\ Minds(o, "forgetting")' => Minds(o, "forgetting")
  BY <1>1, <1>2, <1>3 DEF Requesting, Minds
<1>6. NewsInv'
  <2>1. Tellers' = {}
    BY <1>1, <1>2, <1>3 DEF Tellers, Minds
  <2>2. Synced'
    BY <1>3, <2>1 DEF Synced, Pending, TellApart
  <2>. QED  BY <1>3, <1>5, <2>2 DEF WatchesInv, NewsInv
<1>. QED  BY <1>3, <1>4, <1>6, HealthStays DEF WatchesInv

LEMMA AddStep == ASSUME WatchesInv, NEW m \in Minders, AddWatchJob(m) PROVE WatchesInv'
<1>1. /\ minder' \in [Minders -> Minder] /\ minder'[m] = AtRest
      /\ \A o \in Minders \ {m} : minder'[o] = minder[o]
  BY WatchTypes, MinderMoves DEF WatchesInv, AddWatchJob, Rests
<1>2. /\ UNCHANGED <<subject, feed, hour, news, heard, lost, lagging, silent, crossed>> /\ UNCHANGED TheHealth
      /\ Minds(m, "adding") /\ AtRest.step = "idle"
  BY DEF AddWatchJob, NewsHistory, AtRest
<1>3. everAdded' \in 0..MaxWatches /\ watchJobs' \subseteq WatchJobs
  BY WatchTypes DEF AddWatchJob, WatchesInv, WatchesTypeOK, WatchJobs
<1>4. WatchesTypeOK'
  <2>1. lagging' \subseteq {o \in Minders : minder'[o].step = "telling"}
    BY <1>1, <1>2 DEF WatchesInv, WatchesTypeOK, Minds
  <2>. QED  BY <1>1, <1>2, <1>3, <2>1 DEF WatchesInv, WatchesTypeOK, TheHealth
<1>5. NewsInv'
  <2>. SUFFICES ASSUME ~crossed PROVE NewsInv'
    BY <1>2 DEF NewsInv
  <2>1. Synced /\ \A o \in Minders \ {m} : ~Requesting(o)
    BY <1>2 DEF WatchesInv, NewsInv, Requesting, Minds
  <2>2. Synced'
    <3>1. \A o \in Minders : minder'[o] = minder[o] \/ (~Minds(o, "telling") /\ ~Minds(o, "telling")')
      BY <1>1, <1>2 DEF Minds
    <3>. QED  BY <1>2, <2>1, <3>1, SyncedStays
  <2>3. \A o \in Minders : ~Requesting(o)'
    BY <1>1, <1>2, <2>1 DEF Requesting
  <2>. QED  BY <2>2, <2>3 DEF NewsInv, Requesting, Minds
<1>. QED  BY <1>2, <1>4, <1>5, HealthStays DEF WatchesInv

LEMMA RemoveStep ==
  ASSUME WatchesInv, NEW m \in Minders, NEW j \in WatchJobs, RemoveWatchJob(m, j) PROVE WatchesInv'
<1>1. PICK left \in SUBSET WatchJobs : left = minder[m].jobs \ {j}
  BY DEF WatchesInv, WatchesTypeOK, Minder
<1>2. PICK s \in Minder : /\ GoesTo(m, s) /\ s.jobs = left
                          /\ s.step = IF left = {} THEN "forgetting" ELSE "ending"
  <2>1. minder[m] \in Minder
    BY DEF WatchesInv, WatchesTypeOK
  <2>2. DEFINE goal == [minder[m] EXCEPT !.jobs = left, !.step = IF left = {} THEN "forgetting" ELSE "ending"]
  <2>3. goal \in Minder /\ goal.jobs = left /\ goal.step = IF left = {} THEN "forgetting" ELSE "ending"
    <3>1. \A step \in {"forgetting", "ending"} : /\ [minder[m] EXCEPT !.jobs = left, !.step = step] \in Minder
                                                /\ [minder[m] EXCEPT !.jobs = left, !.step = step].jobs = left
                                                /\ [minder[m] EXCEPT !.jobs = left, !.step = step].step = step
      BY <2>1 DEF Minder, MinderSteps
    <3>. QED  BY <3>1
  <2>4. GoesTo(m, goal)
    BY <1>1 DEF RemoveWatchJob
  <2>. QED  BY <2>3, <2>4
<1>3. /\ minder' \in [Minders -> Minder] /\ minder'[m] = s
      /\ \A o \in Minders \ {m} : minder'[o] = minder[o]
  BY <1>2, MinderMoves DEF WatchesInv
<1>4. /\ UNCHANGED <<subject, feed, hour, everAdded, news, heard, lost, lagging, silent, crossed>> /\ UNCHANGED TheHealth
      /\ Minds(m, "ending") /\ watchJobs' = watchJobs \ {j}
  BY DEF RemoveWatchJob, NewsHistory
<1>5. WatchesTypeOK'
  <2>1. lagging' \subseteq {o \in Minders : minder'[o].step = "telling"}
    BY <1>3, <1>4 DEF WatchesInv, WatchesTypeOK, Minds
  <2>. QED  BY <1>3, <1>4, <2>1 DEF WatchesInv, WatchesTypeOK, TheHealth
<1>6. NewsInv'
  <2>. SUFFICES ASSUME ~crossed PROVE NewsInv'
    BY <1>4 DEF NewsInv
  <2>1. watchJobs \subseteq minder[m].jobs /\ \A o \in Minders \ {m} : ~Requesting(o)
    BY <1>4 DEF WatchesInv, NewsInv, Requesting, Minds
  <2>2. \A o \in Minders \ {m} : ~Requesting(o)'
    BY <1>3, <2>1 DEF Requesting
  <2>3. watchJobs' \subseteq left
    BY <1>1, <1>4, <2>1
  <2>4. watchJobs' # {} => Synced'
    <3>1. \A o \in Minders : minder'[o] = minder[o] \/ (~Minds(o, "telling") /\ ~Minds(o, "telling")')
      BY <1>2, <1>3, <1>4 DEF Minds
    <3>2. Synced => Synced'
      BY <1>4, <3>1, SyncedStays
    <3>. QED  BY <1>4, <3>2 DEF WatchesInv, NewsInv
  <2>5. /\ Minds(m, "forgetting")' => watchJobs' = {}
        /\ Minds(m, "ending")' => watchJobs' \subseteq minder'[m].jobs
        /\ ~Minds(m, "adding")'
    BY <1>2, <1>3, <2>3 DEF Minds
  <2>. QED  BY <2>2, <2>4, <2>5 DEF NewsInv, Requesting, Minds
<1>. QED  BY <1>4, <1>5, <1>6, HealthStays DEF WatchesInv

LEMMA ForgetStep == ASSUME WatchesInv, NEW m \in Minders, ForgetNews(m) PROVE WatchesInv'
<1>1. /\ minder' \in [Minders -> Minder] /\ minder'[m] = AtRest
      /\ \A o \in Minders \ {m} : minder'[o] = minder[o]
  BY WatchTypes, MinderMoves DEF WatchesInv, ForgetNews, Rests
<1>2. /\ UNCHANGED <<subject, feed, hour, watchJobs, everAdded, heard, lost, lagging, silent, crossed>>
      /\ UNCHANGED TheHealth
      /\ Minds(m, "forgetting") /\ AtRest.step = "idle" /\ news' = NoNews
  BY DEF ForgetNews, NewsHistory, AtRest
<1>3. WatchesTypeOK'
  <2>1. lagging' \subseteq {o \in Minders : minder'[o].step = "telling"}
    BY <1>1, <1>2 DEF WatchesInv, WatchesTypeOK, Minds
  <2>. QED  BY <1>1, <1>2, <2>1, WatchTypes DEF WatchesInv, WatchesTypeOK, TheHealth
<1>4. NewsInv'
  <2>. SUFFICES ASSUME ~crossed PROVE NewsInv'
    BY <1>2 DEF NewsInv
  <2>1. watchJobs' = {} /\ \A o \in Minders \ {m} : ~Requesting(o)
    BY <1>2 DEF WatchesInv, NewsInv, Requesting, Minds
  <2>2. \A o \in Minders : ~Requesting(o)'
    BY <1>1, <1>2, <2>1 DEF Requesting
  <2>. QED  BY <2>1, <2>2 DEF NewsInv, Requesting, Minds
<1>. QED  BY <1>2, <1>3, <1>4, HealthStays DEF WatchesInv

LEMMA JudgeStep == ASSUME WatchesInv, NEW m \in Minders, JudgeNews(m) PROVE WatchesInv'
<1>1. PICK titles \in SUBSET Headlines : titles = minder[m].titles
  BY DEF WatchesInv, WatchesTypeOK, Minder
<1>2. PICK fresh \in SUBSET Headlines : fresh = Told(m) /\ fresh = IF news.seeded THEN titles \ news.seen ELSE {}
  BY <1>1 DEF Told
<1>3. PICK s \in Minder : GoesTo(m, s) /\ IF fresh = {} THEN s.step = "idle" ELSE s.step = "telling" /\ s.titles = fresh
  <2>1. /\ [AtRest EXCEPT !.step = "telling", !.titles = fresh] \in Minder
        /\ [AtRest EXCEPT !.step = "telling", !.titles = fresh].step = "telling"
        /\ [AtRest EXCEPT !.step = "telling", !.titles = fresh].titles = fresh
    BY WatchTypes DEF Minder, MinderSteps
  <2>2. AtRest \in Minder /\ AtRest.step = "idle"
    BY WatchTypes DEF AtRest
  <2>. QED  BY <1>2, <2>1, <2>2 DEF JudgeNews
<1>4. /\ minder' \in [Minders -> Minder] /\ minder'[m] = s
      /\ \A o \in Minders \ {m} : minder'[o] = minder[o]
  BY <1>3, MinderMoves DEF WatchesInv
<1>5. /\ UNCHANGED <<subject, feed, hour, watchJobs, everAdded, lost, lagging, crossed>> /\ UNCHANGED TheHealth
      /\ Minds(m, "checking") /\ silent' = FALSE
      /\ news' = [there |-> TRUE, seeded |-> TRUE, seen |-> news.seen \cup titles]
      /\ heard' = heard \cup (IF silent THEN titles ELSE {})
  BY <1>1 DEF JudgeNews, SeenAfter
<1>6. WatchesTypeOK'
  <2>1. /\ news' \in [there: BOOLEAN, seeded: BOOLEAN, seen: SUBSET Headlines]
        /\ heard' \subseteq Headlines /\ silent' \in BOOLEAN
    BY <1>5 DEF WatchesInv, WatchesTypeOK
  <2>2. lagging' \subseteq {o \in Minders : minder'[o].step = "telling"}
    BY <1>3, <1>5, LateStays DEF WatchesInv, Minds
  <2>. QED  BY <1>4, <1>5, <2>1, <2>2 DEF WatchesInv, WatchesTypeOK, TheHealth
<1>7. m \notin lagging /\ m \notin Tellers
  BY <1>5 DEF WatchesInv, WatchesTypeOK, Tellers, Minds
<1>8. Tellers' = Tellers \cup (IF fresh = {} THEN {} ELSE {m})
  <2>1. \A o \in Minders \ {m} : Minds(o, "telling")' <=> Minds(o, "telling")
    BY <1>4 DEF Minds
  <2>2. Minds(m, "telling")' <=> fresh # {}
    BY <1>3, <1>4 DEF Minds
  <2>. QED  BY <1>5, <1>7, <2>1, <2>2 DEF Tellers
<1>9. \A o \in Tellers : minder'[o] = minder[o]
  BY <1>4, <1>7 DEF Tellers
<1>10. Pending' = Pending \cup fresh
  <2>1. fresh # {} => minder'[m].titles = fresh
    BY <1>3, <1>4
  <2>2. {minder'[o].titles : o \in Tellers'}
          = {minder[o].titles : o \in Tellers} \cup (IF fresh = {} THEN {} ELSE {fresh})
    BY <1>8, <1>9, <2>1
  <2>. QED  BY <2>2 DEF Pending
<1>11. ASSUME Synced PROVE Synced'
  <2>1. news.seeded = ~silent /\ news.seen = heard \cup lost \cup Pending /\ TellApart
    BY <1>11 DEF Synced
  <2>2. silent \in BOOLEAN
    BY DEF WatchesInv, WatchesTypeOK
  <2>3. news'.seen = heard' \cup lost' \cup Pending'
    BY <1>2, <1>5, <1>10, <2>1, <2>2
  <2>4. \A o \in Tellers : minder[o].titles \subseteq Pending
    BY DEF Pending
  <2>5. \A o \in Tellers : minder'[o].titles = minder[o].titles /\ minder[o].titles \cap fresh = {}
    BY <1>2, <1>9, <2>1, <2>4
  <2>6. fresh # {} => minder'[m].titles = fresh /\ fresh \cap heard = {} /\ ~silent
    BY <1>2, <1>3, <1>4, <2>1
  <2>7. silent => Tellers = {}
    BY <2>1 DEF TellApart
  <2>8. \A o \in Tellers' : minder'[o].titles \cap heard' = {}
    BY <1>5, <1>8, <2>1, <2>5, <2>6, <2>7 DEF TellApart
  <2>9. ASSUME NEW o \in Tellers', NEW q \in Tellers', o # q
        PROVE  minder'[o].titles \cap minder'[q].titles = {}
    BY <1>8, <2>1, <2>5, <2>6, <2>9 DEF TellApart
  <2>. QED  BY <1>5, <2>3, <2>8, <2>9 DEF Synced, TellApart
<1>12. \A o \in Minders : /\ Requesting(o)' => Requesting(o)
                          /\ Minds(o, "adding")' => Minds(o, "adding")
                          /\ Minds(o, "ending")' => Minds(o, "ending") /\ minder'[o].jobs = minder[o].jobs
                          /\ Minds(o, "forgetting")' => Minds(o, "forgetting")
  BY <1>3, <1>4, <1>5 DEF Requesting, Minds
<1>13. NewsInv'
  BY <1>5, <1>11, <1>12 DEF WatchesInv, NewsInv
<1>. QED  BY <1>5, <1>6, <1>13, HealthStays DEF WatchesInv

\* What was to be told is told, or lost with the thread; any other step may be the last too.
LEMMA TellingEnds ==
  ASSUME WatchesInv, NEW m \in Minders, NotifyNews(m) \/ MinderEnds(m) PROVE WatchesInv'
<1>1. /\ minder' \in [Minders -> Minder] /\ minder'[m] = AtRest /\ AtRest.step = "idle"
      /\ \A o \in Minders \ {m} : minder'[o] = minder[o]
  BY WatchTypes, MinderMoves DEF WatchesInv, NotifyNews, MinderEnds, Rests, AtRest
<1>2. /\ UNCHANGED <<subject, feed, hour, watchJobs, everAdded, news, silent, crossed>> /\ UNCHANGED TheHealth
      /\ lagging' = lagging \ {m}
  BY DEF NotifyNews, MinderEnds
<1>3. PICK titles \in SUBSET Headlines :
        /\ titles = IF m \in Tellers THEN minder[m].titles ELSE {}
        /\ \/ heard' = heard \cup titles /\ lost' = lost
           \/ heard' = heard /\ lost' = lost \cup titles
  <2>1. minder[m].titles \in SUBSET Headlines
    BY DEF WatchesInv, WatchesTypeOK, Minder
  <2>2. m \in Tellers <=> Minds(m, "telling") /\ m \notin lagging
    BY DEF Tellers
  <2>3. CASE NotifyNews(m)
    <3>1. heard' = (IF m \in lagging THEN heard ELSE heard \cup minder[m].titles) /\ lost' = lost /\ Minds(m, "telling")
      BY <2>3 DEF NotifyNews
    <3>2. heard' = heard \cup (IF m \in Tellers THEN minder[m].titles ELSE {})
      BY <2>2, <3>1
    <3>3. (IF m \in Tellers THEN minder[m].titles ELSE {}) \in SUBSET Headlines
      BY <2>1
    <3>. QED  BY <3>1, <3>2, <3>3
  <2>4. CASE MinderEnds(m)
    <3>1. heard' = heard /\ lost' = lost \cup (IF m \in Tellers THEN minder[m].titles ELSE {})
      BY <2>2, <2>4 DEF MinderEnds
    <3>. QED  BY <2>1, <3>1
  <2>. QED  BY <2>3, <2>4
<1>4. WatchesTypeOK'
  <2>1. lagging' \subseteq {o \in Minders : minder'[o].step = "telling"}
    BY <1>1, <1>2 DEF WatchesInv, WatchesTypeOK
  <2>2. heard' \subseteq Headlines /\ lost' \subseteq Headlines
    BY <1>3 DEF WatchesInv, WatchesTypeOK
  <2>. QED  BY <1>1, <1>2, <2>1, <2>2 DEF WatchesInv, WatchesTypeOK, TheHealth
<1>5. Tellers' = Tellers \ {m} /\ \A o \in Tellers' : minder'[o] = minder[o]
  <2>1. \A o \in Minders \ {m} : Minds(o, "telling")' <=> Minds(o, "telling")
    BY <1>1 DEF Minds
  <2>2. ~Minds(m, "telling")'
    BY <1>1 DEF Minds
  <2>. QED  BY <1>1, <1>2, <2>1, <2>2 DEF Tellers
<1>6. Pending = Pending' \cup titles
  <2>1. {minder'[o].titles : o \in Tellers'} = {minder[o].titles : o \in Tellers \ {m}}
    BY <1>5
  <2>2. CASE m \in Tellers
    <3>1. {minder[o].titles : o \in Tellers} = {minder[o].titles : o \in Tellers \ {m}} \cup {titles}
      BY <1>3, <2>2
    <3>. QED  BY <2>1, <3>1 DEF Pending
  <2>3. CASE m \notin Tellers
    <3>1. Tellers \ {m} = Tellers
      BY <2>3
    <3>. QED  BY <1>3, <2>1, <2>3, <3>1 DEF Pending
  <2>. QED  BY <2>2, <2>3
<1>7. ASSUME Synced PROVE Synced'
  <2>1. news.seeded = ~silent /\ news.seen = heard \cup lost \cup Pending /\ TellApart
    BY <1>7 DEF Synced
  <2>2. news'.seen = heard' \cup lost' \cup Pending'
    BY <1>2, <1>3, <1>6, <2>1
  <2>3. \A o \in Tellers' : /\ o \in Tellers /\ o # m /\ minder'[o].titles = minder[o].titles
                            /\ minder[o].titles \cap heard = {} /\ minder[o].titles \cap titles = {}
    BY <1>3, <1>5, <2>1 DEF TellApart
  <2>4. \A o \in Tellers' : minder'[o].titles \cap heard' = {}
    BY <1>3, <2>3
  <2>5. TellApart'
    BY <1>2, <1>5, <2>1, <2>3, <2>4 DEF TellApart
  <2>. QED  BY <1>2, <2>1, <2>2, <2>5 DEF Synced
<1>8. \A o \in Minders : /\ Requesting(o)' => Requesting(o)
                         /\ Minds(o, "adding")' => Minds(o, "adding")
                         /\ Minds(o, "ending")' => Minds(o, "ending") /\ minder'[o].jobs = minder[o].jobs
                         /\ Minds(o, "forgetting")' => Minds(o, "forgetting")
  BY <1>1 DEF Requesting, Minds
<1>9. NewsInv'
  BY <1>2, <1>7, <1>8 DEF WatchesInv, NewsInv
<1>. QED  BY <1>2, <1>4, <1>9, HealthStays DEF WatchesInv

\* A warning is due when the latest of its kind is QuietFor ago.
LEMMA JudgeHealthStep == ASSUME WatchesInv, NEW m \in Minders, JudgeHealth(m) PROVE WatchesInv'
<1>1. PICK s \in Minder : GoesTo(m, s) /\ s.step \in {"idle", "warning"}
  <2>1. AtRest \in Minder /\ AtRest.step = "idle"
    BY WatchTypes DEF AtRest
  <2>2. [AtRest EXCEPT !.step = "warning"] \in Minder /\ [AtRest EXCEPT !.step = "warning"].step = "warning"
    BY WatchTypes DEF Minder, MinderSteps
  <2>. QED  BY <2>1, <2>2 DEF JudgeHealth
<1>2. /\ UNCHANGED <<subject, feed, hour, TheNews>> /\ Minds(m, "judging") /\ ~Minds(m, "telling")
      /\ minder' \in [Minders -> Minder] /\ lagging' \subseteq {o \in Minders : minder'[o].step = "telling"}
  <2>1. UNCHANGED <<subject, feed, hour, TheNews>> /\ Minds(m, "judging") /\ ~Minds(m, "telling")
    BY DEF JudgeHealth, Minds
  <2>. QED  BY <1>1, <2>1, MinderMoves, LateStays DEF WatchesInv, TheNews, NewsHistory
<1>3. PICK at \in 0..MaxHours, due \in SUBSET Kinds :
        /\ at = minder[m].at /\ due = WarnedOf(m)
        /\ \A k \in due : healthEntry.last[k] = NotWarned \/ healthEntry.last[k] + QuietFor <= at
  <2>1. minder[m] \in Minder
    BY DEF WatchesInv, WatchesTypeOK
  <2>2. minder[m].at \in 0..MaxHours /\ WarnedOf(m) \in SUBSET Kinds
    BY <2>1 DEF Minder, WarnedOf, Found
  <2>. QED  BY <2>2 DEF WarnedOf, QuietOver
<1>4. /\ healthEntry'.last = [k \in Kinds |-> IF k \in due THEN at ELSE healthEntry.last[k]]
      /\ healthEntry'.cpuHigh \in BOOLEAN
      /\ healthEntry' = [cpuHigh |-> healthEntry'.cpuHigh, last |-> healthEntry'.last]
      /\ warnings' = warnings \cup {<<k, at>> : k \in due}
  BY <1>3 DEF JudgeHealth
<1>5. /\ healthEntry.last \in [Kinds -> 0..NotWarned] /\ warnings \subseteq Kinds \X (0..MaxHours)
      /\ at \in 0..NotWarned /\ at # NotWarned
  BY WatchTypes DEF WatchesInv, WatchesTypeOK
<1>6. healthEntry' \in [cpuHigh: BOOLEAN, last: [Kinds -> 0..NotWarned]] /\ warnings' \subseteq Kinds \X (0..MaxHours)
  <2>1. healthEntry'.last \in [Kinds -> 0..NotWarned]
    BY <1>4, <1>5
  <2>. QED  BY <1>4, <1>5, <2>1
<1>7. WatchesTypeOK'
  BY <1>2, <1>6 DEF WatchesInv, WatchesTypeOK, TheNews, NewsHistory
<1>8. NewsInv'
  BY <1>1, <1>2, NewsStays, WatchTypes
<1>9. \A w \in warnings : w[1] \in Kinds /\ w[2] \in 0..MaxHours /\ w = <<w[1], w[2]>>
  BY <1>5
<1>10. \A w \in warnings : w[1] \in due => w[2] + QuietFor <= at
  BY <1>3, <1>5, <1>9, WatchTypes DEF WatchesInv, HealthInv
<1>11. \A w \in warnings' : w \in warnings \/ (w[1] \in due /\ w[2] = at)
  BY <1>4
<1>12. HealthInv'
  <2>. SUFFICES ASSUME NEW w \in warnings'
                PROVE  healthEntry'.last[w[1]] # NotWarned /\ w[2] <= healthEntry'.last[w[1]]
    BY DEF HealthInv, NotWarned
  <2>1. CASE w[1] \in due
    <3>1. healthEntry'.last[w[1]] = at
      BY <1>4, <1>3, <2>1
    <3>2. w[2] <= at
      BY <1>9, <1>10, <1>11, <2>1, WatchTypes
    <3>. QED  BY <1>5, <3>1, <3>2
  <2>2. CASE w[1] \notin due
    <3>1. w \in warnings
      BY <1>11, <2>2
    <3>2. healthEntry'.last[w[1]] = healthEntry.last[w[1]]
      BY <1>4, <1>9, <2>2, <3>1
    <3>. QED  BY <3>1, <3>2 DEF WatchesInv, HealthInv
  <2>. QED  BY <2>1, <2>2
<1>13. WarnsAreApart'
  <2>. SUFFICES ASSUME NEW w \in warnings', NEW v \in warnings', w[1] = v[1], w[2] < v[2]
                PROVE  w[2] + QuietFor <= v[2]
    BY DEF WarnsAreApart
  <2>1. CASE w \in warnings /\ v \in warnings
    BY <2>1 DEF WatchesInv, WarnsAreApart
  <2>2. CASE w \in warnings /\ v[1] \in due /\ v[2] = at
    BY <2>2, <1>10
  <2>3. CASE v \in warnings /\ w[1] \in due /\ w[2] = at
    <3>1. v[2] + QuietFor <= at /\ at < v[2]
      BY <2>3, <1>10
    <3>. QED  BY <3>1, <1>9, <2>3, WatchTypes
  <2>4. CASE w[1] \in due /\ w[2] = at /\ v[2] = at
    BY <2>4
  <2>. QED  BY <1>11, <2>1, <2>2, <2>3, <2>4
<1>. QED  BY <1>7, <1>8, <1>12, <1>13 DEF WatchesInv

LEMMA ForgetHealthStep == ASSUME WatchesInv, ForgetHealth PROVE WatchesInv'
<1>1. /\ UNCHANGED <<subject, feed, hour, watchJobs, everAdded, news, heard, lost, lagging, silent, crossed, minder>>
      /\ healthEntry' = NoHealth /\ warnings' = {}
  BY DEF ForgetHealth, TheNews, NewsHistory
<1>2. WatchesTypeOK'
  BY <1>1, WatchTypes DEF WatchesInv, WatchesTypeOK
<1>3. NewsInv'
  <2>1. Synced => Synced'
    BY <1>1, SyncedStays
  <2>. QED  BY <1>1, <2>1 DEF WatchesInv, NewsInv, Requesting, Minds
<1>. QED  BY <1>1, <1>2, <1>3 DEF WatchesInv, HealthInv, WarnsAreApart

LEMMA WatchesStep == WatchesInv /\ [WatchesNext]_watchvars => WatchesInv'
<1>. SUFFICES ASSUME WatchesInv, [WatchesNext]_watchvars PROVE WatchesInv'
  OBVIOUS
<1>1. CASE UNCHANGED watchvars
  <2>1. UNCHANGED <<subject, feed, hour, watchJobs, everAdded, news, healthEntry, minder, heard, lost, lagging, silent,
                    crossed, warnings>>
    BY <1>1 DEF watchvars
  <2>2. Synced => Synced'
    BY <2>1, SyncedStays
  <2>3. NewsInv'
    BY <2>1, <2>2 DEF WatchesInv, NewsInv, Requesting, Minds
  <2>. QED
    BY <2>1, <2>3 DEF WatchesInv, WatchesTypeOK, HealthInv, WarnsAreApart
<1>2. CASE World \/ ForgetHealth
  BY <1>2, WorldStep, ForgetHealthStep
<1>3. ASSUME NEW m \in Minders,
             \/ WatchNews(m) \/ SeedEntry(m) \/ AddWatchJob(m) \/ Unwatch(m) \/ ForgetNews(m)
             \/ CheckNews(m) \/ JudgeNews(m) \/ NotifyNews(m) \/ MinderEnds(m)
             \/ JudgeHealth(m) \/ NotifyHealth(m)
             \/ \E titles \in Shown : ReadToStart(m, titles)
             \/ \E j \in WatchJobs : RemoveWatchJob(m, j)
             \/ \E high \in SUBSET Kinds : CheckHealth(m, high)
      PROVE  WatchesInv'
  BY <1>3, RequestBegins, PassingStep, SeedStep, AddStep, RemoveStep, ForgetStep, JudgeStep, TellingEnds,
     JudgeHealthStep
<1>. QED  BY <1>1, <1>2, <1>3 DEF WatchesNext

\* What a check finds is what the entry does not have; and the entry has what was told and
\* what is to be told.  Who tells it is one of the threads that TellApart is about.
LEMMA TellingFits ==
  ASSUME WatchesInv, NEW m \in Minders, Watched
  PROVE  /\ Told(m) = IF silent THEN {} ELSE minder[m].titles \ (heard \cup lost \cup Pending)
         /\ Minds(m, "telling") /\ m \notin lagging => minder[m].titles \cap heard = {}
<1>1. Synced
  BY DEF WatchesInv, NewsInv, Watched
<1>. QED  BY <1>1 DEF Synced, TellApart, Tellers, Told
-----------------------------------------------------------------------------
\* The parts one by one

\* What the user was told is remembered, and nothing else, is what the file holds, but for
\* entries that changed unseen by a process which then wrote its copy by a method that does
\* not read the file first: a method storage._REFRESH names loses nothing (memory.py).
THEOREM MemoryIsKept == MemorySpec => []RememberedAsTold
<1>1. MemoryInv => RememberedAsTold
  BY DEF MemoryInv
<1>2. MemoryInv /\ [MemoryNext]_memvars => MemoryInv'
  BY MemoryStep
<1>. QED  BY <1>1, <1>2, MemoryStarts, PTL DEF MemorySpec

\* Whatever is tailored, from whichever reading of the resume, no job shows a package of
\* another resume, or a PDF of another package (jobs.py).
THEOREM PackagesAreOfThisResume == JobsSpec => []TailoredToThisResume
<1>1. JobsInv /\ [JobsNext]_jobvars => JobsInv'
  BY JobsStep
<1>. QED  BY <1>1, JobsStart, JobsShow, PTL DEF JobsSpec

\* Once a reply was stopped, cut in on or left with voice mode, no sentence of it starts to
\* be heard, whichever fetch or timer comes later (app.js's ttsEpoch).
THEOREM NoSilencedSpeech == VoiceSpec => []SilencedStaysSilent
<1>1. VoiceInv /\ [VoiceNext]_voicevars => VoiceInv'
  BY VoiceStep
<1>. QED  BY <1>1, VoiceStarts, VoiceShows, PTL DEF VoiceSpec

\* A mailbox token that a command forgot is in the vault no more, nor in a copy of it, but
\* for what a refresh in flight brings back (token_vault.py).
THEOREM TokensStayForgotten == MailTokensSpec => []ForgottenTokensAreGone
<1>1. MailInv /\ [MailTokensNext]_mailvars => MailInv'
  BY MailStep
<1>. QED  BY <1>1, MailStarts, TokensShow, PTL DEF MailTokensSpec

\* A daily job runs once at most on a day of the clock, when its time has come, and has run
\* when a tick finds its time well past: whatever the length of a day, the time of day and
\* the change of the clock (scheduler.py).
THEOREM DailyJobsRunOnceADay == DailyJobsSpec => []OncePerDay
<1>1. DailyInv => OncePerDay
  BY DEF DailyInv
<1>. QED  BY <1>1, DailyStart, DailyStep, PTL DEF DailyJobsSpec

LEMMA FilesInvariant == FileChangesSpec => []FilesInv
<1>1. FilesInv /\ [FileChangesNext]_filevars => FilesInv'
  BY FilesStep
<1>. QED  BY <1>1, FilesStart, PTL DEF FileChangesSpec

\* What comes or is edited while a card is open is put nothing in the place of, but by a
\* write and by a rename on POSIX, which say or do so (tools/fileops.py).
THEOREM FilesAreNotOverwritten == FileChangesSpec => NothingIsOverwritten
<1>1. FilesInv /\ [FileChangesNext]_filevars
        => [\A t \in Turns, o \in Gone \ {0} : turn'[t] # turn[t] =>
              \/ turn[t].op = "write" \/ (posix /\ turn[t].op = "rename")
              \/ turn[t].op = "delete" /\ o = tree[turn[t].src]
              \/ turn[t].op = "undo" /\ turn[t].src = "nowhere" /\ o = tree[turn[t].dst]
              \/ turn[t].op = "fix" /\ o = turn[t].id]_filevars
  BY FilesAreLeft
<1>. QED  BY <1>1, FilesInvariant, PTL DEF FileChangesSpec, NothingIsOverwritten

LEMMA FoldersInvariant == WorkspacesSpec => []WorkspacesInv
<1>1. WorkspacesInv /\ [WorkspacesNext]_wsvars => WorkspacesInv'
  BY WorkspacesStep
<1>. QED  BY <1>1, WorkspacesStart, PTL DEF WorkspacesSpec

\* No turn fills, or removes, a folder of the user's or of another turn (tools/workspace.py's
\* claim by mkdir), unless its own was removed while it filled it.
THEOREM FoldersAreOnesOwn == WorkspacesSpec => FoldersAreNotShared
<1>1. WorkspacesInv /\ [WorkspacesNext]_wsvars
        => [\A n \in NameNumbers, m \in Makers :
              folder'[n] # folder[n] /\ maker'[m] # maker[m] =>
                folder[n].of \in {m, "none"} \/ m \in robbed]_wsvars
  BY FoldersAreLeft
<1>. QED  BY <1>1, FoldersInvariant, PTL DEF WorkspacesSpec, FoldersAreNotShared

LEMMA WatchesInvariant == WatchesSpec => []WatchesInv
BY WatchesStart, WatchesStep, PTL DEF WatchesSpec

LEMMA WatchesTell ==
  WatchesInv /\ [WatchesNext]_watchvars
    => /\ [\A m \in Minders :
             JudgeNews(m) /\ Watched =>
               Told(m) = IF silent THEN {} ELSE minder[m].titles \ (heard \cup lost \cup Pending)]_watchvars
       /\ [\A m \in Minders :
             NotifyNews(m) /\ Watched /\ m \notin lagging => minder[m].titles \cap heard = {}]_watchvars
BY TellingFits DEF NotifyNews

\* While a topic is watched a check finds exactly what is new of it, what is told was not
\* told before, and warnings of one kind are QuietFor apart, in whatever order readings come
\* to be judged and whichever check ends before it told what it found (tools/watch.py).
THEOREM WatchesAreQuiet == WatchesSpec => WatchesKeepQuiet
<1>1. WatchesInv => WarnsAreApart
  BY DEF WatchesInv
<1>. QED
  BY <1>1, WatchesTell, WatchesInvariant, PTL DEF WatchesSpec, WatchesKeepQuiet, FindsWhatIsNew, TellsNothingTwice
-----------------------------------------------------------------------------
\* All of them in one behaviour

\* Every part's invariant holds, whichever part the behaviour is of.
ListsInv ==
  /\ FilesInv /\ WorkspacesInv /\ MemoryInv /\ JobsInv /\ KnowledgeInv /\ VoiceInv
  /\ DispatchInv /\ DailyInv /\ MailInv /\ DatesTypeOK /\ WatchesInv

LEMMA ListsStart == ListsInit => ListsInv
BY FilesStart, WorkspacesStart, MemoryStarts, JobsStart, KnowledgeStarts, VoiceStarts, DispatchStarts, DailyStart,
   MailStarts, DatesStart, WatchesStart DEF ListsInit, ListsInv

\* A step of the run is one of every part, that of all but one of them a stutter.
LEMMA ListsPartsStep ==
  ASSUME [ListsNext]_listvars
  PROVE  /\ [FileChangesNext]_filevars /\ [WorkspacesNext]_wsvars /\ [MemoryNext]_memvars /\ [JobsNext]_jobvars
         /\ [KnowledgeNext]_knowvars /\ [VoiceNext]_voicevars /\ [DispatchNext]_dispatchvars
         /\ [DailyJobsNext]_dailyvars /\ [MailTokensNext]_mailvars /\ [DatesNext]_datevars
         /\ [WatchesNext]_watchvars
BY DEF ListsNext, InPart, listvars

LEMMA ListsStep ==
  ASSUME ListsInv, [ListsNext]_listvars PROVE ListsInv'
BY ListsPartsStep, FilesStep, WorkspacesStep, MemoryStep, JobsStep, KnowledgeStep, VoiceStep, DispatchStep, DailyStep,
   MailStep, DatesStep, WatchesStep DEF ListsInv

LEMMA ListsInvariant == ListsSpec => []ListsInv
<1>1. ListsInv /\ [ListsNext]_listvars => ListsInv'
  BY ListsStep
<1>. QED  BY <1>1, ListsStart, PTL DEF ListsSpec

\* Every part's state keeps its type.
THEOREM ListsWellTyped == ListsSpec => []ListsTypeOK
<1>1. ListsInv => ListsTypeOK
  <2>. SUFFICES ASSUME ListsInv PROVE ListsTypeOK
    OBVIOUS
  <2>1. FileChangesTypeOK /\ VoiceTypeOK
    BY FilesShow, VoiceShows DEF ListsInv
  <2>. QED
    BY <2>1 DEF ListsInv, ListsTypeOK, WorkspacesInv, MemoryInv, JobsInv, KnowledgeInv, DispatchInv, DailyInv, MailInv,
       WatchesInv
<1>. QED  BY <1>1, ListsInvariant, PTL

\* The memory is what the user was told, but for what a process that does not read the file
\* first had not seen (memory.py); what was indexed is kept (knowledge.py), and a token that
\* was to be forgotten is forgotten (token_vault.py).
THEOREM KeptAndForgotten == ListsSpec => []KeptAndForgottenAsTold
<1>1. ListsInv => KeptAndForgottenAsTold
  BY IndexShows, TokensShow DEF ListsInv, MemoryInv, KeptAndForgottenAsTold
<1>. QED  BY <1>1, ListsInvariant, PTL

\* Jobs, voice and commands in the behaviours of the run.
THEOREM ListsKeepToTheirOwn ==
  ListsSpec => [](TailoredToThisResume /\ SilencedStaysSilent /\ EveryCommandIsHeldToItsAccount /\ OncePerDay)
<1>1. ListsInv => TailoredToThisResume /\ SilencedStaysSilent /\ EveryCommandIsHeldToItsAccount /\ OncePerDay
  BY JobsShow, VoiceShows DEF ListsInv, DispatchInv, DailyInv
<1>. QED  BY <1>1, ListsInvariant, PTL

\* A daily job runs once on each of its days, and a day is where the calendar has it
\* (scheduler.py, tools/dates.py, timeparse.py).
THEOREM CalendarIsKept == ListsSpec => []TheCalendarIsKept
<1>1. ListsInv => TheCalendarIsKept
  BY EveryDateIsCounted DEF ListsInv, DailyInv, TheCalendarIsKept
<1>. QED  BY <1>1, ListsInvariant, PTL

\* No file that came while a card was open is overwritten by what the card allowed
\* (tools/fileops.py); a folder is filled and taken away by the turn it is of, whoever makes and
\* removes folders meanwhile, unless that turn's own was removed while it was filling it
\* (tools/workspace.py).
THEOREM NothingOfOthersIsTaken == ListsSpec => NothingIsTaken
<1>1. ListsInv /\ [ListsNext]_listvars
        => [\A t \in Turns, o \in Gone \ {0} : turn'[t] # turn[t] =>
              \/ turn[t].op = "write" \/ (posix /\ turn[t].op = "rename")
              \/ turn[t].op = "delete" /\ o = tree[turn[t].src]
              \/ turn[t].op = "undo" /\ turn[t].src = "nowhere" /\ o = tree[turn[t].dst]
              \/ turn[t].op = "fix" /\ o = turn[t].id]_filevars
  BY ListsPartsStep, FilesAreLeft DEF ListsInv
<1>2. ListsInv /\ [ListsNext]_listvars
        => [\A n \in NameNumbers, m \in Makers :
              folder'[n] # folder[n] /\ maker'[m] # maker[m] =>
                folder[n].of \in {m, "none"} \/ m \in robbed]_wsvars
  BY ListsPartsStep, FoldersAreLeft DEF ListsInv
<1>. QED  BY <1>1, <1>2, ListsInvariant, PTL DEF ListsSpec, NothingIsTaken, NothingIsOverwritten, FoldersAreNotShared
=============================================================================
