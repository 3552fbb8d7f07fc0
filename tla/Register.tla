------------------------------ MODULE Register ------------------------------
(***************************************************************************)
(* What a JSON store promises its callers, with no file, lock or thread in *)
(* it: updates take effect one after another, each on what the one before  *)
(* it left, nothing is reported done that is not in the store, and damage  *)
(* costs at most the newest update.  A strict store, for accounts,         *)
(* sessions and keys, never goes back at all.                              *)
(***************************************************************************)
EXTENDS Sequences, Naturals

CONSTANT Updates

\* Only a forgiving store goes back to its backup.
VARIABLES forgiving, value, answered

regvars == <<forgiving, value, answered>>

RegInit == forgiving \in BOOLEAN /\ value = <<>> /\ answered = {}

Contains(u) == \E i \in DOMAIN value : value[i] = u

Write(u) ==
  /\ ~Contains(u)
  /\ value' = Append(value, u)
  /\ UNCHANGED <<forgiving, answered>>

Report(u) ==
  /\ Contains(u)
  /\ answered' = answered \cup {u}
  /\ UNCHANGED <<forgiving, value>>

RollBack ==
  /\ forgiving /\ value # <<>>
  /\ value' = SubSeq(value, 1, Len(value) - 1)
  /\ UNCHANGED <<forgiving, answered>>

RegNext == RollBack \/ \E u \in Updates : Write(u) \/ Report(u)

RegSpec == RegInit /\ [][RegNext]_regvars
=============================================================================
