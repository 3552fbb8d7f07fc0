------------------------------ MODULE Consent ------------------------------
(***************************************************************************)
(* What the approval cards promise, without threads, streams or locks: an  *)
(* action is performed at most once, and only after the account that asked *)
(* for it (anybody allowed to, when the machine asked) said yes to that    *)
(* very card while the card was open.  Silence, a stop and a lost          *)
(* connection all refuse.  Approvals implements this.                      *)
(***************************************************************************)
CONSTANTS Cards, Viewers, Machine

VARIABLES phase, owner

consentVars == <<phase, owner>>

Init ==
  /\ phase = [id \in Cards |-> "unasked"]
  /\ owner = [id \in Cards |-> Machine]

Ask(id, who) ==
  /\ phase[id] = "unasked"
  /\ phase' = [phase EXCEPT ![id] = "asked"]
  /\ owner' = [owner EXCEPT ![id] = who]

Answer(id, viewer, verdict) ==
  /\ phase[id] = "asked"
  /\ owner[id] \in {viewer, Machine}
  /\ phase' = [phase EXCEPT ![id] = verdict]
  /\ UNCHANGED owner

\* Nobody answers in time, or the turn that asked is over.
Lapse(id) ==
  /\ phase[id] \in {"asked", "granted"}
  /\ phase' = [phase EXCEPT ![id] = "refused"]
  /\ UNCHANGED owner

Perform(id) ==
  /\ phase[id] = "granted"
  /\ phase' = [phase EXCEPT ![id] = "performed"]
  /\ UNCHANGED owner

Next ==
  \E id \in Cards :
    \/ \E who \in Viewers : Ask(id, who)
    \/ \E viewer \in Viewers, verdict \in {"granted", "refused"} : Answer(id, viewer, verdict)
    \/ Lapse(id)
    \/ Perform(id)

Spec == Init /\ [][Next]_consentVars

=============================================================================
