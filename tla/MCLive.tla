------------------------------- MODULE MCLive -------------------------------
(***************************************************************************)
(* The store, the reminders, Stop, a tool server and the approval gate on  *)
(* small instances, in one run: they share no state, so a behaviour of     *)
(* this module is one of theirs, the others resting where they started.    *)
(***************************************************************************)
EXTENDS Storage, Reminders, Stopping, Mcp, Approvals

CONSTANTS t1, t2, t3, p1, p2

\* Two threads of the web server and the command line.
TheHome == [t \in Threads |-> IF t = t3 THEN p2 ELSE p1]

\* Bound: the turns of the gate are an account's, not the machine's.
OfAnAccount == \A t \in Turns : turn'[t].step # "new" => turn'[t].who \in Accounts

VARIABLE part

livevars == <<part, storvars, remvars, stopvars, mcpvars, vars>>

LiveInit ==
  /\ part \in {"storage", "reminders", "stopping", "mcp", "approvals"}
  /\ StorageInit /\ (part # "storage" => ~strict)
  /\ RemindersInit /\ StoppingInit /\ McpInit /\ Init

\* A step of one part; the others rest.
InPart(name, A) ==
  /\ part = name /\ A /\ UNCHANGED part
  /\ name # "storage" => UNCHANGED storvars
  /\ name # "reminders" => UNCHANGED remvars
  /\ name # "stopping" => UNCHANGED stopvars
  /\ name # "mcp" => UNCHANGED mcpvars
  /\ name # "approvals" => UNCHANGED vars

LiveNext ==
  \/ InPart("storage", StorageNext) \/ InPart("reminders", RemindersNext)
  \/ InPart("stopping", StoppingNext) \/ InPart("mcp", McpNext) \/ InPart("approvals", Next /\ OfAnAccount)

\* The fairness each module states, each for its part.
LiveFairness ==
  /\ \A t \in Threads : WF_livevars(InPart("storage", StorageStep(t)))
  /\ WF_livevars(InPart("reminders", PrintDue))
  /\ \A t \in Tabs : /\ WF_livevars(InPart("reminders", Poll(t)))
                     /\ SF_livevars(InPart("reminders", Announce(t)))
  /\ \A c \in Calls : WF_livevars(InPart("stopping", OwnStep(c)))
  /\ \A r \in Asking : /\ WF_livevars(InPart("mcp", ThreadStep(r)))
                       /\ WF_livevars(InPart("mcp", DeadlinePasses(r)))
  /\ \A t \in Turns : WF_livevars(InPart("approvals", Proceed(t)))

LiveSpec == LiveInit /\ [][LiveNext]_livevars /\ LiveFairness

\* The tool server's and the gate's types are checked in MCService and MCTurns.
LiveTypeOK == StorageTypeOK /\ RemindersTypeOK /\ StoppingTypeOK

\* The two locks a request may keep others waiting with are given up whatever
\* happens to it: the gate's, by a card nobody answers (approvals.py), and a tool
\* server's, by a server that never stops talking (tools/mcp.py).
LocksAreGivenUp == GateIsReleased /\ TheServerIsFreed
=============================================================================
