------------------------------ MODULE MCService ------------------------------
(***************************************************************************)
(* The sign-in limiter, Google sign-in, a call to a model, the model       *)
(* tiers, an autonomous run, batches of commands, a tool server and the    *)
(* ids of speech functions on small instances, in one run: they share no   *)
(* state, so a behaviour of this module is one of theirs, the others       *)
(* resting where they started.  x1 and x2, y1 and y2 stand for windows,    *)
(* people, requests or calls, and may be permuted.                         *)
(***************************************************************************)
EXTENDS
  Throttle, GoogleSignIn, Models, AgentLoop, Batches, Mcp, FunctionIds, TLC

CONSTANTS x1, x2, y1, y2, b1, b2, web, cli

\* One batch runs in the web server, the other at the command line.
TheProcess == [b \in Batch |-> IF b = b1 THEN web ELSE cli]

TheSetups == {{"fast", "smart", "ultra"}, {"fast", "openrouter"}}

Symmetry == Permutations({x1, x2}) \cup Permutations({y1, y2})

VARIABLE part

servicevars ==
  <<part, throttlevars, googlevars, completionvars, tiervars, agentvars, batchvars, mcpvars, idvars>>

ServiceInit ==
  /\ part \in {"throttle", "google", "completions", "tiers", "agent", "batches", "mcp", "functions"}
  /\ ThrottleInit /\ GoogleInit /\ CompletionsInit /\ ModelTiersInit /\ AgentInit /\ BatchesInit
  /\ McpInit /\ FunctionIdsInit
  /\ part # "tiers" => configured = CHOOSE setup \in Setups : TRUE

\* A step of one part; the others rest.
InPart(name, A) ==
  /\ part = name /\ A /\ UNCHANGED part
  /\ name # "throttle" => UNCHANGED throttlevars
  /\ name # "google" => UNCHANGED googlevars
  /\ name # "completions" => UNCHANGED completionvars
  /\ name # "tiers" => UNCHANGED tiervars
  /\ name # "agent" => UNCHANGED agentvars
  /\ name # "batches" => UNCHANGED batchvars
  /\ name # "mcp" => UNCHANGED mcpvars
  /\ name # "functions" => UNCHANGED idvars

ServiceNext ==
  \/ InPart("throttle", ThrottleNext) \/ InPart("google", GoogleNext)
  \/ InPart("completions", CompletionsNext) \/ InPart("tiers", ModelTiersNext)
  \/ InPart("agent", AgentNext) \/ InPart("batches", BatchesNext) \/ InPart("mcp", McpNext)
  \/ InPart("functions", FunctionIdsNext)

ServiceSpec == ServiceInit /\ [][ServiceNext]_servicevars

ServiceTypeOK ==
  /\ ThrottleTypeOK /\ GoogleTypeOK /\ CompletionsTypeOK /\ ModelTiersTypeOK /\ AgentTypeOK
  /\ BatchesTypeOK /\ McpTypeOK /\ FunctionIdsTypeOK

\* A reply is given as the endpoint gave it: a whole one without the model's thoughts, and
\* each, whole or streamed, saying when it was cut off (openai_compatible.py); what a chat
\* shows when its turn ends with an answer, or with none, is the answer of one tier
\* (orchestrator.py), and a run acts on no reply that was cut short (tasks.py).
RepliesAreWhole == CompletionsAreHonest /\ ShownIsTheAnswer /\ RunsGoByWholeReplies

\* What was started is accounted for: nothing is listed as working that has ended, and no
\* tool server runs that no table knows (control_room.py, tools/mcp.py).
WorkIsAccountedFor == BatchesAreAccountedFor /\ ServersAreAccountedFor
=============================================================================
