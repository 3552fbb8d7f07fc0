----------------------------- MODULE MCScheduler -----------------------------
(***************************************************************************)
(* What reaches the program and what it does: scheduled jobs, requests to  *)
(* the web server and the sentences in them, questions to the outside      *)
(* world and things done behind a card, on small instances.  The scheduler *)
(* has two processes: the web app, which has the ticker and may have a     *)
(* request running due jobs too, and a command line.  The parts share no   *)
(* state, so a behaviour of this module is one of theirs, the others       *)
(* resting where they started.                                             *)
(***************************************************************************)
EXTENDS Scheduler, Routing, WebRequests, Engines, Outgoing, TLC

CONSTANTS cmd, cli, req, act1, act2

MCProcesses == {Web, cli}
MCHome == [r \in Runners |-> IF r = cmd THEN cli ELSE Web]

\* Each thing the tests find in a sentence, and what they find together.
TheSentences ==
  {{}, {"form"}, {"form", "prose", "plain"}, {"negated", "asks-to-run"}, {"not-forget", "back"}, {"to-be-told"},
   {"asks-to-run"}, {"asks-how", "asks-to-run"}, {"typed"}, {"back"}, {"back", "subject"}, {"back", "diagram"},
   {"diagram", "file"}, {"spelled"}, {"pages"}, {"names"}}

\* Calls whose effects meet, and every other kind beside one that may end first.
TheCalls ==
  {<<k, l>> : k, l \in {"wallpaper", "restore", "shut-down", "cancel"}} \cup {<<k, "cancel">> : k \in ActKinds}
CalledTogether == {[a \in {act1, act2} |-> IF a = act1 THEN c[1] ELSE c[2]] : c \in TheCalls}

VARIABLE part

partvars == <<part, vars, routingvars, requestvars, enginevars, outgoingvars>>

PartsInit ==
  /\ part \in {"scheduler", "routing", "requests", "engines", "outgoing"}
  /\ Init /\ RoutingInit /\ RequestsInit /\ EnginesInit /\ OutgoingInit
  /\ part # "routing" => topic = "none"
  /\ part # "engines" => asking.kind = "translation" /\ asking.has = {"nmt"}
  /\ part # "outgoing" => (\A a \in Acts : act[a].kind = "cancel") /\ world.wallpaper = CHOOSE p \in Pictures : TRUE

\* A step of one part; the others rest.
InPart(name, A) ==
  /\ part = name /\ A /\ UNCHANGED part
  /\ name # "scheduler" => UNCHANGED vars
  /\ name # "routing" => UNCHANGED routingvars
  /\ name # "requests" => UNCHANGED requestvars
  /\ name # "engines" => UNCHANGED enginevars
  /\ name # "outgoing" => UNCHANGED outgoingvars

PartsNext ==
  InPart("scheduler", Next) \/ InPart("routing", RoutingNext) \/ InPart("requests", RequestsNext)
    \/ InPart("engines", EnginesNext) \/ InPart("outgoing", OutgoingNext)

PartsSpec == PartsInit /\ [][PartsNext]_partvars /\ Fairness

\* Of the parts beside the scheduler.
PartsTypeOK == RoutingTypeOK /\ RequestsTypeOK /\ EnginesTypeOK /\ OutgoingTypeOK

\* What is said is done, and every request is answered.
RequestsAreServed == SentencesAreHeard /\ RequestsAreAnswered

\* What the outside is asked and what is done behind a card.
TheOutsideIsMetAsAgreed == EnginesServe /\ ActsAreAsShown
=============================================================================
