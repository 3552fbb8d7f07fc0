----------------------------- MODULE AgentLoop -----------------------------
(***************************************************************************)
(* An autonomous run (reasoning.py): a model is asked for the next step,   *)
(* its command is executed, and so on until it gives its answer or the     *)
(* steps run out.  A question goes to one tier after another until one     *)
(* replies.  A reply may be cut off at the length limit, may hold neither  *)
(* a command nor an answer, and may be overtaken by Stop.                  *)
(***************************************************************************)
EXTENDS Naturals

CONSTANTS
  TierCount,      \* how many tiers a question may go to (smart, fast, openrouter)
  MaxSteps    \* commands before the closing summary

ASSUME AgentLoopAssumption == TierCount \in Nat \ {0} /\ MaxSteps \in Nat \ {0}

\* What parse_agent_decision makes of a reply: an ACTION line, a FINAL line, a
\* text with neither, or nothing at all.
Says == {"action", "final", "text", "nothing"}
Decisions == [says : Says, cut : BOOLEAN]
Replies == Decisions \ {[says |-> "nothing", cut |-> TRUE]}
Silence == [says |-> "nothing", cut |-> FALSE]
Structured(d) == d.says \in {"action", "final"}

VARIABLES
  agent,     \* where the run is
  asked,     \* what the question is: the next step, the same again, the summary
  tier,      \* the tier that is asked
  taken,     \* commands executed
  decision,  \* the decision the run holds
  stopping,  \* Stop was pressed
  acted,     \* ghost: the decisions whose command or answer was used
  crossed    \* ghost: Stop came before the last reply did

agentvars == <<agent, asked, tier, taken, decision, stopping, acted, crossed>>

Outcomes == {"ok", "failed", "stopped"}   \* the status of a recorded run
AgentSteps == {"next", "asking", "acting", "left"} \cup Outcomes

AgentTypeOK ==
  /\ agent \in AgentSteps /\ asked \in {"next", "again", "summary"}
  /\ tier \in 1..TierCount /\ taken \in 0..MaxSteps
  /\ decision \in Decisions /\ acted \subseteq Decisions
  /\ stopping \in BOOLEAN /\ crossed \in BOOLEAN

AgentInit ==
  /\ agent = "next" /\ asked = "next" /\ tier = 1 /\ taken = 0
  /\ decision = Silence /\ acted = {} /\ stopping = FALSE /\ crossed = FALSE
-----------------------------------------------------------------------------
PressStopAgent ==
  /\ ~stopping /\ agent \in {"next", "asking", "acting"}
  /\ stopping' = TRUE
  /\ crossed' = (agent = "asking")
  /\ UNCHANGED <<agent, asked, tier, taken, decision, acted>>

\* check_cancelled raises OperationCancelled: no run is recorded.
Leave ==
  /\ agent' = "left"
  /\ UNCHANGED <<asked, tier, taken, decision, stopping, acted, crossed>>

\* run: a step begins, or the steps ran out and the summary is asked for.
AskNext ==
  /\ agent = "next"
  /\ \/ stopping /\ Leave
     \/ /\ ~stopping
        /\ agent' = "asking" /\ tier' = 1 /\ decision' = Silence
        /\ asked' = IF taken < MaxSteps THEN "next" ELSE "summary"
        /\ UNCHANGED <<taken, stopping, acted, crossed>>

AnswerWith(d) == agent' = "ok" /\ acted' = acted \cup {d} /\ decision' = d

\* What the run does with the decision it settled on.
Act(d) ==
  /\ UNCHANGED <<asked, tier>>
  /\ \/ d.says = "action" /\ agent' = "acting" /\ decision' = d /\ UNCHANGED acted
     \/ d.says \in {"final", "text"} /\ AnswerWith(d)
     \/ d.says = "nothing" /\ agent' = "failed" /\ decision' = d /\ UNCHANGED acted

AskAgain(d) ==
  /\ decision' = d /\ asked' = "again" /\ tier' = 1
  /\ UNCHANGED <<agent, acted>>

Fail == agent' = "failed" /\ UNCHANGED <<asked, tier, decision, acted>>

\* The first reply to a question.  A blank one means that no model is there.
TakeFirst(d, blank) ==
  \/ blank /\ Fail
  \/ ~blank /\ (d.cut \/ ~Structured(d)) /\ AskAgain(d)
  \/ ~blank /\ ~d.cut /\ Structured(d) /\ Act(d)

\* _ask_again: nothing from a reply that was cut off is used; a text that is
\* neither step nor answer is the answer when the second reply is no better.
TakeAgain(d) ==
  \/ decision.cut /\ d.cut /\ Fail
  \/ decision.cut /\ ~d.cut /\ Act(d)
  \/ ~decision.cut /\ d.cut /\ Act(decision)
  \/ /\ ~decision.cut /\ ~d.cut
     /\ IF Structured(d) \/ decision.says = "nothing" THEN Act(d) ELSE Act(decision)

\* _summarize: the model's summary, or a recap written here.
TakeSummary(d) ==
  /\ agent' = "stopped" /\ decision' = d
  /\ acted' = IF ~d.cut /\ d.says \in {"final", "text"} THEN acted \cup {d} ELSE acted
  /\ UNCHANGED <<asked, tier>>

Take(d, blank) ==
  CASE asked = "next"    -> TakeFirst(d, blank)
    [] asked = "again"   -> TakeAgain(d)
    [] asked = "summary" -> TakeSummary(d)

\* decide: a tier replies, and the stop is looked at before the reply is.
TierReplies ==
  /\ agent = "asking"
  /\ \/ stopping /\ Leave
     \/ /\ ~stopping
        /\ \E d \in Replies : Take(d, FALSE)
        /\ UNCHANGED <<taken, stopping, crossed>>

\* A tier has nothing to say or cannot be reached: the next one is asked, and
\* after the last the reply is blank.
TierIsSilent ==
  /\ agent = "asking"
  /\ \/ stopping /\ Leave
     \/ /\ ~stopping /\ tier < TierCount
        /\ tier' = tier + 1
        /\ UNCHANGED <<agent, asked, taken, decision, stopping, acted, crossed>>
     \/ /\ ~stopping /\ tier = TierCount
        /\ Take(Silence, TRUE)
        /\ UNCHANGED <<taken, stopping, crossed>>

\* The question itself raises (an older provider's second call is not caught).
\* Only the second question looks at the stop before it reads this as an error.
AskingRaises ==
  /\ agent = "asking"
  /\ \/ asked = "again" /\ stopping /\ Leave
     \/ /\ CASE asked = "next"    -> Fail
             [] asked = "again"   -> ~stopping /\ IF decision.cut THEN Fail ELSE Act(decision)
             [] asked = "summary" -> TakeSummary(Silence)
        /\ UNCHANGED <<taken, stopping, crossed>>

\* The command is executed, well or badly; one that looks at the stop leaves.
Execute ==
  /\ agent = "acting"
  /\ \/ stopping /\ Leave
     \/ /\ agent' = "next" /\ taken' = taken + 1
        /\ acted' = acted \cup {decision}
        /\ UNCHANGED <<asked, tier, decision, stopping, crossed>>

AgentNext == PressStopAgent \/ AskNext \/ TierReplies \/ TierIsSilent \/ AskingRaises \/ Execute

AgentSpec == AgentInit /\ [][AgentNext]_agentvars
-----------------------------------------------------------------------------
\* A command cut short is another command (_ask_again, _CUT_TWICE).
NoCutReplyIsUsed == \A d \in acted : ~d.cut

\* A run that Stop overtook while the model was asked did not answer.
StopIsNoAnswer == crossed => agent # "ok"

\* What a run carries out, answers and records comes from whole replies of a
\* model: never from one that was cut off, and never from the error that Stop
\* raised out of the asking.
RunsGoByWholeReplies == NoCutReplyIsUsed /\ StopIsNoAnswer
=============================================================================
