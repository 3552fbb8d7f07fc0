------------------------------ MODULE MCTurns ------------------------------
(***************************************************************************)
(* What a turn asks leave for, is told of its conversation, takes a short  *)
(* reply, a spoken name or a command for and leaves in the records:        *)
(* Approvals, Context, Replies, Forms and Records on small instances, in   *)
(* one run.                                                                *)
(* They share no state, so a behaviour of this module is one of theirs,    *)
(* the others resting where they started.  Turns and cards are             *)
(* interchangeable; accounts are not, one of them being a developer's.     *)
(***************************************************************************)
EXTENDS Approvals, Context, Replies, Forms, Records, TLC

\* A short question and a long one, and an answer of two pieces.
TheShapes ==
  {[role |-> "user", pieces |-> <<1>>], [role |-> "user", pieces |-> <<7>>],
   [role |-> "assistant", pieces |-> <<5, 2>>]}

\* A timer, a reminder that speaks of one, and an alarm.
TheSubjects ==
  {[words |-> {"timer"}, kind |-> "timer"], [words |-> {"fix", "egg", "timer"}, kind |-> "reminder"],
   [words |-> {"alarm"}, kind |-> "alarm"]}
TheSayings == {<<>>, <<"last">>, <<"timer">>, <<"alarm">>, <<"egg">>}

VARIABLE part

turnvars == <<part, vars, contextvars, followvars, namingvars, formvars, recordvars>>

TurnsInit ==
  /\ part \in {"approvals", "context", "replies", "naming", "forms", "failures", "timings", "samples"}
  /\ Init /\ ContextInit /\ FollowUpsInit /\ NamingInit /\ FormsInit /\ RecordsInit

\* A step of one part; the others rest.
InPart(name, A) ==
  /\ part = name /\ A /\ UNCHANGED part
  /\ name # "approvals" => UNCHANGED vars
  /\ name # "context" => UNCHANGED contextvars
  /\ name # "replies" => UNCHANGED followvars
  /\ name # "naming" => UNCHANGED namingvars
  /\ name # "forms" => UNCHANGED formvars
  /\ name # "failures" => UNCHANGED failurevars
  /\ name # "timings" => UNCHANGED timingvars
  /\ name # "samples" => UNCHANGED samplevars

TurnsNext ==
  \/ InPart("approvals", Next) \/ InPart("context", ContextNext) \/ InPart("replies", FollowUpsNext)
  \/ InPart("naming", NamingNext) \/ InPart("forms", FormsNext) \/ InPart("failures", FailuresNext)
  \/ InPart("timings", TimingsNext) \/ InPart("samples", SamplesNext)

TurnsSpec == TurnsInit /\ [][TurnsNext]_turnvars

TurnsTypeOK == TypeOK /\ ContextTypeOK /\ FollowUpsTypeOK /\ NamingTypeOK /\ FormsTypeOK /\ RecordsTypeOK

Symmetry == Permutations(Turns) \cup Permutations(Cards)

\* A conversation is followed: what a model is told of it is what was said (context.py), a
\* short reply is taken for what it answers, a reminder is the one that was named, or
\* picked from a list, and a command runs the tool whose form it is, for those who may
\* have it (orchestrator.py).
TheConversationIsFollowed ==
  /\ [][ContextTellsTheConversation']_contextvars /\ [][RepliesAreUnderstood']_followvars
  /\ TheRightOneIsNamed /\ []FormsAgree

\* What the assistant writes down of itself: a failure once and for longer than its
\* process lives (failures.py), a turn's time once and for as many days as are kept
\* (tracing.py), and a sample of the load for all who ask (metrics.py).
RecordsAreTrue ==
  /\ [][FailuresOutliveTheProcess']_failurevars /\ [][TimingsAreKept']_timingvars
  /\ SamplesAreShared
=============================================================================
