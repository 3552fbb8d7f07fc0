------------------------------ MODULE Dispatch ------------------------------
(***************************************************************************)
(* How a request becomes commands, and for whom they run: a sentence is    *)
(* completed from the conversation, split, planned by a model; a command   *)
(* may be an agent run, a workflow, a batch or the due jobs, whose steps   *)
(* are commands again.  Every one of them asks whether the session still   *)
(* stands and what the account may do.  Of the four lanes of a `multi` a   *)
(* behaviour follows one.                                                  *)
(***************************************************************************)
EXTENDS Naturals, Sequences, FiniteSets

CONSTANTS
  MaxFrames,    \* bound: commands under way inside each other
  MaxBegun,     \* bound: commands begun
  MostSteps     \* bound: steps of one batch, run or split sentence

ASSUME DispatchAssumption == MaxFrames \in Nat \ {0} /\ MaxBegun \in Nat \ {0} /\ MostSteps \in Nat \ {0}

\* What a text is to the dispatchers: an everyday form (one of them with a step
\* that needs a HIGH approval), a developer's form, one in neither list, a
\* developer's form that runs further commands, or words that none claims.
Tools == {"everyday", "risky", "dev", "unlisted"}
Composites == {"agent", "autopilot", "workflow", "multi", "due"}
Texts == Tools \cup Composites \cup {"prose"}
EverydayForms == {"everyday", "risky"}
DeveloperForms == {"dev"} \cup Composites

VARIABLES
  account,  \* who the request acts for: a personal or a developer's account, or the owner
  session,  \* the session it came with still stands
  frames,   \* the commands under way, each inside the one before
  begun,    \* commands begun
  ran,      \* ghost: the tools that ran
  late      \* ghost: how many of them after the session had ended

dispatchvars == <<account, session, frames, begun, ran, late>>

Frame == [do : {"begin", "limits", "route", "routed", "split"} \cup Composites,
          text : Texts, planner : BOOLEAN, whole : BOOLEAN, left : 0..MostSteps]

DispatchTypeOK ==
  /\ account \in {"personal", "dev", "owner"} /\ session \in BOOLEAN
  /\ frames \in Seq(Frame) /\ Len(frames) <= MaxFrames
  /\ begun \in 0..MaxBegun /\ ran \subseteq Tools /\ late \in 0..MaxBegun

DispatchInit ==
  /\ account \in {"personal", "dev", "owner"} /\ session = TRUE
  /\ frames = <<>> /\ begun = 0 /\ ran = {} /\ late = 0

Personal == account = "personal"
SignedOut == account # "owner" /\ ~session
-----------------------------------------------------------------------------
Top == frames[Len(frames)]
TopIs(d) == frames # <<>> /\ Top.do = d
Below == SubSeq(frames, 1, Len(frames) - 1)
Goes(f) == frames' = Append(Below, f)

\* A command for handle: with the planner or without, whole or part of a split.
Command(t, planner, whole) ==
  [do |-> "begin", text |-> t, planner |-> planner, whole |-> whole, left |-> 0]
AgentRun == [do |-> "agent", text |-> "agent", planner |-> FALSE, whole |-> TRUE, left |-> MostSteps]

Under(f, g) ==
  /\ Len(frames) < MaxFrames /\ begun < MaxBegun
  /\ frames' = Append(Append(Below, f), g) /\ begun' = begun + 1

\* A command is done, well or badly, or refused at the gate: what runs below
\* goes on with its result.
Return == frames' = Below

\* SignedOut passes through everything but a multi, which begins what is left
\* of it and asks again.
Unwind ==
  LET multis == {i \in 1..(Len(frames) - 1) : frames[i].do = "multi"} IN
  \/ multis = {} /\ frames' = <<>>
  \/ \E i \in multis : (\A j \in multis : j <= i) /\ frames' = SubSeq(frames, 1, i)

Quiet == UNCHANGED <<account, session, ran, late>>

\* _may_use: which routes an account may use.
MayUse(route) == account # "personal" \/ route = "stream"

\* A request of the page or the command line, an agent run of the page, or the
\* ticker's due jobs.
Ask ==
  /\ frames = <<>> /\ begun = 0 /\ session /\ begun' = 1
  /\ \/ \E t \in Texts : MayUse("stream") /\ frames' = <<Command(t, TRUE, TRUE)>>
     \/ account = "dev" /\ MayUse("agent") /\ frames' = <<AgentRun>>
     \/ account = "owner" /\ frames' = <<[AgentRun EXCEPT !.do = "due", !.text = "due"]>>
  /\ Quiet

\* The password is changed elsewhere, the account is disabled or deleted.
SessionEnds ==
  /\ session /\ account # "owner"
  /\ session' = FALSE
  /\ UNCHANGED <<account, frames, begun, ran, late>>

StillSignedIn(f) == ~SignedOut

\* _handle: the session is asked for; a request is completed from the turns its
\* client sent, into any text; a sentence may hold several requests.

Begin ==
  /\ TopIs("begin")
  /\ \/ ~StillSignedIn(Top) /\ Unwind
     \/ StillSignedIn(Top) /\ Return    \* empty, too long, an unusable path
     \/ StillSignedIn(Top) /\ \E t \in Texts :
          /\ t = Top.text \/ (Top.planner /\ Len(frames) = 1)
          /\ Goes([Top EXCEPT !.do = "limits", !.text = t])
     \/ /\ StillSignedIn(Top) /\ Top.planner /\ Top.whole
        /\ Goes([Top EXCEPT !.do = "split", !.text = "prose", !.left = MostSteps])
  /\ UNCHANGED begun /\ Quiet

\* _account_limits: a developer's form is refused, and whatever is not everyday
\* is not dispatched.
\* Mutant of MayDispatch: only what the planner made is held to the everyday forms.
MayDispatchUnlisted(f) == ~Personal \/ f.text \notin DeveloperForms
MayDispatch(f) == ~Personal \/ f.text \in EverydayForms
Refused(f) == Personal /\ (f.text \in DeveloperForms \/ (~f.planner /\ ~MayDispatch(f)))

\* require: a personal account is not even asked about a HIGH risk.
GateLetsThrough(t) == ~(Personal /\ t = "risky")

RunTool(t) ==
  /\ Return
  /\ IF GateLetsThrough(t)
     THEN ran' = ran \cup {t} /\ late' = IF SignedOut THEN late + 1 ELSE late
     ELSE UNCHANGED <<ran, late>>

ToPlanner == IF Top.planner THEN Goes([Top EXCEPT !.do = "route", !.text = "prose"]) ELSE Return

\* Words that do not fit the form's grammar are the planner's; then the limits,
\* then the first dispatcher that claims the text, or none.
Limits ==
  /\ TopIs("limits")
  /\ \/ Top.planner /\ ToPlanner /\ UNCHANGED <<ran, late>>
     \/ Refused(Top) /\ Return /\ UNCHANGED <<ran, late>>
     \/ ~Refused(Top) /\ ~MayDispatch(Top) /\ ToPlanner /\ UNCHANGED <<ran, late>>
     \/ /\ ~Refused(Top) /\ MayDispatch(Top)
        /\ \/ ToPlanner /\ UNCHANGED <<ran, late>>
           \/ Top.text \in Tools /\ RunTool(Top.text)
           \/ /\ Top.text \in Composites
              /\ Goes([Top EXCEPT !.do = Top.text, !.left = MostSteps]) /\ UNCHANGED <<ran, late>>
  /\ UNCHANGED <<account, session, begun>>

\* _route, then a chat answer, or handle for the command that was planned.
Route ==
  /\ TopIs("route")
  /\ \/ Return /\ UNCHANGED begun
     \/ \E t \in Texts : Under([Top EXCEPT !.do = "routed"], Command(t, FALSE, TRUE))
  /\ Quiet

RoutedReturns == TopIs("routed") /\ Return /\ UNCHANGED begun /\ Quiet

\* The steps each composite may take: those of an agent come from a model, an
\* autopilot's from a list of safe forms, a workflow's and a multi's from the
\* text, and are planned as a user's own would be.
StepOf(d, g) ==
  CASE d = "agent"     -> \E t \in Texts : g = Command(t, FALSE, TRUE)
    [] d = "autopilot" -> \E t \in {"everyday", "dev"} : g = Command(t, FALSE, TRUE)
    [] d = "workflow"  -> \E t \in Texts \ {"workflow"} : g = Command(t, TRUE, TRUE)
    [] d = "multi"     -> \E t \in Texts : g = Command(t, TRUE, TRUE)
    [] d = "due"       -> g = AgentRun \/ \E t \in Texts : g = Command(t, FALSE, TRUE)
    [] d = "split"     -> \E t \in Texts \ {"prose"} : g = Command(t, TRUE, FALSE)

Commands == [do : {"begin"}, text : Texts, planner : BOOLEAN, whole : BOOLEAN, left : {0}] \cup {AgentRun}

NextStep ==
  /\ frames # <<>> /\ Top.do \in Composites \cup {"split"} /\ Top.left > 0
  /\ \E g \in Commands : StepOf(Top.do, g) /\ Under([Top EXCEPT !.left = Top.left - 1], g)
  /\ Quiet

\* The steps are over, or the first that failed stopped them; a multi asks for
\* the session once more.
StepsEnd ==
  /\ frames # <<>> /\ Top.do \in Composites \cup {"split"}
  /\ IF Top.do = "multi" /\ SignedOut THEN Unwind ELSE Return
  /\ UNCHANGED begun /\ Quiet

DispatchNext ==
  Ask \/ SessionEnds \/ Begin \/ Limits \/ Route \/ RoutedReturns \/ NextStep \/ StepsEnd

DispatchSpec == DispatchInit /\ [][DispatchNext]_dispatchvars
-----------------------------------------------------------------------------
\* A personal account is the assistant, not the machine (access.py:8-12), by
\* whichever way the command came to be.
PersonalIsEveryday ==
  Personal => /\ ran \subseteq {"everyday"}
              /\ \A i \in DOMAIN frames : frames[i].do \notin Composites

\* Work under a session that ended stops at its next step (access.py:17-20).
WorkEndsWithItsSession == late <= 1

\* Neither a model's plan, a reply completed from what the client sent, nor a
\* step of anything that runs commands lets an account do what it may not, and
\* nothing goes on for a session that is over.
EveryCommandIsHeldToItsAccount == PersonalIsEveryday /\ WorkEndsWithItsSession
=============================================================================
