------------------------------ MODULE Routing ------------------------------
(***************************************************************************)
(* What becomes of a sentence (orchestrator.handle, _handle, _route): a    *)
(* form typed outright runs; a sentence with several requests is split;    *)
(* anything else is read by the instant router, by nobody or by a model,   *)
(* and what they make of it is repaired before it runs - a model makes up  *)
(* targets, subjects and shell commands, and hears "open" in "do not open".*)
(* The words themselves are left out: a sentence is what the tests of the  *)
(* code find in it, and a router may make anything of it.                  *)
(***************************************************************************)
EXTENDS Naturals

CONSTANTS
  Sentences,   \* what the tests find: sets of Marks
  Topics,      \* what an assistant's turn may have been about
  MostParts,   \* requests in one sentence, at most
  MostTurns    \* bound: turns

\* form: a command's own prefix; prose: one that goes on like English.
\* asks-to-run, typed: a run verb or a shell; the command itself as the request.
\* asks-how: a question about running, or a refusal to.  back, subject: "this",
\* and words of its own that name something.  to-be-told: "remind me how".
\* names: a move, a rename, the file itself.
Marks ==
  {"form", "prose", "negated", "not-forget", "to-be-told", "plain", "asks-to-run", "typed", "asks-how",
   "back", "subject", "diagram", "spelled", "file", "pages", "names"}

\* What a picture is of.
PicturesOf == {"scene", "diagram", "text", "none"}

ASSUME RoutingAssumption ==
  /\ MostParts \in Nat \ {0, 1} /\ MostTurns \in Nat
  /\ Topics \subseteq PicturesOf
  /\ \A s \in Sentences : s \subseteq Marks

\* What a router answers: talk, talk it has the words for, or a command; `from` is
\* where its argument comes from, `on` what a picture is of.
Targets == {"open", "change-file"}
Kinds == {"chat", "small-talk", "told", "run", "transcribe", "document", "image", "timecard",
          "undo-file", "reminder", "tool"} \cup Targets
Origins == {"none", "named", "half-named", "nameless", "made-up", "topic"}

VARIABLES
  mode,     \* where the turn is
  sentence, \* the sentence, or the part of it, that is handled
  split,    \* it is a part of one
  parts,    \* parts still to come
  decision, \* what it was routed to
  source,   \* by whom
  topic,    \* of the conversation as it was sent: what its last assistant turn that has one is about
  changed,  \* its last reply is a file change of ours
  begins,   \* the reply so far begins with one; "none" before there is any
  ran,      \* ghost: what the router had run last in this turn
  taken     \* turns taken

routingvars == <<mode, sentence, split, parts, decision, source, topic, changed, begins, ran, taken>>

Decision == [do : Kinds, from : Origins, on : PicturesOf, pages : BOOLEAN]
Bare(kind) == [do |-> kind, from |-> "none", on |-> "scene", pages |-> FALSE]
Chat == Bare("chat")
IsCommand(d) == d.do \notin {"chat", "small-talk", "told"}
NothingRan == [says |-> {}, made |-> Chat, by |-> "nobody"]

RoutingTypeOK ==
  /\ mode \in {"idle", "handle", "dispatch", "route", "run", "reply", "next"}
  /\ sentence \in SUBSET Marks /\ split \in BOOLEAN /\ parts \in 0..(MostParts - 1) /\ decision \in Decision
  /\ source \in {"nobody", "heuristic", "direct-chat", "llm"}
  /\ topic \in Topics /\ changed \in BOOLEAN /\ begins \in {"none", "change", "other"}
  /\ ran \in [says : SUBSET Marks, made : Decision, by : {"nobody", "heuristic", "llm"}]
  /\ taken \in 0..MostTurns

Resting ==
  /\ sentence = {} /\ split = FALSE /\ parts = 0 /\ decision = Chat /\ source = "nobody" /\ begins = "none" /\ ran = NothingRan

RoutingInit == mode = "idle" /\ Resting /\ topic \in Topics /\ changed = FALSE /\ taken = 0
-----------------------------------------------------------------------------
\* What the routers may answer.  The instant one answers a negated request with talk
\* and brings a file back only after a change of it, or by name; the model knows neither.
Commands ==
  {[Bare(k) EXCEPT !.from = o] : k \in Targets \cup {"transcribe"}, o \in {"named", "half-named", "nameless", "made-up"}}
  \cup {[Bare("image") EXCEPT !.from = "made-up", !.on = o] : o \in {"scene", "diagram", "text"}}
  \cup {[Bare("document") EXCEPT !.pages = p] : p \in BOOLEAN}
  \cup {Bare(k) : k \in {"run", "undo-file", "reminder", "tool"}}

InstantCommands(s) == {c \in Commands : c.do = "undo-file" => changed \/ "names" \in s}
\* What no reader claims is talk, with a reply of its own for small talk only.
LeftToTalk == {Chat, Bare("small-talk")}
InstantAnswers(s) == IF "negated" \in s THEN {Chat} ELSE InstantCommands(s) \cup LeftToTalk
ModelAnswers == {Chat, Bare("told")} \cup Commands
-----------------------------------------------------------------------------
\* _repair_shell_command: a refusal or a question runs nothing, else it was asked for in
\* so many words or typed.
RepairShell(s, d) ==
  IF d.do # "run" THEN d
  ELSE IF "asks-how" \in s THEN Chat
  ELSE IF "asks-to-run" \in s \/ "typed" \in s THEN d
  ELSE Bare("told")

\* Mutant of RepairImage: what it points at is looked for only when the router named nothing.
RepairImageNamed(s, d) ==
  IF d.do # "image" THEN {d}
  ELSE IF d.on = "diagram" \/ "diagram" \in s THEN {Chat}
  ELSE IF d.on = "text" \/ "spelled" \in s THEN {Bare("timecard")}
  ELSE {d}

\* _repair_image_command, _visual_prompt: "this" is the conversation's, whatever the router
\* took it for; a diagram is written, exact text is drawn here, and of a topic a model makes
\* a scene or says there is none.
RepairImage(s, d) ==
  LET pointsBack == "back" \in s /\ "subject" \notin s
      on == IF pointsBack THEN topic ELSE d.on IN
  IF d.do # "image" THEN {d}
  ELSE IF pointsBack /\ topic = "none" THEN {Chat}
  ELSE IF on = "diagram" \/ "diagram" \in s THEN {Chat}
  ELSE IF on = "text" \/ "spelled" \in s THEN {Bare("timecard")}
  ELSE IF pointsBack THEN {[d EXCEPT !.from = "topic", !.on = "scene"], Bare("told")}
  ELSE {d}

\* _repair_target_command: a target is named in the sentence or in the last turns, at least
\* in part; a recording by its whole name.
RepairTarget(d) ==
  IF \/ d.do \in Targets /\ d.from = "made-up"
     \/ d.do = "transcribe" /\ d.from \in {"made-up", "half-named"}
  THEN Chat ELSE d

\* _repair_diagram_command, _repair_document_length.
RepairDocument(s, d) ==
  IF d.do # "document" THEN d
  ELSE IF "diagram" \in s /\ "file" \notin s THEN Chat
  ELSE [d EXCEPT !.pages = @ \/ "pages" \in s]

\* What was not to be done is not done; "don't forget" asks for a reminder, and "remind me
\* how" for none.
Settled(s, d) ==
  IF \/ IsCommand(d) /\ "negated" \in s
     \/ IsCommand(d) /\ "not-forget" \in s /\ d.do # "reminder"
     \/ d.do = "reminder" /\ "to-be-told" \in s
  THEN Chat ELSE d

\* decided.
Decided(s, d) == {Settled(s, RepairDocument(s, RepairTarget(e))) : e \in RepairImage(s, d)}

\* The end of _route: the model's own answer is repaired first, and "undo that" brings a
\* file back only where a file was just changed.
ModelDecided(s, d) ==
  LET e == RepairShell(s, d) IN
  Decided(s, IF e.do = "undo-file" /\ ~changed THEN Chat ELSE e)
-----------------------------------------------------------------------------
\* The rest of a turn's state, but for where it is and what is named here.
Keep == UNCHANGED <<topic, changed, taken>>

\* A request, in the conversation as it stands.
AskInWords(s) ==
  /\ mode = "idle" /\ taken < MostTurns
  /\ mode' = "handle" /\ sentence' = s /\ taken' = taken + 1
  /\ UNCHANGED <<split, parts, decision, source, topic, changed, begins, ran>>

\* The text of a part's reply is put behind those before it.
Reply(change) ==
  /\ mode' = "next"
  /\ begins' = IF begins # "none" THEN begins ELSE IF change THEN "change" ELSE "other"

\* Empty, too long, a path nothing can open.
AnswerAtOnce ==
  /\ mode = "handle"
  /\ Reply(FALSE) /\ UNCHANGED <<sentence, split, parts, decision, source, ran>> /\ Keep

\* _split_requests: only where the instant router makes every part a command of its own.
MayBeAPart(s) == \E d \in InstantAnswers(s) : IsCommand(d)

Split ==
  /\ mode = "handle" /\ ~split
  /\ \E n \in 2..MostParts : parts' = n - 1
  /\ split' = TRUE /\ sentence' \in {s \in Sentences : MayBeAPart(s)}
  /\ UNCHANGED <<mode, decision, source, begins, ran>> /\ Keep

Whole ==
  /\ mode = "handle"
  /\ mode' = "dispatch"
  /\ UNCHANGED <<sentence, split, parts, decision, source, begins, ran>> /\ Keep

\* _run_each: the next part, as if it was said on its own.
NextPart(s) ==
  /\ mode = "next" /\ parts > 0 /\ MayBeAPart(s)
  /\ mode' = "handle" /\ parts' = parts - 1 /\ sentence' = s
  /\ decision' = Chat /\ source' = "nobody" /\ ran' = NothingRan
  /\ UNCHANGED <<split, begins>> /\ Keep

\* The first dispatcher that claims a form runs it; a form that reads as prose is the
\* router's.
Dispatched ==
  /\ mode = "dispatch" /\ "form" \in sentence /\ "prose" \notin sentence
  /\ \E change \in BOOLEAN : Reply(change)
  /\ UNCHANGED <<sentence, split, parts, decision, source, ran>> /\ Keep

NotAForm ==
  /\ mode = "dispatch" /\ ("form" \in sentence => "prose" \in sentence)
  /\ mode' = "route"
  /\ UNCHANGED <<sentence, split, parts, decision, source, begins, ran>> /\ Keep

Route(d, by) ==
  /\ mode' = IF IsCommand(d) THEN "run" ELSE "reply"
  /\ decision' = d /\ source' = by
  /\ UNCHANGED <<sentence, split, parts, begins, ran>> /\ Keep

\* A command or small talk of the instant router is taken, and anything where there is no
\* model, or one that failed a moment ago; a part of a split is a command of it.
RouteInstantly ==
  /\ mode = "route"
  /\ \E d \in InstantAnswers(sentence) :
       (split => IsCommand(d)) /\ \E e \in Decided(sentence, d) : Route(e, "heuristic")

\* A plain question needs no routing.
RouteToChat ==
  /\ mode = "route" /\ ~split /\ "plain" \in sentence
  /\ \E e \in Decided(sentence, Chat) : Route(e, "direct-chat")

RouteByModel ==
  /\ mode = "route" /\ ~split /\ "plain" \notin sentence
  /\ \E d \in ModelAnswers : \E e \in ModelDecided(sentence, d) : Route(e, "llm")

\* _run_routed: run once, with no planner; a command no tool knows, or one that came back
\* as it was said, is answered as the sentence it was.
RunRouted ==
  /\ mode = "run"
  /\ ran' = [says |-> sentence, made |-> decision, by |-> source]
  /\ \/ \E change \in BOOLEAN : (change => decision.do = "change-file") /\ Reply(change)
        /\ UNCHANGED decision
     \/ decision.do = "tool" /\ mode' = "reply" /\ decision' = Chat /\ UNCHANGED begins
  /\ UNCHANGED <<sentence, split, parts, source>> /\ Keep

\* The answer in words: the repair's own, one from the web, or a tier's.
Answer ==
  /\ mode = "reply"
  /\ Reply(FALSE) /\ UNCHANGED <<sentence, split, parts, decision, source, ran>> /\ Keep

\* The turn is over and is part of the conversation: its reply is what "undo that" may
\* mean, and may be what "this" is.
EndRouted ==
  /\ mode = "next" /\ parts = 0
  /\ mode' = "idle" /\ changed' = (begins = "change") /\ topic' \in {topic} \cup (Topics \ {"none"})
  /\ sentence' = {} /\ split' = FALSE /\ decision' = Chat /\ source' = "nobody" /\ begins' = "none" /\ ran' = NothingRan
  /\ UNCHANGED <<parts, taken>>

\* A tool raised, the card was refused, or the request was stopped: the turn ends where it
\* is, answered by the last line of defence or not at all.
BreaksOff ==
  /\ mode \in {"handle", "dispatch", "route", "run", "reply"}
  /\ mode' = "idle" /\ changed' = FALSE /\ topic' = topic
  /\ sentence' = {} /\ split' = FALSE /\ parts' = 0 /\ decision' = Chat /\ source' = "nobody" /\ begins' = "none"
  /\ ran' = NothingRan /\ UNCHANGED taken

\* A part whose card is refused is only that part's failure.
PartRefused ==
  /\ mode \in {"dispatch", "run"} /\ split
  /\ Reply(FALSE) /\ UNCHANGED <<sentence, split, parts, decision, source, ran>> /\ Keep

RoutingNext ==
  \/ \E s \in Sentences : AskInWords(s) \/ NextPart(s)
  \/ AnswerAtOnce \/ Split \/ Whole \/ Dispatched \/ NotAForm
  \/ RouteInstantly \/ RouteToChat \/ RouteByModel \/ RunRouted \/ Answer
  \/ EndRouted \/ BreaksOff \/ PartRefused

RoutingSpec == RoutingInit /\ [][RoutingNext]_routingvars
-----------------------------------------------------------------------------
\* What a router makes of a sentence is run only where the sentence, or the conversation
\* it is said in, asked for it - whichever router read it, whether it was split, and
\* whatever the repairs before the last one made of it.
NothingUnaskedIsRun ==
  ran # NothingRan =>
    LET d == ran.made s == ran.says IN
    /\ IsCommand(d) /\ "negated" \notin s
    /\ d.do = "run" /\ ran.by = "llm" => "asks-how" \notin s /\ s \cap {"asks-to-run", "typed"} # {}
    /\ d.do = "undo-file" => changed \/ ("names" \in s /\ ran.by = "heuristic")
    /\ "not-forget" \in s => d.do = "reminder"
    /\ d.do = "reminder" => "to-be-told" \notin s

\* Nothing is made up: what is opened, changed or transcribed was named by somebody, and a
\* picture of "this" is of what was talked about; what must be exact is not left to a model.
NothingIsMadeUp ==
  ran # NothingRan =>
    LET d == ran.made s == ran.says
        this == "back" \in s /\ "subject" \notin s IN
    /\ d.do \in Targets => d.from # "made-up"
    /\ d.do = "transcribe" => d.from \in {"named", "nameless"}
    /\ d.do = "image" => /\ s \cap {"diagram", "spelled"} = {} /\ d.on = "scene"
                         /\ this => d.from = "topic" /\ topic = "scene"
    /\ d.do = "timecard" /\ this => topic = "text" \/ "spelled" \in s
    /\ d.do = "document" => /\ "pages" \in s => d.pages
                            /\ "diagram" \in s => "file" \in s

SentencesAreHeard == NothingUnaskedIsRun /\ NothingIsMadeUp
=============================================================================
