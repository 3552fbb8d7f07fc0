-------------------------------- MODULE Engines --------------------------------
(***************************************************************************)
(* One question to the outside world, and the engines that may answer it:  *)
(* text in a picture and speech (tools/transcribe.py), the voice           *)
(* (voice.py), pictures (tools/imagegen.py), web search, weather, news and *)
(* translation.  An engine the user has named is the only one that is      *)
(* asked; otherwise a hosted one goes first and a local one stands in.     *)
(* What each may raise decides who is asked next, and Stop must not be     *)
(* taken for a failure.                                                    *)
(***************************************************************************)
EXTENDS Naturals

CONSTANTS
  Budget,      \* ImageTool.timeout: for every attempt at one picture
  MinAttempt   \* MIN_ATTEMPT_SECONDS: an extra attempt is not begun with less

ASSUME EnginesAssumption == Budget \in Nat /\ MinAttempt \in Nat

VARIABLES
  asking,   \* what is asked, and what there is to answer it
  standing, \* where it stands
  engine,   \* the engine under way
  left,     \* those still to be asked
  tried,    \* those that were begun
  met,      \* how each of them ended
  noted,    \* those record_failure has put down
  spent,    \* of the budget of a picture
  until,    \* when the attempt under way is given up
  stopped,  \* Stop was pressed, and the engine that was under way
  outcome   \* what was told

enginevars == <<asking, standing, engine, left, tried, met, noted, spent, until, stopped, outcome>>

\* The engines of each kind of question.  Those of the weather are the forms of the place that are
\* looked up, those of the news its feeds.
EnginesOf == [
  imagetext |-> {"parse", "tesseract"}, speech |-> {"riva", "vosk", "whisper"},
  voice |-> {"magpie", "offline"}, picture |-> {"model", "second"}, search |-> {"api", "duckduckgo"},
  weather |-> {"whole", "trimmed", "head"}, news |-> {"feed", "other"}, translation |-> {"nmt"}]

\* Where each stands among those of its kind: the preferred is the first.
Order == [
  parse |-> 1, tesseract |-> 2, riva |-> 1, vosk |-> 2, whisper |-> 3, magpie |-> 1, offline |-> 2,
  model |-> 1, second |-> 2, api |-> 1, duckduckgo |-> 2, whole |-> 1, trimmed |-> 2, head |-> 3,
  feed |-> 1, other |-> 2, nmt |-> 1]

Foremost(E) == CHOOSE e \in E : \A f \in E : Order[e] <= Order[f]
Hindmost(E) == CHOOSE e \in E : \A f \in E : Order[f] <= Order[e]

QuestionKinds == DOMAIN EnginesOf
Named == {"imagetext", "speech", "voice"}   \* kinds whose engine can be set: LAPTOP_AGENT_OCR, _STT, _TTS
Shown == QuestionKinds \ Named                      \* kinds that have a card
Hosted == {"parse", "riva", "magpie"}
\* missing: not installed, or no key.  rpc: the SDK's own error.  odd: what no handler lists.
Met == {"answer", "empty", "missing", "error", "rpc", "odd"}

EnginesTypeOK ==
  /\ asking \in [kind : QuestionKinds, set : {"auto"} \cup DOMAIN Order, has : SUBSET DOMAIN Order, wav : BOOLEAN]
  /\ standing \in {"asked", "between", "under-way", "over"}
  /\ left \subseteq EnginesOf[asking.kind] /\ tried \subseteq EnginesOf[asking.kind]
  /\ engine \in tried \cup {"none"} /\ noted \subseteq tried
  /\ DOMAIN met \subseteq tried /\ \A e \in DOMAIN met : met[e] \in Met
  /\ spent \in 0..(Budget + MinAttempt) /\ until \in Nat
  /\ stopped \in tried \cup {"no", "early"}
  /\ outcome \in {"none", "answered", "failed", "stopped", "unexpected", "refused"}

Unset == asking.set = "auto"

\* Is the engine asked when none is named?  The last resort is, whether it is there or not.
Goes(e) ==
  CASE e = "riva" -> e \in asking.has /\ asking.wav
    [] e = "whisper" -> "vosk" \notin asking.has
    [] e \in {"tesseract", "offline"} -> TRUE
    [] OTHER -> e \in asking.has

Candidates == IF Unset THEN {e \in EnginesOf[asking.kind] : Goes(e)} ELSE {asking.set}

\* stt_engine_name, ocr_engine_name, tts_engine_name: what the page is told would be reached.
Present == EnginesOf[asking.kind] \cap asking.has
ToldEngine ==
  IF ~Unset THEN IF asking.set \in asking.has THEN asking.set ELSE "none"
  ELSE IF Present = {} THEN "none" ELSE Foremost(Present)

EnginesInit ==
  /\ \E k \in QuestionKinds : \E has \in SUBSET EnginesOf[k], set \in {"auto"} \cup EnginesOf[k], wav \in BOOLEAN :
       /\ asking = [kind |-> k, set |-> set, has |-> has, wav |-> wav]
       /\ k \notin Named => set = "auto"
       /\ k # "speech" => wav
       /\ k \in {"picture", "weather", "news", "translation"} => Foremost(EnginesOf[k]) \in has
       /\ k = "search" => "duckduckgo" \in has
  /\ standing = "asked" /\ engine = "none" /\ left = {} /\ tried = {} /\ met = <<>> /\ noted = {}
  /\ spent = 0 /\ until = 0 /\ stopped = "no" /\ outcome = "none"

Ends(told) == standing' = "over" /\ outcome' = told /\ engine' = "none"

-----------------------------------------------------------------------------
\* The card, for what leaves the laptop with one; an OCR or a transcription has none.
Prepare ==
  /\ standing = "asked"
  /\ standing' = "between" /\ left' = Candidates
  /\ UNCHANGED <<asking, engine, tried, met, noted, spent, until, stopped, outcome>>

Refuse ==
  /\ standing = "asked" /\ asking.kind \in Shown
  /\ Ends("refused")
  /\ UNCHANGED <<asking, left, tried, met, noted, spent, until, stopped>>

Larger(a, b) == IF a > b THEN a ELSE b
Remaining == IF spent < Budget THEN Budget - spent ELSE 0
\* What one attempt at a picture may take.
Allowed == Larger(Remaining, MinAttempt)
\* The first attempt always runs.
TooLate == asking.kind = "picture" /\ tried # {} /\ Remaining < MinAttempt

Begin ==
  /\ standing = "between" /\ left # {} /\ ~TooLate
  /\ standing' = "under-way" /\ engine' = Foremost(left) /\ left' = left \ {Foremost(left)} /\ tried' = tried \cup {Foremost(left)}
  /\ until' = IF asking.kind = "picture" THEN spent + Allowed ELSE 0
  /\ UNCHANGED <<asking, met, noted, spent, stopped, outcome>>

\* Nobody is left to ask.  The news are what any of the feeds held.
GiveUp ==
  /\ standing = "between" /\ (left # {} => TooLate)
  /\ Ends(IF asking.kind = "news" /\ \E e \in tried : met[e] = "answer" THEN "answered" ELSE "failed")
  /\ UNCHANGED <<asking, left, tried, met, noted, spent, until, stopped>>

\* Parakeet is asked in short waits, each after check_cancelled.
Listens == engine = "riva"

\* Mutant of HostedFailures: the SDK's own error is not among them.
HostedFailuresOfOurs == {"missing", "error"}

\* _hosted_failures: what sends a recording on to a local engine.
HostedFailures == {"missing", "error", "rpc"}

\* Is the next one asked, after this end?
GoesOn(how) ==
  CASE asking.kind = "imagetext" -> how # "answer" /\ left # {}
    [] asking.kind = "speech" -> how \in HostedFailures /\ left # {}
    [] asking.kind = "voice" -> how # "answer" /\ left # {}
    [] asking.kind \in {"picture", "search"} -> how \in {"empty", "error"}
    [] asking.kind = "weather" -> how = "empty"
    [] asking.kind = "news" -> how # "odd"
    [] OTHER -> FALSE

\* An end that is the user's.  An empty transcript or page is one.
Told(how) ==
  IF how = "answer" \/ (how = "empty" /\ asking.kind \in {"imagetext", "speech"}) THEN "answered"
  ELSE IF how = "odd" /\ asking.kind \in {"picture", "news"} THEN "unexpected" ELSE "failed"

\* Ends that are put down for whoever asks why.
Noted(how) ==
  CASE asking.kind = "imagetext" -> how # "answer" /\ engine = "parse" /\ Unset
    [] asking.kind = "speech" -> how \in {"error", "rpc", "odd"} \/ (how = "missing" /\ left # {})
    [] asking.kind = "voice" -> /\ how # "answer" /\ (how = "missing" => engine = "magpie" /\ Unset)
                                /\ (how = "empty" => engine = "magpie")
    [] asking.kind = "picture" -> how \in {"empty", "error"}
    [] asking.kind = "translation" -> how \notin {"answer", "missing"}
    [] OTHER -> FALSE

\* How an engine may end.
MayEnd(how) ==
  /\ how = "missing" => engine \notin asking.has \/ engine \in Hosted \cup {"nmt", "tesseract"}
  /\ engine \notin asking.has => how = "missing"
  /\ how = "rpc" => engine \in {"riva", "magpie", "nmt"}

AttemptEnds ==
  /\ standing = "under-way"
  /\ \E how \in Met, took \in 0..(IF asking.kind = "picture" THEN Allowed ELSE 0) :
       /\ MayEnd(how)
       /\ spent' = spent + took
       /\ IF Listens /\ stopped # "no" THEN Ends("stopped") /\ UNCHANGED <<met, noted>>
          ELSE /\ met' = [e \in DOMAIN met \cup {engine} |-> IF e = engine THEN how ELSE met[e]]
               /\ noted' = IF Noted(how) THEN noted \cup {engine} ELSE noted
               /\ IF GoesOn(how) THEN standing' = "between" /\ UNCHANGED <<outcome, engine>>
                  ELSE Ends(Told(how))
  /\ UNCHANGED <<asking, left, tried, until, stopped>>

\* The user presses Stop, which only Parakeet's waits look for; the turn looks when the tool is done.
PressStop ==
  /\ stopped = "no" /\ standing # "over"
  /\ stopped' = IF standing = "under-way" THEN engine ELSE "early"
  /\ UNCHANGED <<asking, standing, engine, left, tried, met, noted, spent, until, outcome>>

EnginesNext == Prepare \/ Refuse \/ Begin \/ GiveUp \/ AttemptEnds \/ PressStop

EnginesSpec == EnginesInit /\ [][EnginesNext]_enginevars

-----------------------------------------------------------------------------
\* After Stop during a hosted transcription nothing local is begun, whatever error the call
\* raised meanwhile (transcribe.py:498: "Stop racing an RPC error must not start a local
\* fallback").
StopStartsNothing == stopped = "riva" => tried = {"riva"}

\* An engine that is passed over is put down: a hosted engine that is always broken must not look
\* like the local one being the user's choice (transcribe.py:264, imagegen.py:199).
NoSilentFallback ==
  asking.kind \in Named \cup {"picture"} =>
    \A e \in DOMAIN met : met[e] # "answer" /\ tried # {e} /\ e # Hindmost(Candidates) => e \in noted

\* Losing the network costs quality, not the feature: nobody is told of a failure before the last
\* resort was asked, unless a picture's budget is used up or an engine ended as no handler expects.
LastResortIsAsked ==
  outcome = "failed" /\ asking.kind \in Named \cup {"picture", "search"} /\ Candidates # {} =>
    \/ Hindmost(Candidates) \in tried
    \/ asking.kind = "picture" /\ Remaining < MinAttempt
    \/ \E e \in DOMAIN met : met[e] = "odd"

\* All attempts at one picture share one budget; only a budget below the least attempt is exceeded.
OneBudget == until <= Larger(Budget, MinAttempt) /\ spent <= Larger(Budget, MinAttempt)

\* What the page is told would be reached is what a recording, a picture or a sentence does reach.
ToldIsReached ==
  asking.kind \in Named /\ asking.wav /\ tried # {} =>
    IF ToldEngine = "none" THEN Foremost(Candidates) \notin asking.has ELSE Foremost(Candidates) = ToldEngine

\* One dead feed must not lose the others' headlines (news.py:122).
DeadFeedLosesNothing ==
  asking.kind = "news" /\ outcome = "failed" => tried = Candidates /\ \A e \in tried : met[e] # "answer"

\* An engine the user named is the only one that hears or sees anything.
OnlyTheNamedOne == ~Unset => tried \subseteq {asking.set}

EnginesServe ==
  StopStartsNothing /\ NoSilentFallback /\ LastResortIsAsked /\ OneBudget /\ ToldIsReached /\ DeadFeedLosesNothing
    /\ OnlyTheNamedOne
=============================================================================
