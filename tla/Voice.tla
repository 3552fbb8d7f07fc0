------------------------------- MODULE Voice -------------------------------
(***************************************************************************)
(* Voice mode of the page (app.js) in the app window, where the server     *)
(* transcribes what is recorded and speaks what is said: a reply arrives   *)
(* sentence by sentence, each is fetched as audio and played, and the user *)
(* cuts in with Space, by talking, by typing or by leaving voice mode.     *)
(*                                                                         *)
(* The page has one thread, so every callback is one step; what makes it   *)
(* hard is that each acts on what was asked for several callbacks ago.  A  *)
(* generation numbers the sessions of voice mode and an epoch the times    *)
(* speech was stopped; a callback compares them with those it began under. *)
(* The whole page is one record and its functions are functions on it.     *)
(***************************************************************************)
EXTENDS Naturals, Sequences

CONSTANTS
  MaxTurns,      \* bound: messages sent
  MaxSentences,  \* bound: sentences of one reply
  MaxSessions,   \* bound: how often voice mode starts or ends
  MaxCutIns,     \* bound: how often speech is stopped
  MaxMics        \* bound: captures of one kind at once; one more is refused

ASSUME VoiceAssumption ==
  /\ MaxTurns \in Nat /\ MaxSentences \in Nat /\ MaxSessions \in Nat
  /\ MaxCutIns \in Nat /\ MaxMics \in Nat

VARIABLES
  page,     \* the variables of app.js that voice mode reads and writes
  silenced  \* ghost: turns whose reply the user cut in on

voicevars == <<page, silenced>>

Sentences == (0..MaxTurns) \X (0..MaxSentences)
NoSentence == <<0, 0>>
Mics == 1..MaxMics
Sessions == 0..MaxSessions
Epochs == 0..MaxCutIns
FalsePauses == 0..2    \* two are enough to stop listening for more
VoiceTurn == [id: 0..MaxTurns, epoch: Epochs, voiced: BOOLEAN, said: 0..MaxSentences]
Fetch == [sentence: Sentences, session: Sessions, epoch: Epochs]
Mic(phases) == [phase: phases \cup {"off"}, session: Sessions]
MicOff == [phase |-> "off", session |-> 0]
NoTurnYet == [id |-> 0, epoch |-> 0, voiced |-> FALSE, said |-> 0]

Page ==
  [active: BOOLEAN, session: Sessions, epoch: Epochs,
   turn: VoiceTurn, asked: 0..MaxTurns,                    \* the request in flight; the last one sent
   queue: Seq(Sentences), complete: BOOLEAN, spoke: BOOLEAN,
   speaking: BOOLEAN, fetches: SUBSET Fetch,
   audio: [sentence: Sentences, phase: {"none", "playing", "paused", "ended"}],
   recognizing: BOOLEAN, mics: [Mics -> Mic({"asking", "open"})], stopper: 0..MaxMics,
   dictations: SUBSET Sessions,                       \* recordings being transcribed
   barges: [Mics -> Mic({"asking", "open", "fired"})], barge: 0..MaxMics,
   hearings: SUBSET Sessions,                         \* what was said over us, being transcribed
   bargeOff: BOOLEAN, barged: BOOLEAN, paused: BOOLEAN, falsePauses: FalsePauses,
   waiting: BOOLEAN]                                  \* the timer between a reply and listening

VoiceTypeOK == page \in Page /\ Len(page.queue) <= MaxSentences + 1 /\ silenced \subseteq 1..MaxTurns

VoiceInit ==
  /\ page = [active |-> FALSE, session |-> 0, epoch |-> 0, turn |-> NoTurnYet, asked |-> 0,
             queue |-> <<>>, complete |-> FALSE, spoke |-> FALSE, speaking |-> FALSE, fetches |-> {},
             audio |-> [sentence |-> NoSentence, phase |-> "none"],
             recognizing |-> FALSE, mics |-> [m \in Mics |-> MicOff], stopper |-> 0, dictations |-> {},
             barges |-> [m \in Mics |-> MicOff], barge |-> 0, hearings |-> {},
             bargeOff |-> FALSE, barged |-> FALSE, paused |-> FALSE, falsePauses |-> 0, waiting |-> FALSE]
  /\ silenced = {}
-----------------------------------------------------------------------------
Busy(p) == p.turn.id # 0
Unused(slots) == {m \in Mics : slots[m].phase = "off"}
Lowest(ms) == CHOOSE m \in ms : \A n \in ms : m <= n
NoAudio == [sentence |-> NoSentence, phase |-> "none"]

\* listen / nativeListen, as far as the question for the microphone.
Listen(p) ==
  IF ~p.active \/ p.recognizing \/ p.speaking \/ Unused(p.mics) = {} THEN p
  ELSE [p EXCEPT !.recognizing = TRUE,
                 !.mics[Lowest(Unused(p.mics))] = [phase |-> "asking", session |-> p.session]]

\* bargeStart / serverBargeStart, as far as the question for the microphone.
BargeStart(p) ==
  IF p.barge # 0 \/ ~p.active \/ p.bargeOff \/ p.falsePauses >= 2 \/ Unused(p.barges) = {} THEN p
  ELSE [p EXCEPT !.barges[Lowest(Unused(p.barges))] = [phase |-> "asking", session |-> p.session]]

\* bargeStop / serverBargeStop: the capture the page knows of.
BargeStop(p) ==
  [p EXCEPT !.barges = [m \in Mics |-> IF m = p.barge THEN MicOff ELSE p.barges[m]], !.barge = 0]

\* afterTurn
AfterTurn(p) == [BargeStop(p) EXCEPT !.waiting = p.active \/ p.waiting]

\* speakChunk and the start of playTTS; a sentence fetched ahead is one fetched soon.
SpeakChunk(p, s) ==
  [BargeStart(p) EXCEPT !.speaking = TRUE,
     !.fetches = p.fetches \cup {[sentence |-> s, session |-> p.session, epoch |-> p.epoch]}]

\* pumpTTS
Pump(p) ==
  IF ~p.active THEN [p EXCEPT !.queue = <<>>]
  ELSE IF p.speaking THEN p
  ELSE IF p.queue # <<>> THEN SpeakChunk([p EXCEPT !.queue = Tail(p.queue)], Head(p.queue))
  ELSE IF p.complete THEN AfterTurn(p) ELSE p

\* enqueueTTS
Enqueue(p, s) == Pump([p EXCEPT !.spoke = TRUE, !.queue = Append(p.queue, s)])

\* What stopSpeaking, commitBarge and endVoice have in common.
Hushed(p) ==
  [p EXCEPT !.paused = FALSE, !.audio = NoAudio, !.queue = <<>>, !.speaking = FALSE, !.complete = TRUE]

\* voiceTurnDone
TurnDone(p, epoch, sentence) ==
  LET done == [p EXCEPT !.complete = TRUE] IN
    IF epoch # p.epoch THEN p
    ELSE IF done.spoke THEN Pump(done)
    ELSE IF sentence # NoSentence THEN Enqueue(done, sentence) ELSE AfterTurn(done)

\* send: nothing while a request is in flight; voiceTurnReset in voice mode.
Send(p) ==
  IF Busy(p) THEN p
  ELSE LET sent == [p EXCEPT !.asked = p.asked + 1,
             !.turn = [id |-> p.asked + 1, epoch |-> p.epoch, voiced |-> p.active, said |-> 0]] IN
    IF p.active
    THEN [sent EXCEPT !.queue = <<>>, !.complete = FALSE, !.spoke = FALSE, !.speaking = FALSE, !.falsePauses = 0]
    ELSE sent

\* stopGen, and the finally of send that runs before any other callback; the
\* epoch has moved on, so the reply is not spoken.
StopGen(p) == [p EXCEPT !.turn = NoTurnYet]

\* resumeAfterFalseBarge
ResumeAfterFalseBarge(p) ==
  IF ~p.paused THEN Listen(p)
  ELSE LET resumed == [p EXCEPT !.paused = FALSE,
             !.falsePauses = IF p.falsePauses < 2 THEN p.falsePauses + 1 ELSE 2,
             !.audio.phase = IF p.audio.phase = "none" THEN "none" ELSE "playing"] IN
    IF p.speaking THEN BargeStart(resumed) ELSE resumed
-----------------------------------------------------------------------------
\* Bounds: there is a message, a session or an epoch left.
CanSend == Busy(page) \/ page.asked < MaxTurns
CanSwitch == page.session < MaxSessions
CanCutIn == page.epoch < MaxCutIns

Becomes(p) == page' = p /\ UNCHANGED silenced

StartVoice ==
  /\ ~page.active /\ CanSwitch
  /\ Becomes(Listen([page EXCEPT !.session = page.session + 1, !.active = TRUE, !.bargeOff = FALSE]))

EndVoice ==
  /\ page.active /\ CanSwitch
  /\ Becomes([Hushed(BargeStop(page)) EXCEPT
       !.session = page.session + 1, !.active = FALSE, !.recognizing = FALSE,
       !.mics = [m \in Mics |-> IF m = page.stopper THEN MicOff ELSE page.mics[m]], !.stopper = 0])

TypeMessage ==
  /\ ~Busy(page) /\ CanSend
  /\ Becomes(Send(page))

\* A sentence of the reply to speak: one of a turn that was cut in on is dropped.
SentenceComes ==
  LET turn == page.turn
      heard == [page EXCEPT !.turn.said = turn.said + 1] IN
    /\ Busy(page) /\ turn.voiced /\ turn.said < MaxSentences
    /\ Becomes(IF turn.epoch = page.epoch THEN Enqueue(heard, <<turn.id, turn.said + 1>>) ELSE heard)

\* Another model starts over.
ReplyStartsOver ==
  /\ Busy(page)
  /\ Becomes([page EXCEPT !.queue = <<>>])

\* The reply is complete, fails, or is stopped with the button.
ReplyEnds ==
  LET turn == page.turn
      over == StopGen(page) IN
    /\ Busy(page)
    /\ \E sentence \in {NoSentence, <<turn.id, 0>>} :
         Becomes(IF page.active THEN TurnDone(over, turn.epoch, sentence) ELSE over)

\* interruptNow: Space, or the Interrupt button.
PressSpace ==
  /\ page.active /\ CanCutIn
  /\ page' = Listen(StopGen([Hushed(BargeStop(page)) EXCEPT !.epoch = page.epoch + 1, !.bargeOff = FALSE]))
  /\ silenced' = 1..page.asked

\* The timer of afterTurn.
TimerFires ==
  LET fired == [page EXCEPT !.waiting = FALSE] IN
    /\ page.waiting
    /\ Becomes(IF page.queue = <<>> THEN Listen(fired) ELSE fired)
-----------------------------------------------------------------------------
\* Mutant of Stale: a request that was out when speech was stopped still plays.
StaleSession(p, f) == ~p.active \/ f.session # p.session

Stale(p, f) == ~p.active \/ f.session # p.session \/ f.epoch # p.epoch

\* playTTS, once the audio is there, or could not be had.
FetchEnds(f) ==
  LET without == [page EXCEPT !.fetches = page.fetches \ {f}] IN
    /\ f \in page.fetches
    /\ IF Stale(page, f) THEN Becomes(without)
       ELSE \/ Becomes([without EXCEPT !.audio = [sentence |-> f.sentence, phase |-> "playing"]])
            \/ Becomes(Pump([without EXCEPT !.speaking = FALSE]))

\* onended, or onerror and speakFallback.
AudioEnds ==
  /\ page.audio.phase = "playing"
  /\ IF page.barged
     THEN Becomes([page EXCEPT !.audio.phase = "ended"])
     ELSE Becomes(Pump([page EXCEPT !.audio = NoAudio, !.speaking = FALSE]))

\* serverBargeStart, once there is a microphone, or none.
BargeMicAnswers(m) ==
  LET mic == page.barges[m]
      refused == [page EXCEPT !.barges[m] = MicOff] IN
    /\ mic.phase = "asking"
    /\ \/ Becomes(refused)
       \/ /\ page.active /\ mic.session = page.session /\ page.speaking
          /\ Becomes([page EXCEPT !.barges[m].phase = "open", !.barge = m, !.barged = FALSE])

\* Somebody is louder than we are: the reply is paused.
BargeFires(m) ==
  /\ page.barges[m].phase = "open" /\ page.barge # 0 /\ page.audio.phase = "playing"
  /\ Becomes([page EXCEPT !.barges[m].phase = "fired", !.paused = TRUE, !.audio.phase = "paused"])

\* finishBarge, as far as the transcription.
BargeGoesQuiet(m) ==
  LET mic == page.barges[m] IN
    /\ mic.phase = "fired" /\ page.barge # 0
    /\ Becomes(IF page.active /\ mic.session = page.session
               THEN [BargeStop(page) EXCEPT !.hearings = page.hearings \cup {mic.session}]
               ELSE BargeStop(page))

\* It was noise, or our own voice; or the third time within 25 seconds.
BargeWasNothing(g) ==
  LET heard == [page EXCEPT !.hearings = page.hearings \ {g}] IN
    /\ g \in page.hearings
    /\ IF ~page.active \/ g # page.session THEN Becomes(heard)
       ELSE \/ Becomes(ResumeAfterFalseBarge(heard))
            \/ Becomes(ResumeAfterFalseBarge([BargeStop(heard) EXCEPT !.bargeOff = TRUE]))

\* commitBarge and send.  send does nothing while the request it just aborted
\* is still in flight, so what was said over a reply being written is lost.
BargeCommits(g) ==
  LET heard == [Hushed(page) EXCEPT !.hearings = page.hearings \ {g}, !.barged = TRUE, !.epoch = page.epoch + 1] IN
    /\ g \in page.hearings /\ page.active /\ g = page.session /\ CanCutIn /\ CanSend
    /\ page' = IF Busy(page) THEN StopGen(heard) ELSE Send(heard)
    /\ silenced' = 1..page.asked
-----------------------------------------------------------------------------
\* nativeListen, once there is a microphone, or none.
MicAnswers(m) ==
  LET mic == page.mics[m] IN
    /\ mic.phase = "asking"
    /\ \/ Becomes([page EXCEPT !.mics[m] = MicOff, !.recognizing = FALSE])
       \/ /\ page.active /\ mic.session = page.session
          /\ Becomes([page EXCEPT !.mics[m].phase = "open", !.stopper = m])

\* finish of nativeListen, as far as the transcription.
RecordingEnds(m) ==
  LET mic == page.mics[m]
      closed == [page EXCEPT !.mics[m] = MicOff, !.stopper = 0, !.recognizing = FALSE] IN
    /\ mic.phase = "open"
    /\ IF ~page.active \/ page.speaking THEN Becomes(closed)
       ELSE \/ Becomes(Listen(closed))
            \/ Becomes([closed EXCEPT !.dictations = page.dictations \cup {mic.session}])

Dictated(g) ==
  LET heard == [page EXCEPT !.dictations = page.dictations \ {g}] IN
    /\ g \in page.dictations
    /\ IF ~page.active \/ g # page.session THEN Becomes(heard)
       ELSE \/ Becomes(Listen(heard))
            \/ CanSend /\ Becomes(Send(heard))

VoiceNext ==
  \/ StartVoice \/ EndVoice \/ TypeMessage \/ SentenceComes \/ ReplyStartsOver \/ ReplyEnds
  \/ PressSpace \/ TimerFires \/ AudioEnds
  \/ \E f \in page.fetches : FetchEnds(f)
  \/ \E m \in Mics : \/ BargeMicAnswers(m) \/ BargeFires(m) \/ BargeGoesQuiet(m)
                     \/ MicAnswers(m) \/ RecordingEnds(m)
  \/ \E g \in Sessions : BargeWasNothing(g) \/ BargeCommits(g) \/ Dictated(g)

VoiceSpec == VoiceInit /\ [][VoiceNext]_voicevars
-----------------------------------------------------------------------------
\* Once the user cut in, with Space or by talking, nothing more is heard of any
\* reply they had asked for until then, and outside voice mode nothing at all,
\* although sentences and audio for them are still on their way.
SilencedStaysSilent ==
  page.audio.phase = "playing" => page.active /\ page.audio.sentence[1] \notin silenced
=============================================================================
