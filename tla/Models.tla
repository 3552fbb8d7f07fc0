------------------------------- MODULE Models -------------------------------
(***************************************************************************)
(* The language models.  First one call to an endpoint                     *)
(* (planner/openai_compatible.py): routing, narration, an answer whole or  *)
(* streamed, a look at a picture or a clip, a ping.  The endpoint may      *)
(* answer, answer with its thoughts, run out of room, refuse, be slow, be  *)
(* away, or go away half way; what it said is read, asked for again where  *)
(* that can help, and given to the caller as text, as nothing, or as a     *)
(* decision.                                                               *)
(*                                                                         *)
(* Then which model answers a chat turn: the ladder of tiers in            *)
(* orchestrator._handle, _higher_chat_tiers and _recovery_chat_tiers, and  *)
(* what is remembered of each tier (model_status.py): busy ones are left   *)
(* alone for a short while, broken ones for long and over a restart.       *)
(* Turns run at once and share what is remembered.                         *)
(***************************************************************************)
EXTENDS Naturals, Sequences, FiniteSets

CONSTANT HttpAttempts  \* _HTTP_ATTEMPTS
ASSUME HttpAssumption == HttpAttempts \in Nat \ {0}

ModelCalls == {"plan", "narrate", "answer", "stream", "describe", "ping"}

\* What the endpoint does with a request.  A reply has words, thoughts in tags in front of
\* words or alone, or notes on what to answer, and may be cut off for want of room.
Words == {"words", "mixed", "thoughts", "notes", "none"}
EndpointReplies == [says : Words, cut : BOOLEAN, json : BOOLEAN]
Trouble == {"busy", "wrong", "slow", "away", "dropped", "garbled"}

VARIABLES
  calling,  \* the call, or "none"
  tries,    \* what the endpoint did each time, in order
  streamed, \* of a stream: what has been given, words or thoughts
  cutOff,   \* of a stream: the endpoint has said it ran out of it
  given,    \* what the caller got
  told      \* what on_failure was told

completionvars == <<calling, tries, streamed, cutOff, given, told>>

Bare(kind) == [kind |-> kind, says |-> "none", cut |-> FALSE]
Nothing == Bare("nothing")
Pending == Bare("pending")
Text(says, cut) == [kind |-> "text", says |-> says, cut |-> cut]

CompletionsTypeOK ==
  /\ calling \in ModelCalls \cup {"none"} /\ tries \in Seq(Trouble \cup {"reply", "cut"}) /\ Len(tries) <= HttpAttempts
  /\ streamed \subseteq {"words", "thoughts"} /\ cutOff \in BOOLEAN
  /\ given.kind \in {"pending", "nothing", "text", "decision", "canned", "raised", "up", "down"}
  /\ told \in {"none", "broken", "degraded"}

CompletionsInit ==
  calling = "none" /\ tries = <<>> /\ streamed = {} /\ cutOff = FALSE /\ given = Pending /\ told = "none"
-----------------------------------------------------------------------------
\* _strip_reasoning: a thought that was never closed is taken with all that follows.
Stripped(says) == IF says = "mixed" THEN "words" ELSE IF says = "thoughts" THEN "none" ELSE says

\* looks_like_thinking.
Monologue(r) == r.says = "notes"

\* _RETRY_STATUS and the two exceptions _http_transport catches.
WorthRetrying(what) == what \in {"busy", "slow", "away"}

\* classify_failure.
Class(what) == IF what = "wrong" THEN "broken" ELSE "degraded"

\* The callers' except clauses.
Handled(what) == what # "dropped" \/ calling = "ping"

\* _interpret, _extract_json: the decision in the reply, or its words as talk; with neither,
\* a line that says so.
Interpreted(r) ==
  IF r.json /\ ~r.cut THEN [kind |-> "decision", says |-> Stripped(r.says), cut |-> FALSE]
  ELSE IF Stripped(r.says) # "none" THEN Text("words", r.cut)
  ELSE [kind |-> "canned", says |-> "unsure", cut |-> FALSE]

\* What each caller makes of a reply.
Read(r) ==
  LET shown == IF Monologue(r) THEN "none" ELSE Stripped(r.says) IN
  CASE calling = "plan" -> Interpreted(IF Monologue(r) THEN [says |-> "none", cut |-> FALSE, json |-> FALSE] ELSE r)
    [] calling = "ping" -> Bare("up")
    [] calling = "answer" -> IF shown = "none" THEN Nothing ELSE Text(shown, r.cut)
    [] OTHER -> IF shown = "none" THEN Nothing ELSE Text(shown, FALSE)

\* What each caller makes of trouble that is not to be retried, or was once too often.  A
\* route that was only slow leaves the answer to the tiers.
OnTrouble(what) ==
  IF ~Handled(what) THEN Bare("raised")
  ELSE CASE calling = "ping" -> Bare("down")
         [] calling = "plan" -> IF what = "slow" THEN Bare("decision")
                                ELSE [kind |-> "canned", says |-> "unreachable", cut |-> FALSE]
         [] OTHER -> Nothing
-----------------------------------------------------------------------------
CallModel(kind) ==
  /\ calling = "none"
  /\ calling' = kind /\ UNCHANGED <<tries, streamed, cutOff, given, told>>

Waiting == calling \notin {"none", "stream"} /\ given = Pending

Receive(r) ==
  /\ Waiting
  /\ tries' = Append(tries, IF r.cut THEN "cut" ELSE "reply") /\ given' = Read(r)
  /\ UNCHANGED <<calling, streamed, cutOff, told>>

\* A failure of _http_transport, the last of them or one that asking again cannot help.
GiveUp(what) ==
  /\ Waiting /\ (WorthRetrying(what) => Len(tries) = HttpAttempts - 1)
  /\ tries' = Append(tries, what) /\ given' = OnTrouble(what)
  /\ told' = IF Handled(what) /\ calling \in {"answer", "plan", "ping"} THEN Class(what) ELSE told
  /\ UNCHANGED <<calling, streamed, cutOff>>

TryAgain(what) ==
  /\ Waiting /\ WorthRetrying(what) /\ Len(tries) < HttpAttempts - 1
  /\ tries' = Append(tries, what) /\ UNCHANGED <<calling, streamed, cutOff, given, told>>

\* stream_answer opens its own connection, and once.
StreamFails(what) ==
  /\ calling = "stream" /\ given = Pending /\ tries = <<>> /\ what # "garbled"
  /\ tries' = <<what>> /\ given' = OnTrouble(what)
  /\ told' = IF Handled(what) THEN Class(what) ELSE told
  /\ UNCHANGED <<calling, streamed, cutOff>>

\* A line of it: a token, a thought kept inside, one that cannot be read, or that there is
\* no room left.  A model that is cut off in its thoughts gives them as tokens.
StreamLine(says, out) ==
  /\ calling = "stream" /\ given = Pending /\ tries \in {<<>>, <<"reply">>}
  /\ tries' = <<"reply">>
  /\ streamed' = streamed \cup ({says} \ {"none"}) /\ cutOff' = (cutOff \/ out)
  /\ UNCHANGED <<calling, given, told>>

\* The tokens as they came: a stream is not stripped of thoughts as a whole reply is.
Tokens ==
  IF "thoughts" \notin streamed THEN "words" ELSE IF "words" \in streamed THEN "mixed" ELSE "thoughts"

\* [DONE], or the connection is closed: only a reply with tokens in it says it was cut off.
StreamEnds ==
  /\ calling = "stream" /\ given = Pending /\ tries = <<"reply">>
  /\ given' = IF streamed # {} THEN Text(Tokens, cutOff) ELSE Nothing
  /\ UNCHANGED <<calling, tries, streamed, cutOff, told>>

\* Stop, a reset, a line that does not come: the generator ends with it.
StreamBreaks ==
  /\ calling = "stream" /\ given = Pending /\ tries = <<"reply">>
  /\ given' = Bare("raised")
  /\ UNCHANGED <<calling, tries, streamed, cutOff, told>>

CompletionsNext ==
  \/ \E kind \in ModelCalls : CallModel(kind)
  \/ \E r \in EndpointReplies : Receive(r)
  \/ \E what \in Trouble : GiveUp(what) \/ TryAgain(what) \/ StreamFails(what)
  \/ \E says \in {"words", "thoughts", "none"}, out \in BOOLEAN : StreamLine(says, out)
  \/ StreamEnds \/ StreamBreaks

CompletionsSpec == CompletionsInit /\ [][CompletionsNext]_completionvars
-----------------------------------------------------------------------------
\* Asking again is for what may pass: an endpoint is asked no more often than it takes, never
\* after it answered, and never again with a request it called wrong.
AskedAgainOnlyWhereItHelps ==
  \A i \in 1..(Len(tries) - 1) : tries[i] \in {"busy", "slow", "away"}

\* What a caller shows of a whole reply is the answer: no thoughts.  A stream shows what came
\* as tokens, and says so when it ran out of room.
GivenIsTheAnswer ==
  /\ given.kind = "text" /\ calling # "stream" => given.says = "words"
  /\ given.kind = "text" /\ calling = "stream" => given.cut = cutOff
  /\ given.kind = "text" /\ calling = "answer" => given.cut = (tries[Len(tries)] = "cut")

\* A caller that has a ladder of tiers below it learns why nothing came - of this tier, in
\* this call - and learns nothing bad of one that answered.
NothingIsExplained ==
  /\ given.kind = "nothing" /\ calling \in {"answer", "stream"} /\ tries[Len(tries)] \in Trouble => told # "none"
  /\ told # "none" => given.kind # "text" /\ tries[Len(tries)] \in Trouble
  /\ told = "broken" => tries[Len(tries)] = "wrong"

\* A routing call that was slow has no words of its own to put in front of the answer.
SlowRoutesSayNothing ==
  calling = "plan" /\ tries # <<>> /\ tries[Len(tries)] = "slow" /\ given # Pending => given.says = "none"

CompletionsAreHonest ==
  AskedAgainOnlyWhereItHelps /\ GivenIsTheAnswer /\ NothingIsExplained /\ SlowRoutesSayNothing
-----------------------------------------------------------------------------
\* The ladder of tiers.
CONSTANTS
  Chats,          \* turns
  BusyCooldown,   \* DEGRADED_COOLDOWN, in ticks
  BrokenCooldown, \* BROKEN_COOLDOWN, in ticks
  MaxWall,        \* bound: the wall clock
  Setups          \* sets of tiers that have a planner

ASSUME ModelTiersAssumption ==
  /\ BusyCooldown \in Nat /\ BrokenCooldown \in Nat /\ MaxWall \in Nat
  /\ \A s \in Setups : {"fast"} \subseteq s /\ s \subseteq {"fast", "smart", "ultra", "openrouter"}

Tiers == {"fast", "smart", "ultra", "openrouter"}
Never == MaxWall + 1

VARIABLES
  configured, \* tiers that have a planner; fast always has one
  wall,       \* the wall clock
  status,     \* _state, an unknown tier being ok
  age,        \* ticks since _updated_at of a tier that is not ok, up to its cooldown
  brokenAt,   \* _broken_at, or Never
  savedAt,    \* the file: "at" of each broken tier, or Never
  chat        \* each turn

tiervars == <<configured, wall, status, age, brokenAt, savedAt, chat>>

Walls == 0..MaxWall
Oldest == IF BusyCooldown < BrokenCooldown THEN BrokenCooldown ELSE BusyCooldown
Phases == {"idle", "higher", "fast", "recovery", "openrouter", "answered", "unavailable",
           "raised"}
Chat == [phase: Phases, level: 0..2, tried: SUBSET Tiers, recover: SUBSET Tiers,
         asking: Tiers \cup {"none"}, shown: SUBSET Tiers, by: Tiers \cup {"none"},
         cooling: SUBSET Tiers]

ModelTiersTypeOK ==
  /\ configured \subseteq Tiers /\ wall \in Walls
  /\ status \in [Tiers -> {"ok", "degraded", "broken"}]
  /\ age \in [Tiers -> 0..Oldest]
  /\ brokenAt \in [Tiers -> 0..Never] /\ savedAt \in [Tiers -> 0..Never]
  /\ chat \in [Chats -> Chat]

NotChatting == [phase |-> "idle", level |-> 0, tried |-> {}, recover |-> {}, asking |-> "none",
                shown |-> {}, by |-> "none", cooling |-> {}]

ModelTiersInit ==
  /\ configured \in Setups
  /\ wall = 0
  /\ status = [t \in Tiers |-> "ok"] /\ age = [t \in Tiers |-> 0]
  /\ brokenAt = [t \in Tiers |-> Never] /\ savedAt = [t \in Tiers |-> Never]
  /\ chat = [c \in Chats |-> NotChatting]
-----------------------------------------------------------------------------
Cooldown(t) == IF status[t] = "broken" THEN BrokenCooldown ELSE BusyCooldown
ShouldAttempt(t) == status[t] = "ok" \/ age[t] >= Cooldown(t)
ToTry(ts) == {t \in ts \cap configured : ShouldAttempt(t)}

Remembered == <<status, age, brokenAt, savedAt>>

TimePasses ==
  /\ wall < MaxWall
  /\ wall' = wall + 1
  /\ age' = [t \in Tiers |-> IF ShouldAttempt(t) THEN age[t] ELSE age[t] + 1]
  /\ UNCHANGED <<configured, status, brokenAt, savedAt, chat>>

Ladder(level) == (IF level >= 2 THEN {"ultra"} ELSE {}) \cup (IF level >= 1 THEN {"smart"} ELSE {})

BeginChat(c, level) ==
  /\ chat[c].phase \in {"idle", "answered", "unavailable", "raised"}
  /\ chat' = [chat EXCEPT ![c] = [NotChatting EXCEPT !.phase = "higher", !.level = level]]
  /\ UNCHANGED <<configured, wall, Remembered>>

\* ultra before smart; a tier is looked at just before it would be asked, but
\* the tiers to recover with are listed once, smart before ultra.
Candidates(c) ==
  LET ladder == (Ladder(chat[c].level) \cap configured) \ (chat[c].tried \cup chat[c].cooling)
  IN CASE chat[c].phase = "higher" -> IF "ultra" \in ladder THEN {"ultra"} ELSE ladder
       [] chat[c].phase = "fast" -> {"fast"} \ chat[c].tried
       [] chat[c].phase = "recovery" ->
            LET left == chat[c].recover \ chat[c].tried
            IN IF "smart" \in left THEN {"smart"} ELSE left
       [] chat[c].phase = "openrouter" -> ({"openrouter"} \cap configured) \ chat[c].tried
       [] OTHER -> {}

AskTier(c) ==
  /\ chat[c].asking = "none"
  /\ \E t \in Candidates(c) :
       /\ chat[c].phase = "recovery" \/ ShouldAttempt(t)
       /\ chat' = [chat EXCEPT ![c] = [chat[c] EXCEPT !.asking = t, !.tried = chat[c].tried \cup {t}]]
  /\ UNCHANGED <<configured, wall, Remembered>>

\* No tier of this part of the ladder is left to ask: those that are cooling
\* down are passed over, and recovery lists what may be tried by now.
MoveOn(c) ==
  /\ chat[c].phase \in {"higher", "fast", "recovery", "openrouter"} /\ chat[c].asking = "none"
  /\ \A t \in Candidates(c) : chat[c].phase # "recovery" /\ ~ShouldAttempt(t)
  /\ LET passed == [chat[c] EXCEPT !.cooling = chat[c].cooling \cup Candidates(c)]
         primary == {"smart", "ultra"} \ chat[c].tried
         after == CASE chat[c].phase = "higher" -> IF Candidates(c) = {}
                         THEN [chat[c] EXCEPT !.phase = "fast", !.cooling = {}, !.level = 0] ELSE passed
                    [] chat[c].phase = "fast" ->
                         [passed EXCEPT !.phase = "recovery", !.recover = ToTry(primary),
                           !.cooling = passed.cooling \cup ((primary \cap configured) \ ToTry(primary))]
                    [] chat[c].phase = "recovery" -> [chat[c] EXCEPT !.phase = "openrouter", !.recover = {}]
                    [] OTHER -> [passed EXCEPT !.phase = "unavailable"]
     IN chat' = [chat EXCEPT ![c] = after]
  /\ UNCHANGED <<configured, wall, Remembered>>

\* Tokens reach the page as the tier streams them.
Streams(c) ==
  /\ chat[c].asking # "none"
  /\ chat[c].asking \notin chat[c].shown
  /\ chat' = [chat EXCEPT ![c] = [chat[c] EXCEPT !.shown = chat[c].shown \cup {chat[c].asking}]]
  /\ UNCHANGED <<configured, wall, Remembered>>

\* ModelStatus.record: the time a tier broke is kept while it stays broken, and
\* the file is written when the set of broken tiers, or why, changes; the write
\* may fail, and is not tried again before the next change.
Recorded(t, outcome) ==
  /\ status' = [status EXCEPT ![t] = outcome]
  /\ age' = [age EXCEPT ![t] = 0]
  /\ brokenAt' = [brokenAt EXCEPT ![t] =
       IF outcome # "broken" THEN Never ELSE IF brokenAt[t] = Never THEN wall ELSE brokenAt[t]]
  /\ IF (status[t] = "broken") = (outcome = "broken")
     THEN UNCHANGED savedAt
     ELSE savedAt' = brokenAt' \/ savedAt' = savedAt

Answers(c) ==
  /\ chat[c].asking # "none"
  /\ Recorded(chat[c].asking, "ok")
  /\ chat' = [chat EXCEPT ![c] =
       [NotChatting EXCEPT !.phase = "answered", !.by = chat[c].asking, !.shown = chat[c].shown]]
  /\ UNCHANGED <<configured, wall>>

\* Mutant of TierFails: what was streamed before the failure is left on the page.
TierFailsHalfShown(c, why) ==
  /\ chat[c].asking # "none"
  /\ Recorded(chat[c].asking, why)
  /\ chat' = [chat EXCEPT ![c] = [chat[c] EXCEPT !.asking = "none"]]
  /\ UNCHANGED <<configured, wall>>

\* The stream breaks off, with an OSError or a timeout: on_token.reset takes back what was
\* streamed.
TierFails(c, why) ==
  /\ chat[c].asking # "none"
  /\ Recorded(chat[c].asking, why)
  /\ chat' = [chat EXCEPT ![c] = [chat[c] EXCEPT !.asking = "none", !.shown = {}]]
  /\ UNCHANGED <<configured, wall>>

\* The reply is empty, streamed or not: nothing is taken back.
TierSaysNothing(c, why) ==
  /\ chat[c].asking \notin chat[c].shown \cup {"none"}
  /\ Recorded(chat[c].asking, why)
  /\ chat' = [chat EXCEPT ![c] = [chat[c] EXCEPT !.asking = "none"]]
  /\ UNCHANGED <<configured, wall>>

\* Stop, or an exception of another kind: it ends the turn, what was streamed stays on the
\* page and nothing is remembered of the tier.
ChatRaises(c) ==
  /\ chat[c].asking # "none"
  /\ chat' = [chat EXCEPT ![c] = [NotChatting EXCEPT !.phase = "raised", !.shown = chat[c].shown]]
  /\ UNCHANGED <<configured, wall, Remembered>>

\* _load: broken tiers come back, the file's time being when they broke; a
\* clock set back meanwhile counts as no time at all.
AgeOf(at, now) ==
  IF at >= now THEN 0 ELSE IF now - at > BrokenCooldown THEN BrokenCooldown ELSE now - at

AssistantRestarts(now) ==
  /\ wall' = now
  /\ status' = [t \in Tiers |-> IF savedAt[t] = Never THEN "ok" ELSE "broken"]
  /\ age' = [t \in Tiers |-> IF savedAt[t] = Never THEN 0 ELSE AgeOf(savedAt[t], now)]
  /\ brokenAt' = savedAt
  /\ chat' = [c \in Chats |-> NotChatting]
  /\ UNCHANGED <<configured, savedAt>>

ModelTiersNext ==
  \/ TimePasses \/ \E now \in Walls : AssistantRestarts(now)
  \/ \E c \in Chats :
       \/ \E level \in 0..2 : BeginChat(c, level)
       \/ AskTier(c) \/ MoveOn(c) \/ Streams(c) \/ Answers(c) \/ ChatRaises(c)
       \/ \E why \in {"degraded", "broken"} : TierFails(c, why) \/ TierSaysNothing(c, why)

ModelTiersSpec == ModelTiersInit /\ [][ModelTiersNext]_tiervars
-----------------------------------------------------------------------------
\* The page shows the tokens of the tier that answered and of no other,
\* however many broke off before it, and none when no tier answered; a turn
\* that ended with an exception leaves what it showed.
ShownIsTheAnswer ==
  \A c \in Chats :
    /\ chat[c].phase = "answered" => chat[c].shown \subseteq {chat[c].by}
    /\ chat[c].phase = "unavailable" => chat[c].shown = {}
=============================================================================
