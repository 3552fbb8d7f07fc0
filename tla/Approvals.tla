----------------------------- MODULE Approvals -----------------------------
(***************************************************************************)
(* The approval gate (safety.py), the broker that puts its cards to the    *)
(* browser (approvals.py), the streams the cards travel on (webui.py) and  *)
(* Stop (cancellation.py).                                                 *)
(*                                                                         *)
(* A turn is one request and its thread.  A streaming turn listens for the *)
(* cards of its own account while it lasts, and a card is written to every *)
(* such stream BY THE THREAD THAT ASKS.  One lock, the gate's, is held     *)
(* from before a card is put until it is decided, so cards come one at a   *)
(* time, across all accounts.                                              *)
(*                                                                         *)
(* LOW actions never reach the lock and what a personal account may not do *)
(* is refused before it: neither changes any state here.                   *)
(***************************************************************************)
EXTENDS Naturals, FiniteSets

CONSTANTS
  Turns,       \* requests, each run once by a thread of its own
  Cards,       \* approval ids: random, never used twice; bounds the cards put
  Accounts,    \* accounts a request may act for
  Developers,  \* those among them with the dev role
  None         \* nobody: the CLI, the ticker, or a web app without accounts

ASSUME ApprovalsAssumption ==
  /\ Developers \subseteq Accounts
  /\ None \notin Accounts \cup Turns \cup Cards

VARIABLES
  turn,       \* where each request has got to
  prompt,     \* the turn that holds the gate's lock
  listeners,  \* the turns whose streams are listed for cards
  gone,       \* the turns whose client closed the connection
  stopped,    \* the turns that Stop was pressed for
  registry,   \* the cards, and what each was answered
  seen,       \* history: which stream was sent which card
  acks,       \* history: every answer the app acknowledged
  performed   \* history: the cards whose action was carried out

vars == <<turn, prompt, listeners, gone, stopped, registry, seen, acks, performed>>

Viewers == Accounts \cup {None}
Risks == {"medium", "high", "everyday"}
Steps == {"new", "working", "prompt", "ask", "notify", "wait", "woken", "lapsed",
          "decide", "acting", "done"}
Turn == [step: Steps, who: Viewers, risk: Risks, card: Cards \cup {None},
         left: SUBSET Turns, approved: BOOLEAN]
Card == [state: {"unused", "pending", "removed"}, owner: Viewers, answer: {"none", "yes", "no"}]

TypeOK ==
  /\ turn \in [Turns -> Turn]
  /\ prompt \in Turns \cup {None}
  /\ listeners \subseteq Turns /\ gone \subseteq Turns /\ stopped \subseteq Turns
  /\ registry \in [Cards -> Card]
  /\ seen \subseteq Turns \X Cards
  /\ acks \subseteq [card: Cards, viewer: Viewers, answer: {"yes", "no"}, late: BOOLEAN]
  /\ performed \subseteq Cards

NewTurn == [step |-> "new", who |-> None, risk |-> "medium", card |-> None,
            left |-> {}, approved |-> FALSE]

Init ==
  /\ turn = [t \in Turns |-> NewTurn]
  /\ prompt = None
  /\ listeners = {} /\ gone = {} /\ stopped = {}
  /\ registry = [id \in Cards |-> [state |-> "unused", owner |-> None, answer |-> "none"]]
  /\ seen = {} /\ acks = {} /\ performed = {}

-----------------------------------------------------------------------------
At(t, step) == turn[t].step = step

\* Mutant of Sees: every card goes to every stream, and anybody answers it.
SeesAll(viewer, asker) == TRUE

\* access.sees_approval: an account answers only its own cards, and the
\* machine's go to a developer, or to anybody when there are no accounts.
Sees(viewer, asker) ==
  IF asker # None THEN viewer = asker ELSE viewer \in Developers \cup {None}

\* access.is_personal
Personal(who) == who \in Accounts \ Developers

\* The streams a card of this turn goes to.
Audience(t) == {l \in listeners : Sees(turn[l].who, turn[t].who)}

Released(t) == IF prompt = t THEN None ELSE prompt

\* The turn is over, however it ended: the gate's lock is released on the way
\* out, its stream is no longer listed and Stop no longer finds it.  Its card is
\* only taken out of the registry by the wait that follows the notifications.
EndTurn(t) ==
  /\ turn' = [turn EXCEPT ![t] = [NewTurn EXCEPT !.step = "done", !.who = turn[t].who]]
  /\ prompt' = Released(t)
  /\ listeners' = listeners \ {t}
  /\ gone' = gone \ {t}
  /\ stopped' = stopped \ {t}
  /\ UNCHANGED <<registry, seen, acks, performed>>

\* Bound: as many cards are put as there are ids.
CardsLeft ==
  LET asking == {t \in Turns : turn[t].step \in {"prompt", "ask"} /\ turn[t].risk # "medium"}
  IN Cardinality({id \in Cards : registry[id].state = "unused"}) > Cardinality(asking)

-----------------------------------------------------------------------------
(* The request.                                                            *)

\* A streaming handler lists its stream; /api/command and the ticker have none.
Start(t, who, streaming) ==
  /\ At(t, "new")
  /\ turn' = [turn EXCEPT ![t].step = "working", ![t].who = who]
  /\ listeners' = IF streaming THEN listeners \cup {t} ELSE listeners
  /\ UNCHANGED <<prompt, gone, stopped, registry, seen, acks, performed>>

Finish(t) ==
  /\ At(t, "working")
  /\ EndTurn(t)

\* The client closes the connection; nothing notices before the next write.
Disconnect(t) ==
  /\ t \in listeners /\ t \notin gone
  /\ gone' = gone \cup {t}
  /\ UNCHANGED <<turn, prompt, listeners, stopped, registry, seen, acks, performed>>

\* A token of its own is written to the closed connection.
HangUp(t) ==
  /\ At(t, "working") /\ t \in gone
  /\ EndTurn(t)

\* cancel(): the stopped flag, which wakes nobody.
Stop(t) ==
  /\ turn[t].step \notin {"new", "done"} /\ t \notin stopped
  /\ stopped' = stopped \cup {t}
  /\ UNCHANGED <<turn, prompt, listeners, gone, registry, seen, acks, performed>>

\* check_cancelled, wherever the turn makes it: before it asks, with the lock
\* in hand, after the answer, and inside the tools.
NoticeStop(t) ==
  /\ t \in stopped
  /\ turn[t].step \in {"working", "ask", "decide", "acting"}
  /\ EndTurn(t)

-----------------------------------------------------------------------------
(* ApprovalGate.require and ApprovalBroker.request.                        *)

\* A personal account is refused a HIGH action unless it is marked everyday;
\* for anybody else that mark makes no difference.
Require(t, risk) ==
  /\ At(t, "working") /\ t \notin stopped
  /\ \/ risk = "medium"
     \/ CardsLeft /\ risk = IF Personal(turn[t].who) THEN "everyday" ELSE "high"
  /\ turn' = [turn EXCEPT ![t].step = "prompt", ![t].risk = risk]
  /\ UNCHANGED <<prompt, listeners, gone, stopped, registry, seen, acks, performed>>

\* Mutant of TakeLock: the gate has no lock.
AskAtOnce(t) ==
  /\ At(t, "prompt")
  /\ prompt' = t
  /\ turn' = [turn EXCEPT ![t].step = "ask"]
  /\ UNCHANGED <<listeners, gone, stopped, registry, seen, acks, performed>>

TakeLock(t) ==
  /\ At(t, "prompt") /\ prompt = None
  /\ prompt' = t
  /\ turn' = [turn EXCEPT ![t].step = "ask"]
  /\ UNCHANGED <<listeners, gone, stopped, registry, seen, acks, performed>>

\* MEDIUM is waved through; a card with nobody to read it is refused at once.
AskNobody(t) ==
  /\ At(t, "ask") /\ t \notin stopped
  /\ turn[t].risk = "medium" \/ Audience(t) = {}
  /\ turn' = [turn EXCEPT ![t].step = "decide", ![t].approved = (turn[t].risk = "medium")]
  /\ UNCHANGED <<prompt, listeners, gone, stopped, registry, seen, acks, performed>>

Ask(t, id) ==
  /\ At(t, "ask") /\ t \notin stopped
  /\ turn[t].risk # "medium" /\ Audience(t) # {}
  /\ registry[id].state = "unused"
  /\ registry' = [registry EXCEPT ![id].state = "pending", ![id].owner = turn[t].who]
  /\ turn' = [turn EXCEPT ![t].step = "notify", ![t].card = id, ![t].left = Audience(t)]
  /\ UNCHANGED <<prompt, listeners, gone, stopped, seen, acks, performed>>

\* emit writes the card to another turn's connection, or to its own.
Notify(t, l) ==
  /\ At(t, "notify") /\ t \notin stopped
  /\ l \in turn[t].left \ gone
  /\ seen' = seen \cup {<<l, turn[t].card>>}
  /\ turn' = [turn EXCEPT ![t].left = @ \ {l},
                          ![t].step = IF turn[t].left = {l} THEN "wait" ELSE "notify"]
  /\ UNCHANGED <<prompt, listeners, gone, stopped, registry, acks, performed>>

\* emit raises OperationCancelled, which `except Exception' does not catch: the
\* asking turn was stopped, or the stream's client is gone, or its turn is over.
NotifyFails(t, l) ==
  /\ At(t, "notify")
  /\ l \in turn[t].left
  /\ t \in stopped \/ l \in gone \/ At(l, "done")
  /\ EndTurn(t)

Wake(t) ==
  /\ At(t, "wait") /\ registry[turn[t].card].answer # "none"
  /\ turn' = [turn EXCEPT ![t].step = "woken"]
  /\ UNCHANGED <<prompt, listeners, gone, stopped, registry, seen, acks, performed>>

TimeOut(t) ==
  /\ At(t, "wait") /\ registry[turn[t].card].answer = "none"
  /\ turn' = [turn EXCEPT ![t].step = "lapsed"]
  /\ UNCHANGED <<prompt, listeners, gone, stopped, registry, seen, acks, performed>>

\* Mutant of Withdraw: the answer is read whether or not it came in time.
WithdrawLate(t) ==
  LET id == turn[t].card IN
  /\ turn[t].step \in {"woken", "lapsed"}
  /\ registry' = [registry EXCEPT ![id].state = "removed"]
  /\ turn' = [turn EXCEPT ![t].step = "decide", ![t].approved = (registry[id].answer = "yes")]
  /\ UNCHANGED <<prompt, listeners, gone, stopped, seen, acks, performed>>

\* The card leaves the registry, and the answer counts only if it came in time.
Withdraw(t) ==
  LET id == turn[t].card IN
  /\ turn[t].step \in {"woken", "lapsed"}
  /\ registry' = [registry EXCEPT ![id].state = "removed"]
  /\ turn' = [turn EXCEPT ![t].step = "decide",
                          ![t].approved = (At(t, "woken") /\ registry[id].answer = "yes")]
  /\ UNCHANGED <<prompt, listeners, gone, stopped, seen, acks, performed>>

\* Mutant of Decide: Stop is not checked once more after the answer.
DecideUnchecked(t) ==
  /\ At(t, "decide")
  /\ prompt' = Released(t)
  /\ turn' = [turn EXCEPT ![t].step = IF turn[t].approved THEN "acting" ELSE "working",
                          ![t].card = IF turn[t].approved THEN @ ELSE None,
                          ![t].approved = FALSE, ![t].risk = "medium"]
  /\ UNCHANGED <<listeners, gone, stopped, registry, seen, acks, performed>>

\* The lock is released; the action goes ahead, or ApprovalDenied is raised and
\* the turn is told.
Decide(t) ==
  /\ At(t, "decide") /\ t \notin stopped
  /\ prompt' = Released(t)
  /\ turn' = [turn EXCEPT ![t].step = IF turn[t].approved THEN "acting" ELSE "working",
                          ![t].card = IF turn[t].approved THEN @ ELSE None,
                          ![t].approved = FALSE, ![t].risk = "medium"]
  /\ UNCHANGED <<listeners, gone, stopped, registry, seen, acks, performed>>

\* Mutant of Act: an action waved through is taken for one behind a card.
ActBehindNoCard(t) ==
  /\ At(t, "acting")
  /\ performed' = performed \cup {turn[t].card}
  /\ turn' = [turn EXCEPT ![t].step = "working", ![t].card = None]
  /\ UNCHANGED <<prompt, listeners, gone, stopped, registry, seen, acks>>

Act(t) ==
  /\ At(t, "acting")
  /\ performed' = performed \cup ({turn[t].card} \ {None})
  /\ turn' = [turn EXCEPT ![t].step = "working", ![t].card = None]
  /\ UNCHANGED <<prompt, listeners, gone, stopped, registry, seen, acks>>

\* ApprovalBroker.resolve, for whoever posts the id: the card need not have been
\* shown to the page that answers it.
Resolve(viewer, id, verdict) ==
  /\ registry[id].state = "pending" /\ registry[id].answer = "none"
  /\ Sees(viewer, registry[id].owner)
  /\ registry' = [registry EXCEPT ![id].answer = verdict]
  /\ acks' = acks \cup {[card |-> id, viewer |-> viewer, answer |-> verdict,
                         late |-> \E t \in stopped : turn[t].card = id]}
  /\ UNCHANGED <<turn, prompt, listeners, gone, stopped, seen, performed>>

-----------------------------------------------------------------------------
\* Steps the thread of t takes on its own, without anybody asking it to.
Proceed(t) ==
  \/ NoticeStop(t)
  \/ TakeLock(t)
  \/ AskNobody(t)
  \/ \E id \in Cards : Ask(t, id)
  \/ \E l \in Turns : Notify(t, l) \/ NotifyFails(t, l)
  \/ Wake(t)
  \/ TimeOut(t)
  \/ Withdraw(t)
  \/ Decide(t)
  \/ Act(t)

Outside ==
  \/ \E t \in Turns, who \in Viewers, streaming \in BOOLEAN : Start(t, who, streaming)
  \/ \E t \in Turns : Finish(t) \/ Disconnect(t) \/ HangUp(t) \/ Stop(t)
  \/ \E t \in Turns, risk \in Risks : Require(t, risk)
  \/ \E viewer \in Viewers, id \in Cards, verdict \in {"yes", "no"} : Resolve(viewer, id, verdict)

Rest == (\A t \in Turns : At(t, "done")) /\ UNCHANGED vars

Next == (\E t \in Turns : Proceed(t)) \/ Outside \/ Rest

\* A thread keeps running, and the clock runs with it: nothing is assumed of
\* the people who start, stop, answer or leave, or of the tools between cards.
Fairness == \A t \in Turns : WF_vars(Proceed(t))

Spec == Init /\ [][Next]_vars /\ Fairness

-----------------------------------------------------------------------------
(* Properties.                                                             *)

\* What is done behind a card was answered once, with yes, by the account that
\* asked for it, and that answer was given before the turn was stopped.  A late
\* yes, a second one or another card's authorises nothing (resolve, require).
ConsentGiven ==
  \A id \in performed :
    \E ack \in acks :
      /\ {a \in acks : a.card = id} = {ack}
      /\ ack.answer = "yes" /\ ~ack.late
      /\ registry[id].owner # None => ack.viewer = registry[id].owner

\* A card carries a command, a path or a recipient: it is written to no stream
\* of another account, not even one that was listed as the card was put.
CardsStayWithTheirAccount ==
  \A s \in seen : registry[s[2]].owner # None => turn[s[1]].who = registry[s[2]].owner

\* One card at a time is put to anybody, and the turn that put it holds the
\* gate: the answer that comes is about the card that shows.
OneCardAtATime ==
  \A t \in Turns :
    turn[t].step \in {"ask", "notify", "wait", "woken", "lapsed", "decide"} => prompt = t

\* An abandoned tab does not pin the gate: the lock is given up whoever holds
\* it, answered or not, connected or not, stopped or not.
GateIsReleased == \A t \in Turns : prompt = t ~> prompt # t

\* A card put to a stream whose connection is dead is still answerable, through
\* another stream or the polling route (approvals.py:101).
DeadStreamDoesNotStopTheCard ==
  [][\A t \in Turns :
       At(t, "notify") /\ t \notin stopped \cup gone => turn'[t].step # "done"]_vars

-----------------------------------------------------------------------------
(* Consent, the abstract specification.                                    *)

\* What became of a card: the turn that put it still has it, or nobody has.
Phase(id) ==
  LET holders == {t \in Turns : turn[t].card = id}
      answered == registry[id].answer
  IN IF id \in performed THEN "performed"
     ELSE IF registry[id].state = "unused" THEN "unasked"
     ELSE IF \E t \in holders : turn[t].step \in {"notify", "wait"} /\ answered = "none" THEN "asked"
     ELSE IF \E t \in holders : \/ turn[t].step \in {"notify", "wait", "woken"} /\ answered = "yes"
                                \/ At(t, "decide") /\ turn[t].approved
                                \/ At(t, "acting")
     THEN "granted"
     ELSE "refused"

Abstract == INSTANCE Consent WITH
  Machine <- None,
  phase <- [id \in Cards |-> Phase(id)],
  owner <- [id \in Cards |-> registry[id].owner]

\* The gate, the broker, the streams and Stop together do what Consent says.
ImplementsConsent == Abstract!Spec

=============================================================================
