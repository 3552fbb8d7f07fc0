---------------------------- MODULE TurnsProofs ----------------------------
(***************************************************************************)
(* What TLAPS proves of MCTurns' parts, for any requests, cards, accounts, *)
(* conversations, reminders and processes.  Approvals: one card at a time  *)
(* is put, a card is written to streams of its own account, what is done   *)
(* was consented to, and the whole implements Consent.  Context: a model   *)
(* is told what was said.  Replies: a reply is taken for what it answers,  *)
(* and the reminder that was named is the one that is acted on.  Records:  *)
(* what is written down is there once and for as long as it should be.     *)
(* And the types of all of them, and of Forms.                             *)
(***************************************************************************)
EXTENDS MCTurns, SequenceTheorems, FiniteSetTheorems, WellFoundedInduction, TLAPS

\* The steps between taking the gate's lock and giving it up.
Locked == {"ask", "notify", "wait", "woken", "lapsed", "decide"}
Waiting == {"notify", "wait", "woken", "lapsed"}

AcksOf(id) == {a \in acks : a.card = id}

\* One answer was acknowledged, and it is the one the registry has.
AnsweredOnce(id, ack) ==
  /\ AcksOf(id) = {ack} /\ ack.answer = registry[id].answer
  /\ registry[id].owner # None => ack.viewer = registry[id].owner

Consented(id) == \E ack \in acks : AnsweredOnce(id, ack) /\ ack.answer = "yes" /\ ~ack.late

\* The stream of l began under the card's account.
MayRead(l, id) == turn[l].step # "new" /\ (registry[id].owner # None => turn[l].who = registry[id].owner)

\* A turn has its card from the moment it is put until its action is over or
\* refused; the card is its account's, and open until it is withdrawn.
TurnOK(t) ==
  /\ turn[t].step \in Locked => prompt = t
  /\ turn[t].card # None =>
       /\ turn[t].step \in Waiting \cup {"decide", "acting"}
       /\ registry[turn[t].card].owner = turn[t].who
  /\ turn[t].step \in Waiting => turn[t].card # None /\ registry[turn[t].card].state = "pending"
  /\ turn[t].step = "woken" => registry[turn[t].card].answer # "none"
  /\ turn[t].step \in {"decide", "acting"} /\ turn[t].card # None =>
       registry[turn[t].card].state = "removed"
  /\ turn[t].step = "decide" /\ turn[t].card # None /\ turn[t].approved =>
       registry[turn[t].card].answer = "yes"
  /\ turn[t].step = "acting" /\ turn[t].card # None => Consented(turn[t].card)
  /\ turn[t].left # {} => turn[t].step = "notify"
  /\ \A l \in turn[t].left : MayRead(l, turn[t].card)

\* An answer given after Stop leaves its turn stopped for as long as it has the card.
CardOK(id) ==
  /\ registry[id].state = "unused" => registry[id].answer = "none"
  /\ registry[id].answer = "none" => AcksOf(id) = {}
  /\ registry[id].answer # "none" => \E ack \in acks : AnsweredOnce(id, ack)
  /\ \A ack \in AcksOf(id) : ack.late => \A t \in Turns : turn[t].card = id => t \in stopped
  /\ id \in performed =>
       /\ registry[id].state = "removed" /\ Consented(id)
       /\ \A t \in Turns : turn[t].card # id

CardsApart == \A t, u \in Turns : t # u /\ turn[t].card # None => turn[t].card # turn[u].card

StreamsOK ==
  /\ \A l \in listeners : turn[l].step # "new"
  /\ \A l \in Turns, id \in Cards : <<l, id>> \in seen => registry[id].state # "unused" /\ MayRead(l, id)

IInv ==
  /\ TypeOK
  /\ \A t \in Turns : TurnOK(t)
  /\ \A id \in Cards : CardOK(id)
  /\ CardsApart
  /\ StreamsOK

-----------------------------------------------------------------------------
LEMMA InitInv == Init => IInv
<1>. SUFFICES ASSUME Init PROVE IInv
  OBVIOUS
<1>1. TypeOK
  BY DEF Init, TypeOK, Turn, Card, NewTurn, Viewers, Risks, Steps
<1>2. \A t \in Turns : TurnOK(t)
  BY DEF Init, NewTurn, TurnOK, Locked, Waiting
<1>3. \A id \in Cards : CardOK(id)
  BY DEF Init, CardOK, AcksOf
<1>. QED  BY <1>1, <1>2, <1>3 DEF Init, IInv, CardsApart, StreamsOK, NewTurn

-----------------------------------------------------------------------------
\* A step is looked at in three ways: what it does to the turns it is not
\* about, to the cards it is not about, and to its own turn and card.

LEMMA AnswersKept ==
  ASSUME UNCHANGED acks, NEW k, registry'[k].answer = registry[k].answer, registry'[k].owner = registry[k].owner
  PROVE  /\ AcksOf(k)' = AcksOf(k)
         /\ Consented(k)' <=> Consented(k)
         /\ (\E ack \in acks : AnsweredOnce(k, ack))' <=> (\E ack \in acks : AnsweredOnce(k, ack))
BY DEF AcksOf, Consented, AnsweredOnce

\* The turns begin once, and stay with their account.
TurnsKept == \A l \in Turns : turn'[l].step = "new" => turn[l].step = "new"
WhoKept == \A l \in Turns : turn[l].step # "new" => turn'[l].who = turn[l].who

LEMMA OtherTurn ==
  ASSUME IInv, NEW u \in Turns, turn'[u] = turn[u], prompt = u => prompt' = u, UNCHANGED acks,
         turn[u].card # None => registry'[turn[u].card] = registry[turn[u].card],
         TurnsKept, WhoKept
  PROVE  TurnOK(u)'
<1>1. TurnOK(u) /\ turn[u].left \subseteq Turns
  BY DEF IInv, TypeOK, Turn
<1>2. ASSUME turn[u].card # None
      PROVE  Consented(turn[u].card)' <=> Consented(turn[u].card)
  BY <1>2, AnswersKept
<1>3. ASSUME NEW l \in turn[u].left PROVE MayRead(l, turn[u].card)'
  <2>1. MayRead(l, turn[u].card) /\ l \in Turns /\ turn[u].card # None
    BY <1>1, <1>3 DEF TurnOK, Waiting
  <2>. QED  BY <2>1 DEF MayRead, TurnsKept, WhoKept
<1>. QED  BY <1>1, <1>2, <1>3 DEF TurnOK, Waiting

LEMMA OtherCard ==
  ASSUME IInv, NEW k \in Cards, UNCHANGED acks, registry'[k] = registry[k], k \in performed' => k \in performed,
         \A t \in Turns : turn'[t].card = k => turn[t].card = k /\ (t \in stopped => t \in stopped')
  PROVE  CardOK(k)'
BY AnswersKept DEF IInv, CardOK


LEMMA EndTurnInv ==
  ASSUME IInv, NEW t \in Turns, EndTurn(t), turn[t].step # "new"
  PROVE  IInv'
<1>1. TypeOK'
  BY DEF IInv, TypeOK, Turn, Steps, Viewers, Risks, EndTurn, NewTurn, Released
<1>2. TurnsKept /\ WhoKept
  BY DEF IInv, TypeOK, Turn, TurnsKept, WhoKept, EndTurn, NewTurn, Released
<1>3. ASSUME NEW u \in Turns, u # t PROVE TurnOK(u)'
  BY <1>2, <1>3, OtherTurn DEF IInv, TypeOK, EndTurn, Released
<1>4. TurnOK(t)'
  BY DEF IInv, TypeOK, Turn, TurnOK, Locked, Waiting, EndTurn, NewTurn
<1>5. ASSUME NEW k \in Cards PROVE CardOK(k)'
  BY ApprovalsAssumption, OtherCard DEF IInv, TypeOK, Turn, EndTurn, NewTurn, Released
<1>6. CardsApart'
  BY DEF IInv, TypeOK, Turn, CardsApart, EndTurn, NewTurn, Released
<1>7. StreamsOK'
  BY <1>2 DEF IInv, TypeOK, Turn, StreamsOK, MayRead, TurnsKept, WhoKept, EndTurn, NewTurn, Released
<1>. QED  BY <1>1, <1>3, <1>4, <1>5, <1>6, <1>7 DEF IInv

LEMMA StartInv ==
  ASSUME IInv, NEW t \in Turns, NEW who \in Viewers, NEW streaming \in BOOLEAN, Start(t, who, streaming)
  PROVE  IInv'
<1>1. TypeOK'
  <2>1. turn[t] \in Turn /\ turn'[t] = [turn[t] EXCEPT !.step = "working", !.who = who]
    BY DEF IInv, TypeOK, Start
  <2>2. turn'[t] \in Turn
    BY <2>1 DEF Turn, Steps
  <2>. QED  BY <2>2 DEF IInv, TypeOK, Start
<1>2. TurnsKept /\ WhoKept
  BY DEF IInv, TypeOK, Turn, TurnsKept, WhoKept, Start, At
<1>3. ASSUME NEW u \in Turns, u # t PROVE TurnOK(u)'
  BY <1>2, <1>3, OtherTurn DEF IInv, TypeOK, CardsApart, Start, At
<1>4. TurnOK(t)'
  BY AnswersKept DEF IInv, TypeOK, Turn, TurnOK, Locked, Waiting, Start, At
<1>5. ASSUME NEW k \in Cards PROVE CardOK(k)'
  BY OtherCard DEF IInv, TypeOK, Turn, Start, At
<1>6. CardsApart'
  BY DEF IInv, TypeOK, Turn, CardsApart, Start, At
<1>7. StreamsOK'
  BY <1>2 DEF IInv, TypeOK, Turn, StreamsOK, MayRead, TurnsKept, WhoKept, Start, At
<1>. QED  BY <1>1, <1>3, <1>4, <1>5, <1>6, <1>7 DEF IInv

LEMMA DisconnectInv ==
  ASSUME IInv, NEW t \in Turns, Disconnect(t)
  PROVE  IInv'
<1>1. TypeOK'
  BY DEF IInv, TypeOK, Turn, Steps, Disconnect
<1>2. TurnsKept /\ WhoKept
  BY DEF IInv, TypeOK, Turn, TurnsKept, WhoKept, Disconnect
<1>3. ASSUME NEW u \in Turns, u # t PROVE TurnOK(u)'
  BY <1>2, <1>3, OtherTurn DEF IInv, TypeOK, CardsApart, Disconnect
<1>4. TurnOK(t)'
  BY <1>2, OtherTurn DEF Disconnect
<1>5. ASSUME NEW k \in Cards PROVE CardOK(k)'
  BY OtherCard DEF IInv, TypeOK, Turn, Disconnect
<1>6. CardsApart'
  BY DEF IInv, TypeOK, Turn, CardsApart, Disconnect
<1>7. StreamsOK'
  BY <1>2 DEF IInv, TypeOK, Turn, StreamsOK, MayRead, TurnsKept, WhoKept, Disconnect
<1>. QED  BY <1>1, <1>3, <1>4, <1>5, <1>6, <1>7 DEF IInv

LEMMA StopInv ==
  ASSUME IInv, NEW t \in Turns, Stop(t)
  PROVE  IInv'
<1>1. TypeOK'
  BY DEF IInv, TypeOK, Turn, Steps, Stop
<1>2. TurnsKept /\ WhoKept
  BY DEF IInv, TypeOK, Turn, TurnsKept, WhoKept, Stop
<1>3. ASSUME NEW u \in Turns, u # t PROVE TurnOK(u)'
  BY <1>2, <1>3, OtherTurn DEF IInv, TypeOK, CardsApart, Stop
<1>4. TurnOK(t)'
  BY <1>2, OtherTurn DEF Stop
<1>5. ASSUME NEW k \in Cards PROVE CardOK(k)'
  BY OtherCard DEF IInv, TypeOK, Turn, Stop
<1>6. CardsApart'
  BY DEF IInv, TypeOK, Turn, CardsApart, Stop
<1>7. StreamsOK'
  BY <1>2 DEF IInv, TypeOK, Turn, StreamsOK, MayRead, TurnsKept, WhoKept, Stop
<1>. QED  BY <1>1, <1>3, <1>4, <1>5, <1>6, <1>7 DEF IInv

LEMMA RequireInv ==
  ASSUME IInv, NEW t \in Turns, NEW risk \in Risks, Require(t, risk)
  PROVE  IInv'
<1>1. TypeOK'
  BY DEF IInv, TypeOK, Turn, Steps, Require, At
<1>2. TurnsKept /\ WhoKept
  BY DEF IInv, TypeOK, Turn, TurnsKept, WhoKept, Require, At
<1>3. ASSUME NEW u \in Turns, u # t PROVE TurnOK(u)'
  BY <1>2, <1>3, OtherTurn DEF IInv, TypeOK, CardsApart, Require, At
<1>4. TurnOK(t)'
  BY AnswersKept DEF IInv, TypeOK, Turn, TurnOK, Locked, Waiting, Require, At
<1>5. ASSUME NEW k \in Cards PROVE CardOK(k)'
  BY OtherCard DEF IInv, TypeOK, Turn, Require, At
<1>6. CardsApart'
  BY DEF IInv, TypeOK, Turn, CardsApart, Require, At
<1>7. StreamsOK'
  BY <1>2 DEF IInv, TypeOK, Turn, StreamsOK, MayRead, TurnsKept, WhoKept, Require, At
<1>. QED  BY <1>1, <1>3, <1>4, <1>5, <1>6, <1>7 DEF IInv

LEMMA TakeLockInv ==
  ASSUME IInv, NEW t \in Turns, TakeLock(t)
  PROVE  IInv'
<1>1. TypeOK'
  BY DEF IInv, TypeOK, Turn, Steps, TakeLock, At
<1>2. TurnsKept /\ WhoKept
  BY DEF IInv, TypeOK, Turn, TurnsKept, WhoKept, TakeLock, At
<1>3. ASSUME NEW u \in Turns, u # t PROVE TurnOK(u)'
  BY ApprovalsAssumption, <1>2, <1>3, OtherTurn DEF IInv, TypeOK, CardsApart, TakeLock, At
<1>4. TurnOK(t)'
  BY AnswersKept DEF IInv, TypeOK, Turn, TurnOK, Locked, Waiting, TakeLock, At
<1>5. ASSUME NEW k \in Cards PROVE CardOK(k)'
  BY OtherCard DEF IInv, TypeOK, Turn, TakeLock, At
<1>6. CardsApart'
  BY DEF IInv, TypeOK, Turn, CardsApart, TakeLock, At
<1>7. StreamsOK'
  BY <1>2 DEF IInv, TypeOK, Turn, StreamsOK, MayRead, TurnsKept, WhoKept, TakeLock, At
<1>. QED  BY <1>1, <1>3, <1>4, <1>5, <1>6, <1>7 DEF IInv

LEMMA AskNobodyInv ==
  ASSUME IInv, NEW t \in Turns, AskNobody(t)
  PROVE  IInv'
<1>1. TypeOK'
  <2> DEFINE waved == turn[t].risk = "medium"
  <2>1. turn[t] \in Turn /\ turn'[t] = [turn[t] EXCEPT !.step = "decide", !.approved = waved]
    BY DEF IInv, TypeOK, AskNobody
  <2>2. waved \in BOOLEAN
    OBVIOUS
  <2> HIDE DEF waved
  <2>3. turn'[t] \in Turn
    BY <2>1, <2>2 DEF Turn, Steps
  <2>. QED  BY <2>3 DEF IInv, TypeOK, AskNobody
<1>2. TurnsKept /\ WhoKept
  BY DEF IInv, TypeOK, Turn, TurnsKept, WhoKept, AskNobody, At
<1>3. ASSUME NEW u \in Turns, u # t PROVE TurnOK(u)'
  BY <1>2, <1>3, OtherTurn DEF IInv, TypeOK, CardsApart, AskNobody, At
<1>4. TurnOK(t)'
  BY AnswersKept DEF IInv, TypeOK, Turn, TurnOK, Locked, Waiting, AskNobody, At
<1>5. ASSUME NEW k \in Cards PROVE CardOK(k)'
  BY OtherCard DEF IInv, TypeOK, Turn, AskNobody, At
<1>6. CardsApart'
  BY DEF IInv, TypeOK, Turn, CardsApart, AskNobody, At
<1>7. StreamsOK'
  BY <1>2 DEF IInv, TypeOK, Turn, StreamsOK, MayRead, TurnsKept, WhoKept, AskNobody, At
<1>. QED  BY <1>1, <1>3, <1>4, <1>5, <1>6, <1>7 DEF IInv

LEMMA WakeInv ==
  ASSUME IInv, NEW t \in Turns, Wake(t)
  PROVE  IInv'
<1>1. TypeOK'
  BY DEF IInv, TypeOK, Turn, Steps, Wake, At
<1>2. TurnsKept /\ WhoKept
  BY DEF IInv, TypeOK, Turn, TurnsKept, WhoKept, Wake, At
<1>3. ASSUME NEW u \in Turns, u # t PROVE TurnOK(u)'
  BY <1>2, <1>3, OtherTurn DEF IInv, TypeOK, CardsApart, Wake, At
<1>4. TurnOK(t)'
  BY AnswersKept DEF IInv, TypeOK, Turn, TurnOK, Locked, Waiting, Wake, At
<1>5. ASSUME NEW k \in Cards PROVE CardOK(k)'
  BY OtherCard DEF IInv, TypeOK, Turn, Wake, At
<1>6. CardsApart'
  BY DEF IInv, TypeOK, Turn, CardsApart, Wake, At
<1>7. StreamsOK'
  BY <1>2 DEF IInv, TypeOK, Turn, StreamsOK, MayRead, TurnsKept, WhoKept, Wake, At
<1>. QED  BY <1>1, <1>3, <1>4, <1>5, <1>6, <1>7 DEF IInv

LEMMA TimeOutInv ==
  ASSUME IInv, NEW t \in Turns, TimeOut(t)
  PROVE  IInv'
<1>1. TypeOK'
  BY DEF IInv, TypeOK, Turn, Steps, TimeOut, At
<1>2. TurnsKept /\ WhoKept
  BY DEF IInv, TypeOK, Turn, TurnsKept, WhoKept, TimeOut, At
<1>3. ASSUME NEW u \in Turns, u # t PROVE TurnOK(u)'
  BY <1>2, <1>3, OtherTurn DEF IInv, TypeOK, CardsApart, TimeOut, At
<1>4. TurnOK(t)'
  BY AnswersKept DEF IInv, TypeOK, Turn, TurnOK, Locked, Waiting, TimeOut, At
<1>5. ASSUME NEW k \in Cards PROVE CardOK(k)'
  BY OtherCard DEF IInv, TypeOK, Turn, TimeOut, At
<1>6. CardsApart'
  BY DEF IInv, TypeOK, Turn, CardsApart, TimeOut, At
<1>7. StreamsOK'
  BY <1>2 DEF IInv, TypeOK, Turn, StreamsOK, MayRead, TurnsKept, WhoKept, TimeOut, At
<1>. QED  BY <1>1, <1>3, <1>4, <1>5, <1>6, <1>7 DEF IInv

LEMMA NotifyInv ==
  ASSUME IInv, NEW t \in Turns, NEW l \in Turns, Notify(t, l)
  PROVE  IInv'
<1>1. TypeOK'
  <2>1. turn[t] \in Turn /\ turn'[t].left \in SUBSET Turns /\ turn'[t].step \in Steps
    BY DEF IInv, TypeOK, Turn, Steps, Notify
  <2>2. turn'[t] = [turn[t] EXCEPT !.left = turn'[t].left, !.step = turn'[t].step]
    BY DEF IInv, TypeOK, Turn, Notify
  <2>3. turn'[t] \in Turn
    BY <2>1, <2>2 DEF Turn
  <2>4. turn[t].card \in Cards
    BY ApprovalsAssumption DEF IInv, TypeOK, Turn, TurnOK, Waiting, Notify, At
  <2>. QED  BY <2>3, <2>4 DEF IInv, TypeOK, Notify
<1>2. TurnsKept /\ WhoKept
  BY DEF IInv, TypeOK, Turn, TurnsKept, WhoKept, Notify, At
<1>3. ASSUME NEW u \in Turns, u # t PROVE TurnOK(u)'
  BY <1>2, <1>3, OtherTurn DEF IInv, TypeOK, CardsApart, Notify, At
<1>4. TurnOK(t)'
  <2>1. /\ turn'[t].card = turn[t].card /\ turn'[t].who = turn[t].who
        /\ turn'[t].left = turn[t].left \ {l}
        /\ turn'[t].step = IF turn[t].left = {l} THEN "wait" ELSE "notify"
        /\ turn[t].step = "notify"
    BY DEF IInv, TypeOK, Turn, Notify, At
  <2>2. ASSUME NEW m \in turn'[t].left PROVE MayRead(m, turn[t].card)'
    BY <1>2, <2>1 DEF IInv, TypeOK, Turn, TurnOK, MayRead, TurnsKept, WhoKept, Notify
  <2>3. TurnOK(t) /\ UNCHANGED <<prompt, registry>>
    BY DEF IInv, Notify
  <2>4. turn'[t].left # {} => turn'[t].step = "notify"
    BY <2>1
  <2>5. turn'[t].step \in {"wait", "notify"}
    BY <2>1
  <2>. QED  BY <2>1, <2>2, <2>3, <2>4, <2>5 DEF TurnOK, Locked, Waiting
<1>5. ASSUME NEW k \in Cards PROVE CardOK(k)'
  BY OtherCard DEF IInv, TypeOK, Turn, Notify, At
<1>6. CardsApart'
  BY DEF IInv, TypeOK, Turn, CardsApart, Notify, At
<1>7. StreamsOK'
  <2>1. /\ turn[t].card \in Cards /\ registry[turn[t].card].state = "pending"
        /\ MayRead(l, turn[t].card)
    BY ApprovalsAssumption DEF IInv, TypeOK, Turn, TurnOK, Waiting, Notify, At
  <2>2. ASSUME NEW m \in Turns, NEW k \in Cards, <<m, k>> \in seen'
        PROVE  registry[k].state # "unused" /\ MayRead(m, k)
    BY <2>1, <2>2 DEF IInv, StreamsOK, Notify
  <2>3. ASSUME NEW m \in Turns, NEW k \in Cards, MayRead(m, k) PROVE MayRead(m, k)'
    BY <1>2, <2>3 DEF MayRead, TurnsKept, WhoKept, Notify
  <2>. QED  BY <1>2, <2>2, <2>3 DEF IInv, TypeOK, StreamsOK, TurnsKept, Notify
<1>. QED  BY <1>1, <1>3, <1>4, <1>5, <1>6, <1>7 DEF IInv

LEMMA AskInv ==
  ASSUME IInv, NEW t \in Turns, NEW id \in Cards, Ask(t, id)
  PROVE  IInv'
<1>1. TypeOK'
  <2>1. turn[t] \in Turn /\ Audience(t) \in SUBSET Turns /\ registry[id] \in Card
    BY DEF IInv, TypeOK, Audience
  <2>2. turn'[t] = [turn[t] EXCEPT !.step = "notify", !.card = id, !.left = Audience(t)]
    BY DEF IInv, TypeOK, Ask
  <2>3. turn'[t] \in Turn
    BY <2>1, <2>2 DEF Turn, Steps
  <2>4. registry'[id] = [registry[id] EXCEPT !.state = "pending", !.owner = turn[t].who]
    BY DEF IInv, TypeOK, Ask
  <2>5. registry'[id] \in Card
    BY <2>1, <2>4 DEF Turn, Card
  <2>. QED  BY <2>3, <2>5 DEF IInv, TypeOK, Ask
<1>2. TurnsKept /\ WhoKept
  BY DEF IInv, TypeOK, Turn, TurnsKept, WhoKept, Ask, At
<1>3. ASSUME NEW u \in Turns, u # t PROVE TurnOK(u)'
  <2>1. turn[u].card # id
    BY DEF IInv, TypeOK, Turn, TurnOK, Waiting, Ask
  <2>. QED  BY <1>2, <1>3, <2>1, OtherTurn DEF IInv, TypeOK, Turn, Ask
<1>4. TurnOK(t)'
  BY AnswersKept DEF IInv, TypeOK, Turn, TurnOK, Locked, Waiting, Ask, At
<1>5. ASSUME NEW k \in Cards PROVE CardOK(k)'
  <2>1. CASE k # id
    BY <2>1, OtherCard DEF IInv, TypeOK, Ask
  <2>2. CASE k = id
    <3>1. registry'[id].state = "pending" /\ registry'[id].answer = "none" /\ AcksOf(id)' = {}
      BY DEF IInv, TypeOK, Card, CardOK, AcksOf, Ask
    <3>2. id \notin performed'
      BY DEF IInv, CardOK, Ask
    <3>. QED  BY <2>2, <3>1, <3>2 DEF CardOK
  <2>. QED  BY <2>1, <2>2
<1>6. CardsApart'
  BY DEF IInv, TypeOK, Turn, CardsApart, Ask, At
<1>7. StreamsOK'
  BY <1>2 DEF IInv, TypeOK, Turn, StreamsOK, MayRead, TurnsKept, WhoKept, Ask, At
<1>. QED  BY <1>1, <1>3, <1>4, <1>5, <1>6, <1>7 DEF IInv

LEMMA WithdrawInv ==
  ASSUME IInv, NEW t \in Turns, Withdraw(t)
  PROVE  IInv'
<1>1. TypeOK'
  <2> DEFINE granted == At(t, "woken") /\ registry[turn[t].card].answer = "yes"
  <2>1. turn[t] \in Turn /\ turn'[t] = [turn[t] EXCEPT !.step = "decide", !.approved = granted]
    BY DEF IInv, TypeOK, Withdraw
  <2>2. granted \in BOOLEAN
    BY DEF At
  <2>3. turn[t].card \in Cards
    BY ApprovalsAssumption DEF IInv, TypeOK, Turn, TurnOK, Waiting, Withdraw
  <2>4. registry'[turn[t].card] \in Card
    BY <2>3 DEF IInv, TypeOK, Card, Withdraw
  <2> HIDE DEF granted
  <2>5. turn'[t] \in Turn
    BY <2>1, <2>2 DEF Turn, Steps
  <2>. QED  BY <2>4, <2>5 DEF IInv, TypeOK, Withdraw
<1>2. TurnsKept /\ WhoKept
  BY DEF IInv, TypeOK, Turn, TurnsKept, WhoKept, Withdraw, At
<1>3. ASSUME NEW u \in Turns, u # t PROVE TurnOK(u)'
  BY <1>2, <1>3, OtherTurn DEF IInv, TypeOK, CardsApart, Withdraw, At
<1>4. TurnOK(t)'
  BY AnswersKept DEF IInv, TypeOK, Turn, TurnOK, Locked, Waiting, Withdraw, At
<1>5. ASSUME NEW k \in Cards PROVE CardOK(k)'
  <2>1. CASE k # turn[t].card
    BY <2>1, OtherCard DEF IInv, TypeOK, Turn, Withdraw
  <2>2. CASE k = turn[t].card
    <3>1. /\ registry'[k].state = "removed"
          /\ registry'[k].answer = registry[k].answer /\ registry'[k].owner = registry[k].owner
      BY <2>2 DEF IInv, TypeOK, Card, Withdraw
    <3>2. \A u \in Turns : turn'[u].card = turn[u].card
      BY DEF IInv, TypeOK, Turn, Withdraw
    <3>3. UNCHANGED <<acks, stopped, performed>> /\ CardOK(k)
      BY DEF IInv, Withdraw
    <3>4. registry[k].state # "unused" /\ k \notin performed
      BY <2>2 DEF IInv, TurnOK, CardOK, Waiting, Withdraw
    <3>. QED  BY <3>1, <3>2, <3>3, <3>4, AnswersKept DEF CardOK
  <2>. QED  BY <2>1, <2>2
<1>6. CardsApart'
  BY DEF IInv, TypeOK, Turn, CardsApart, Withdraw, At
<1>7. StreamsOK'
  BY <1>2 DEF IInv, TypeOK, Turn, StreamsOK, MayRead, TurnsKept, WhoKept, Withdraw, At
<1>. QED  BY <1>1, <1>3, <1>4, <1>5, <1>6, <1>7 DEF IInv

LEMMA DecideInv ==
  ASSUME IInv, NEW t \in Turns, Decide(t)
  PROVE  IInv'
<1>1. TypeOK'
  <2>1. turn[t] \in Turn /\ turn'[t].step \in Steps /\ turn'[t].card \in Cards \cup {None}
    BY DEF IInv, TypeOK, Turn, Steps, Decide
  <2>2. turn'[t] = [turn[t] EXCEPT !.step = turn'[t].step, !.card = turn'[t].card, !.approved = FALSE,
                                   !.risk = "medium"]
    BY DEF IInv, TypeOK, Turn, Decide
  <2>3. turn'[t] \in Turn
    BY <2>1, <2>2 DEF Turn, Risks
  <2>. QED  BY <2>3 DEF IInv, TypeOK, Decide, Released
<1>2. TurnsKept /\ WhoKept
  BY DEF IInv, TypeOK, Turn, TurnsKept, WhoKept, Decide, At, Released
<1>3. ASSUME NEW u \in Turns, u # t PROVE TurnOK(u)'
  BY <1>2, <1>3, OtherTurn DEF IInv, TypeOK, CardsApart, Decide, At, Released
<1>4. TurnOK(t)'
  BY AnswersKept DEF IInv, TypeOK, Turn, TurnOK, Locked, Waiting, Decide, At, Released
<1>5. ASSUME NEW k \in Cards PROVE CardOK(k)'
  BY OtherCard DEF IInv, TypeOK, Turn, Decide, At, Released
<1>6. CardsApart'
  BY DEF IInv, TypeOK, Turn, CardsApart, Decide, At, Released
<1>7. StreamsOK'
  BY <1>2 DEF IInv, TypeOK, Turn, StreamsOK, MayRead, TurnsKept, WhoKept, Decide, At, Released
<1>. QED  BY <1>1, <1>3, <1>4, <1>5, <1>6, <1>7 DEF IInv

LEMMA ActInv ==
  ASSUME IInv, NEW t \in Turns, Act(t)
  PROVE  IInv'
<1>1. TypeOK'
  BY DEF IInv, TypeOK, Turn, Steps, Act, At
<1>2. TurnsKept /\ WhoKept
  BY DEF IInv, TypeOK, Turn, TurnsKept, WhoKept, Act, At
<1>3. ASSUME NEW u \in Turns, u # t PROVE TurnOK(u)'
  BY <1>2, <1>3, OtherTurn DEF IInv, TypeOK, CardsApart, Act, At
<1>4. TurnOK(t)'
  BY AnswersKept DEF IInv, TypeOK, Turn, TurnOK, Locked, Waiting, Act, At
<1>5. ASSUME NEW k \in Cards PROVE CardOK(k)'
  BY OtherCard DEF IInv, TypeOK, Turn, Act, At
<1>6. CardsApart'
  BY DEF IInv, TypeOK, Turn, CardsApart, Act, At
<1>7. StreamsOK'
  BY <1>2 DEF IInv, TypeOK, Turn, StreamsOK, MayRead, TurnsKept, WhoKept, Act, At
<1>. QED  BY <1>1, <1>3, <1>4, <1>5, <1>6, <1>7 DEF IInv

\* An answer is taken once, and only while nobody has acted on the card.
LEMMA ResolveInv ==
  ASSUME IInv, NEW viewer \in Viewers, NEW id \in Cards, NEW verdict \in {"yes", "no"},
         Resolve(viewer, id, verdict)
  PROVE  IInv'
<1>0. PICK ack : ack = [card |-> id, viewer |-> viewer, answer |-> verdict,
                        late |-> \E t \in stopped : turn[t].card = id]
  OBVIOUS
<1>1. /\ acks' = acks \cup {ack} /\ UNCHANGED <<turn, prompt, listeners, gone, stopped, seen, performed>>
      /\ registry[id].state = "pending" /\ registry[id].answer = "none"
      /\ AcksOf(id) = {}
  BY <1>0 DEF IInv, CardOK, Resolve
<1>2. registry'[id].answer = verdict /\ registry'[id].state = "pending"
      /\ registry'[id].owner = registry[id].owner
  BY DEF IInv, TypeOK, Card, Resolve
<1>3. \A k \in Cards : k # id => registry'[k] = registry[k]
  BY DEF IInv, TypeOK, Resolve
<1>4. registry[id].owner # None => viewer = registry[id].owner
  BY DEF Resolve, Sees
<1>5. ack.card = id /\ ack.viewer = viewer /\ ack.answer = verdict /\ ack.late \in BOOLEAN
      /\ (ack.late => \E t \in stopped : turn[t].card = id)
  BY <1>0
<1>6. ack \in [card : Cards, viewer : Viewers, answer : {"yes", "no"}, late : BOOLEAN]
  BY <1>0, <1>5
<1>7. TypeOK'
  <2>1. registry' \in [Cards -> Card]
    BY DEF IInv, TypeOK, Card, Resolve
  <2>. QED  BY <1>1, <1>6, <2>1 DEF IInv, TypeOK
<1>8. AcksOf(id)' = {ack} /\ \A k : k # id => AcksOf(k)' = AcksOf(k)
  BY <1>1, <1>5 DEF AcksOf
<1>9. ASSUME NEW k \in Cards, k # id
      PROVE  /\ Consented(k)' <=> Consented(k)
             /\ (\E a \in acks : AnsweredOnce(k, a))' <=> (\E a \in acks : AnsweredOnce(k, a))
  BY <1>1, <1>3, <1>8, <1>9 DEF Consented, AnsweredOnce, AcksOf
<1>10. \A t \in Turns : TurnOK(t)'
  <2>1. ASSUME NEW t \in Turns PROVE TurnOK(t)'
    <3>1. TurnOK(t) /\ (turn[t].card # None => turn[t].card \in Cards)
      BY DEF IInv, TypeOK, Turn
    <3>2. turn[t].step = "acting" \/ turn[t].step = "decide" => turn[t].card # id
      BY <1>1, <3>1, ApprovalsAssumption DEF TurnOK
    <3>3. \A l \in turn[t].left : MayRead(l, turn[t].card)'
      BY <1>1, <1>2, <1>3, <3>1 DEF TurnOK, MayRead, Waiting
    <3>. QED  BY <1>1, <1>2, <1>3, <1>9, <3>1, <3>2, <3>3 DEF TurnOK, Waiting
  <2>. QED  BY <2>1
<1>11. CardOK(id)'
  <2>1. AnsweredOnce(id, ack)'
    BY <1>2, <1>4, <1>5, <1>8 DEF AnsweredOnce
  <2>2. ack.late => \A t \in Turns : turn[t].card = id => t \in stopped
    BY <1>5, ApprovalsAssumption DEF IInv, TypeOK, CardsApart
  <2>3. id \notin performed
    BY <1>1 DEF IInv, CardOK
  <2>. QED  BY <1>1, <1>2, <1>8, <2>1, <2>2, <2>3 DEF CardOK
<1>12. ASSUME NEW k \in Cards, k # id PROVE CardOK(k)'
  BY <1>1, <1>3, <1>8, <1>9, <1>12 DEF IInv, CardOK
<1>13. CardsApart' /\ StreamsOK'
  BY <1>1, <1>2, <1>3 DEF IInv, TypeOK, CardsApart, StreamsOK, MayRead
<1>. QED  BY <1>7, <1>10, <1>11, <1>12, <1>13 DEF IInv

-----------------------------------------------------------------------------
LEMMA NextInv == IInv /\ [Next]_vars => IInv'
<1>. SUFFICES ASSUME IInv, [Next]_vars PROVE IInv'
  OBVIOUS
<1>1. CASE UNCHANGED vars
  BY <1>1 DEF vars, IInv, TypeOK, TurnOK, CardOK, CardsApart, StreamsOK, Consented, AnsweredOnce, AcksOf, MayRead
<1>2. ASSUME NEW t \in Turns, EndTurn(t), turn[t].step # "new" PROVE IInv'
  BY <1>2, EndTurnInv
<1>3. ASSUME NEW t \in Turns, Proceed(t) PROVE IInv'
  <2>1. CASE NoticeStop(t)
    BY <2>1, <1>2 DEF NoticeStop
  <2>2. CASE TakeLock(t) \/ AskNobody(t) \/ Wake(t) \/ TimeOut(t) \/ Withdraw(t) \/ Decide(t) \/ Act(t)
    BY <2>2, TakeLockInv, AskNobodyInv, WakeInv, TimeOutInv, WithdrawInv, DecideInv, ActInv
  <2>3. ASSUME NEW id \in Cards, Ask(t, id) PROVE IInv'
    BY <2>3, AskInv
  <2>4. ASSUME NEW l \in Turns, Notify(t, l) PROVE IInv'
    BY <2>4, NotifyInv
  <2>5. ASSUME NEW l \in Turns, NotifyFails(t, l) PROVE IInv'
    BY <2>5, <1>2 DEF NotifyFails, At
  <2>. QED  BY <1>3, <2>1, <2>2, <2>3, <2>4, <2>5 DEF Proceed
<1>4. CASE Outside
  <2>1. ASSUME NEW t \in Turns, NEW who \in Viewers, NEW streaming \in BOOLEAN, Start(t, who, streaming)
        PROVE  IInv'
    BY <2>1, StartInv
  <2>2. ASSUME NEW t \in Turns, Finish(t) \/ HangUp(t) PROVE IInv'
    BY <2>2, <1>2 DEF Finish, HangUp, At
  <2>3. ASSUME NEW t \in Turns, Disconnect(t) \/ Stop(t) PROVE IInv'
    BY <2>3, DisconnectInv, StopInv
  <2>4. ASSUME NEW t \in Turns, NEW risk \in Risks, Require(t, risk) PROVE IInv'
    BY <2>4, RequireInv
  <2>5. ASSUME NEW viewer \in Viewers, NEW id \in Cards, NEW verdict \in {"yes", "no"},
               Resolve(viewer, id, verdict)
        PROVE  IInv'
    BY <2>5, ResolveInv
  <2>. QED  BY <1>4, <2>1, <2>2, <2>3, <2>4, <2>5 DEF Outside
<1>. QED  BY <1>1, <1>3, <1>4 DEF Next, Rest

LEMMA Invariant == Spec => []IInv
BY InitInv, NextInv, PTL DEF Spec

\* The states are what the records of turns, cards and answers allow.
THEOREM ApprovalsWellTyped == Spec => []TypeOK
<1>1. IInv => TypeOK
  BY DEF IInv
<1>. QED  BY <1>1, Invariant, PTL

\* A turn that is asking holds the gate, so one card at a time is put to anybody (ApprovalGate.require).
THEOREM CardsComeOneAtATime == Spec => []OneCardAtATime
<1>1. IInv => OneCardAtATime
  BY DEF IInv, TurnOK, Locked, OneCardAtATime
<1>. QED  BY <1>1, Invariant, PTL

\* No stream of another account is sent a card (ApprovalBroker.request).
THEOREM CardsAreNotOverseen == Spec => []CardsStayWithTheirAccount
<1>1. IInv => CardsStayWithTheirAccount
  <2> SUFFICES ASSUME IInv, NEW s \in seen PROVE registry[s[2]].owner # None => turn[s[1]].who = registry[s[2]].owner
    BY DEF CardsStayWithTheirAccount
  <2>1. PICK l \in Turns, id \in Cards : s = <<l, id>>
    BY DEF IInv, TypeOK
  <2>. QED  BY <2>1 DEF IInv, StreamsOK, MayRead
<1>. QED  BY <1>1, Invariant, PTL

\* What was done behind a card had one answer, a yes of its account's, given before any Stop
\* (ApprovalBroker.request and resolve).
THEOREM NothingWithoutConsent == Spec => []ConsentGiven
<1>1. IInv => ConsentGiven
  BY DEF IInv, TypeOK, CardOK, Consented, AnsweredOnce, AcksOf, ConsentGiven
<1>. QED  BY <1>1, Invariant, PTL

-----------------------------------------------------------------------------
\* Approvals implements Consent: a step moves at most one card, and as
\* Consent allows.

\* The phase of the card that t has.
HeldPhase(t) ==
  LET answered == registry[turn[t].card].answer
  IN IF turn[t].step \in {"notify", "wait"} /\ answered = "none" THEN "asked"
     ELSE IF \/ turn[t].step \in {"notify", "wait", "woken"} /\ answered = "yes"
             \/ turn[t].step = "decide" /\ turn[t].approved
             \/ turn[t].step = "acting"
     THEN "granted"
     ELSE "refused"

LEMMA PhaseHeld ==
  ASSUME IInv, NEW t \in Turns, NEW id \in Cards, turn[t].card = id
  PROVE  Phase(id) = HeldPhase(t)
<1>1. id # None
  BY ApprovalsAssumption
<1>2. {u \in Turns : turn[u].card = id} = {t}
  BY <1>1 DEF IInv, CardsApart
<1>3. id \notin performed /\ registry[id].state # "unused"
  BY <1>1 DEF IInv, TurnOK, CardOK, Waiting
<1>. QED  BY <1>2, <1>3 DEF Phase, HeldPhase, At

LEMMA PhaseFree ==
  ASSUME NEW id \in Cards, \A t \in Turns : turn[t].card # id
  PROVE  Phase(id) = IF id \in performed THEN "performed"
                     ELSE IF registry[id].state = "unused" THEN "unasked" ELSE "refused"
BY DEF Phase

LEMMA PhaseKept ==
  ASSUME NEW id \in Cards, registry'[id] = registry[id], id \in performed' <=> id \in performed,
         \A t \in Turns : turn'[t].card = id <=> turn[t].card = id,
         \A t \in Turns : turn[t].card = id => turn'[t].step = turn[t].step /\ turn'[t].approved = turn[t].approved
  PROVE  Phase(id)' = Phase(id)
<1>1. {t \in Turns : turn[t].card = id}' = {t \in Turns : turn[t].card = id}
  OBVIOUS
<1>. QED  BY <1>1 DEF Phase, At

\* What a step of Approvals is to Consent.
Moves(id, from, to) ==
  /\ Phase(id) = from /\ Phase(id)' = to
  /\ \A k \in Cards : k # id => Phase(k)' = Phase(k)
Stays == \A k \in Cards : Phase(k)' = Phase(k)
Lapses(id) == Moves(id, "asked", "refused") \/ Moves(id, "granted", "refused")
OwnersStay == \A k \in Cards : registry'[k].owner = registry[k].owner

LEMMA StaysIsAStutter ==
  ASSUME Stays, OwnersStay
  PROVE  UNCHANGED Abstract!consentVars
BY DEF Stays, OwnersStay, Abstract!consentVars

LEMMA LapsesIsALapse ==
  ASSUME NEW id \in Cards, Lapses(id), OwnersStay
  PROVE  Abstract!Lapse(id)
BY DEF Lapses, Moves, OwnersStay, Abstract!Lapse

LEMMA EndTurnRefines ==
  ASSUME IInv, IInv', NEW t \in Turns, EndTurn(t)
  PROVE  OwnersStay /\ (Stays \/ \E id \in Cards : Lapses(id))
<1>1. ASSUME NEW k \in Cards, turn[t].card # k PROVE Phase(k)' = Phase(k)
  <2>1. \A u \in Turns : turn'[u].card = k <=> turn[u].card = k
    BY <1>1, ApprovalsAssumption DEF IInv, TypeOK, Turn, EndTurn, NewTurn
  <2>2. \A u \in Turns : turn[u].card = k => turn'[u] = turn[u]
    BY <1>1 DEF IInv, TypeOK, EndTurn
  <2>. QED  BY <2>1, <2>2, PhaseKept DEF EndTurn
<1>2. OwnersStay
  BY DEF EndTurn, OwnersStay
<1>3. CASE turn[t].card = None
  BY <1>1, <1>2, <1>3, ApprovalsAssumption DEF Stays
<1>4. ASSUME NEW id \in Cards, turn[t].card = id PROVE Stays \/ Lapses(id)
  <2>1. Phase(id) = HeldPhase(t)
    BY <1>4, PhaseHeld
  <2>2. \A u \in Turns : turn'[u].card # id
    BY <1>4, ApprovalsAssumption DEF IInv, TypeOK, CardsApart, EndTurn, NewTurn
  <2>3. id \notin performed' /\ registry'[id].state # "unused"
    BY <1>4, ApprovalsAssumption DEF IInv, TurnOK, CardOK, Waiting, EndTurn
  <2>4. Phase(id)' = "refused"
    BY <2>2, <2>3 DEF Phase
  <2>5. HeldPhase(t) \in {"asked", "granted", "refused"}
    BY DEF HeldPhase
  <2>. QED  BY <1>1, <1>4, <2>1, <2>4, <2>5 DEF Stays, Lapses, Moves
<1>. QED  BY <1>2, <1>3, <1>4 DEF IInv, TypeOK, Turn

\* Steps of a turn that has no card, or that its card does not show.
LEMMA QuietRefines ==
  ASSUME IInv, IInv', NEW t \in Turns, UNCHANGED <<registry, performed>>,
         \A u \in Turns : u # t => turn'[u] = turn[u],
         turn'[t].card = turn[t].card,
         turn[t].card # None => HeldPhase(t)' = HeldPhase(t)
  PROVE  OwnersStay /\ Stays
<1>1. ASSUME NEW k \in Cards, turn[t].card # k PROVE Phase(k)' = Phase(k)
  BY <1>1, PhaseKept
<1>2. ASSUME NEW k \in Cards, turn[t].card = k PROVE Phase(k)' = Phase(k)
  <2>1. Phase(k) = HeldPhase(t)
    BY <1>2, PhaseHeld
  <2>2. (turn[t].card = k)'
    BY <1>2
  <2>3. Phase(k)' = HeldPhase(t)'
    <3>1. k # None
      BY ApprovalsAssumption
    <3>2. {u \in Turns : turn'[u].card = k} = {t}
      BY <2>2, <3>1 DEF IInv, CardsApart
    <3>3. k \notin performed' /\ registry'[k].state # "unused"
      BY <2>2, <3>1 DEF IInv, TurnOK, CardOK, Waiting
    <3>. QED  BY <2>2, <3>2, <3>3 DEF Phase, HeldPhase, At
  <2>. QED  BY <1>2, <2>1, <2>3, ApprovalsAssumption
<1>. QED  BY <1>1, <1>2 DEF Stays, OwnersStay

LEMMA AskRefines ==
  ASSUME IInv, IInv', NEW t \in Turns, NEW id \in Cards, Ask(t, id)
  PROVE  Abstract!Ask(id, turn[t].who)
<1>1. ASSUME NEW k \in Cards, k # id PROVE Phase(k)' = Phase(k) /\ registry'[k] = registry[k]
  <2>1. \A u \in Turns : turn'[u].card = k <=> turn[u].card = k
    BY <1>1, ApprovalsAssumption DEF IInv, TypeOK, Turn, TurnOK, Waiting, Ask, At
  <2>2. \A u \in Turns : turn[u].card = k => turn'[u] = turn[u]
    BY ApprovalsAssumption DEF IInv, TypeOK, Turn, TurnOK, Waiting, Ask, At
  <2>3. registry'[k] = registry[k]
    BY <1>1 DEF IInv, TypeOK, Ask
  <2>. QED  BY <2>1, <2>2, <2>3, PhaseKept DEF Ask
<1>2. /\ registry[id].state = "unused" /\ registry[id].answer = "none"
      /\ registry'[id].answer = "none" /\ registry'[id].owner = turn[t].who
  BY DEF IInv, TypeOK, Card, CardOK, Ask
<1>3. Phase(id) = "unasked"
  <2>1. \A u \in Turns : turn[u].card # id
    BY <1>2, ApprovalsAssumption DEF IInv, TypeOK, Turn, TurnOK, Waiting
  <2>2. id \notin performed
    BY <1>2 DEF IInv, CardOK
  <2>. QED  BY <1>2, <2>1, <2>2, PhaseFree
<1>4. Phase(id)' = "asked"
  <2>1. turn'[t].card = id /\ turn'[t].step = "notify"
    BY DEF IInv, TypeOK, Turn, Ask
  <2>2. id \notin performed' /\ registry'[id].state # "unused"
    BY <1>2 DEF IInv, TypeOK, Card, CardOK, Ask
  <2>. QED  BY <1>2, <2>1, <2>2 DEF Phase, At
<1>. QED  BY <1>1, <1>2, <1>3, <1>4 DEF Abstract!Ask

LEMMA TimeOutRefines ==
  ASSUME IInv, IInv', NEW t \in Turns, TimeOut(t)
  PROVE  OwnersStay /\ \E id \in Cards : Lapses(id)
<1>1. turn[t].card \in Cards
  BY ApprovalsAssumption DEF IInv, TypeOK, Turn, TurnOK, Waiting, TimeOut, At
<1>2. PICK id \in Cards : id = turn[t].card
  BY <1>1
<1>3. Phase(id) = "asked"
  BY <1>2, PhaseHeld DEF HeldPhase, TimeOut, At
<1>4. Phase(id)' = "refused"
  <2>1. turn'[t].card = id /\ turn'[t].step = "lapsed"
    BY <1>2 DEF IInv, TypeOK, Turn, TimeOut
  <2>2. id # None
    BY ApprovalsAssumption
  <2>3. {u \in Turns : turn'[u].card = id} = {t}
    BY <2>1, <2>2 DEF IInv, CardsApart
  <2>4. id \notin performed' /\ registry'[id].state # "unused"
    BY <2>1, <2>2 DEF IInv, TurnOK, CardOK, Waiting
  <2>. QED  BY <2>1, <2>3, <2>4 DEF Phase, At
<1>5. ASSUME NEW k \in Cards, k # id PROVE Phase(k)' = Phase(k)
  <2>1. \A u \in Turns : turn'[u].card = k <=> turn[u].card = k
    BY <1>2, <1>5 DEF IInv, TypeOK, Turn, TimeOut
  <2>2. \A u \in Turns : turn[u].card = k => turn'[u] = turn[u]
    BY <1>2, <1>5 DEF IInv, TypeOK, TimeOut
  <2>. QED  BY <2>1, <2>2, PhaseKept DEF TimeOut
<1>. QED  BY <1>3, <1>4, <1>5 DEF Lapses, Moves, OwnersStay, TimeOut

LEMMA WithdrawRefines ==
  ASSUME IInv, IInv', NEW t \in Turns, Withdraw(t)
  PROVE  OwnersStay /\ Stays
<1>1. turn[t].card \in Cards
  BY ApprovalsAssumption DEF IInv, TypeOK, Turn, TurnOK, Waiting, Withdraw
<1>2. PICK id \in Cards : id = turn[t].card
  BY <1>1
<1>3. registry'[id].owner = registry[id].owner /\ \A k \in Cards : k # id => registry'[k] = registry[k]
  BY <1>2 DEF IInv, TypeOK, Card, Withdraw
<1>4. ASSUME NEW k \in Cards, k # id PROVE Phase(k)' = Phase(k)
  <2>1. \A u \in Turns : turn'[u].card = k <=> turn[u].card = k
    BY <1>2, <1>4 DEF IInv, TypeOK, Turn, Withdraw
  <2>2. \A u \in Turns : turn[u].card = k => turn'[u] = turn[u]
    BY <1>2, <1>4 DEF IInv, TypeOK, Withdraw
  <2>. QED  BY <1>3, <1>4, <2>1, <2>2, PhaseKept DEF Withdraw
<1>5. Phase(id)' = Phase(id)
  <2>1. /\ turn'[t].card = id /\ turn'[t].step = "decide"
        /\ turn'[t].approved <=> turn[t].step = "woken" /\ registry[id].answer = "yes"
    BY <1>2 DEF IInv, TypeOK, Turn, Withdraw, At
  <2>2. Phase(id) = IF turn[t].step = "woken" /\ registry[id].answer = "yes" THEN "granted" ELSE "refused"
    BY <1>2, PhaseHeld DEF HeldPhase, Withdraw
  <2>3. id # None
    BY ApprovalsAssumption
  <2>4. {u \in Turns : turn'[u].card = id} = {t}
    BY <2>1, <2>3 DEF IInv, CardsApart
  <2>5. id \notin performed' /\ registry'[id].state # "unused"
    BY <2>1, <2>3 DEF IInv, TurnOK, CardOK
  <2>. QED  BY <2>1, <2>2, <2>4, <2>5 DEF Phase, At
<1>. QED  BY <1>3, <1>4, <1>5 DEF Stays, OwnersStay

LEMMA ActRefines ==
  ASSUME IInv, IInv', NEW t \in Turns, Act(t)
  PROVE  OwnersStay /\ (Stays \/ \E id \in Cards : Abstract!Perform(id))
<1>1. OwnersStay
  BY DEF OwnersStay, Act
<1>2. ASSUME NEW k \in Cards, k # turn[t].card PROVE Phase(k)' = Phase(k)
  <2>1. \A u \in Turns : turn'[u].card = k <=> turn[u].card = k
    BY <1>2, ApprovalsAssumption DEF IInv, TypeOK, Turn, Act
  <2>2. \A u \in Turns : turn[u].card = k => turn'[u] = turn[u]
    BY <1>2 DEF IInv, TypeOK, Act
  <2>3. k \in performed' <=> k \in performed
    BY <1>2, ApprovalsAssumption DEF Act
  <2>. QED  BY <2>1, <2>2, <2>3, PhaseKept DEF Act
<1>3. CASE turn[t].card = None
  BY <1>1, <1>2, <1>3, ApprovalsAssumption DEF Stays
<1>4. ASSUME NEW id \in Cards, turn[t].card = id PROVE Abstract!Perform(id)
  <2>1. Phase(id) = "granted"
    BY <1>4, PhaseHeld DEF HeldPhase, Act, At
  <2>2. Phase(id)' = "performed"
    BY <1>4, ApprovalsAssumption DEF Phase, Act
  <2>. QED  BY <1>1, <1>2, <1>4, <2>1, <2>2 DEF Abstract!Perform, OwnersStay
<1>. QED  BY <1>1, <1>3, <1>4 DEF IInv, TypeOK, Turn

LEMMA DecideRefines ==
  ASSUME IInv, IInv', NEW t \in Turns, Decide(t)
  PROVE  OwnersStay /\ Stays
<1>1. OwnersStay
  BY DEF OwnersStay, Decide
<1>2. ASSUME NEW k \in Cards, k # turn[t].card PROVE Phase(k)' = Phase(k)
  <2>1. \A u \in Turns : turn'[u].card = k <=> turn[u].card = k
    BY <1>2, ApprovalsAssumption DEF IInv, TypeOK, Turn, Decide
  <2>2. \A u \in Turns : turn[u].card = k => turn'[u] = turn[u]
    BY <1>2 DEF IInv, TypeOK, Decide
  <2>. QED  BY <2>1, <2>2, PhaseKept DEF Decide
<1>3. ASSUME NEW id \in Cards, turn[t].card = id PROVE Phase(id)' = Phase(id)
  <2>1. Phase(id) = IF turn[t].approved THEN "granted" ELSE "refused"
    BY <1>3, PhaseHeld DEF HeldPhase, Decide, At
  <2>2. id # None /\ id \notin performed' /\ registry'[id].state # "unused"
    BY <1>3, ApprovalsAssumption DEF IInv, TurnOK, CardOK, Decide, At
  <2>3. CASE turn[t].approved
    <3>1. turn'[t].card = id /\ turn'[t].step = "acting"
      BY <1>3, <2>3 DEF IInv, TypeOK, Turn, Decide
    <3>2. {u \in Turns : turn'[u].card = id} = {t}
      BY <3>1, <2>2 DEF IInv, CardsApart
    <3>. QED  BY <2>1, <2>2, <2>3, <3>1, <3>2 DEF Phase, At
  <2>4. CASE ~turn[t].approved
    <3>1. \A u \in Turns : turn'[u].card # id
      BY <1>3, <2>2, <2>4 DEF IInv, TypeOK, Turn, CardsApart, Decide
    <3>. QED  BY <2>1, <2>2, <2>4, <3>1 DEF Phase
  <2>. QED  BY <2>3, <2>4
<1>. QED  BY <1>1, <1>2, <1>3 DEF Stays

\* An answer moves a card that is still asked; to one whose turn has given up it says nothing.
LEMMA ResolveRefines ==
  ASSUME IInv, IInv', NEW viewer \in Viewers, NEW id \in Cards, NEW verdict \in {"yes", "no"},
         Resolve(viewer, id, verdict)
  PROVE  OwnersStay /\ (Stays \/ \E v \in {"granted", "refused"} : Abstract!Answer(id, viewer, v))
<1>1. /\ registry[id].state = "pending" /\ registry[id].answer = "none"
      /\ registry'[id].answer = verdict /\ registry'[id].state = "pending"
      /\ registry[id].owner # None => viewer = registry[id].owner
  BY DEF IInv, TypeOK, Card, Resolve, Sees
<1>2. OwnersStay
  BY DEF IInv, TypeOK, Card, OwnersStay, Resolve
<1>3. ASSUME NEW k \in Cards, k # id PROVE Phase(k)' = Phase(k)
  <2>1. registry'[k] = registry[k]
    BY <1>3 DEF IInv, TypeOK, Resolve
  <2>. QED  BY <2>1, PhaseKept DEF Resolve
<1>4. id \notin performed /\ id # None
  BY <1>1, ApprovalsAssumption DEF IInv, CardOK
<1>5. CASE \A t \in Turns : turn[t].card # id
  <2>1. Phase(id)' = Phase(id)
    BY <1>1, <1>4, <1>5 DEF Phase, Resolve
  <2>. QED  BY <1>2, <1>3, <2>1 DEF Stays
<1>6. ASSUME NEW t \in Turns, turn[t].card = id
      PROVE  Stays \/ \E v \in {"granted", "refused"} : Abstract!Answer(id, viewer, v)
  <2>1. turn[t].step \in {"notify", "wait", "lapsed"}
    BY <1>1, <1>4, <1>6 DEF IInv, TurnOK, Waiting
  <2>2. {u \in Turns : turn[u].card = id} = {t}
    BY <1>4, <1>6 DEF IInv, CardsApart
  <2>3. Phase(id) = IF turn[t].step = "lapsed" THEN "refused" ELSE "asked"
    BY <1>1, <1>6, <2>1, PhaseHeld DEF HeldPhase
  <2>4. Phase(id)' = IF turn[t].step # "lapsed" /\ verdict = "yes" THEN "granted" ELSE "refused"
    BY <1>1, <1>4, <2>1, <2>2 DEF Phase, At, Resolve
  <2>5. CASE turn[t].step = "lapsed"
    BY <1>3, <2>3, <2>4, <2>5 DEF Stays
  <2>6. CASE turn[t].step # "lapsed"
    <3> DEFINE v == IF verdict = "yes" THEN "granted" ELSE "refused"
    <3>1. Phase(id) = "asked" /\ Phase(id)' = v
      BY <2>3, <2>4, <2>6
    <3>2. [k \in Cards |-> Phase(k)]' = [[k \in Cards |-> Phase(k)] EXCEPT ![id] = v]
      BY <1>3, <3>1
    <3>3. Abstract!Answer(id, viewer, v)
      BY <1>1, <1>2, <3>1, <3>2 DEF Abstract!Answer, OwnersStay
    <3>. QED  BY <3>3
  <2>. QED  BY <2>5, <2>6
<1>. QED  BY <1>2, <1>5, <1>6

LEMMA NextRefines ==
  ASSUME IInv, IInv', [Next]_vars
  PROVE  [Abstract!Next]_(Abstract!consentVars)
<1>1. ASSUME Stays, OwnersStay PROVE UNCHANGED Abstract!consentVars
  BY <1>1, StaysIsAStutter
<1>2. ASSUME NEW id \in Cards, Lapses(id), OwnersStay PROVE Abstract!Next
  BY <1>2, LapsesIsALapse DEF Abstract!Next
<1>3. ASSUME NEW t \in Turns, EndTurn(t) PROVE [Abstract!Next]_(Abstract!consentVars)
  BY <1>1, <1>2, <1>3, EndTurnRefines
<1>4. ASSUME NEW t \in Turns,
             \/ TakeLock(t) \/ AskNobody(t) \/ Wake(t)
             \/ \E l \in Turns : Notify(t, l)
             \/ \E who \in Viewers, streaming \in BOOLEAN : Start(t, who, streaming)
             \/ Disconnect(t) \/ Stop(t)
             \/ \E risk \in Risks : Require(t, risk)
      PROVE  OwnersStay /\ Stays
  <2>1. UNCHANGED <<registry, performed>>
    BY <1>4 DEF TakeLock, AskNobody, Wake, Notify, Start, Disconnect, Stop, Require
  <2>2. \A u \in Turns : u # t => turn'[u] = turn[u]
    BY <1>4 DEF IInv, TypeOK, TakeLock, AskNobody, Wake, Notify, Start, Disconnect, Stop, Require
  <2>3. turn'[t].card = turn[t].card
    <3>1. CASE TakeLock(t) \/ AskNobody(t) \/ Wake(t)
      BY <3>1 DEF IInv, TypeOK, Turn, TakeLock, AskNobody, Wake
    <3>2. ASSUME NEW l \in Turns, Notify(t, l) PROVE turn'[t].card = turn[t].card
      <4> DEFINE step == IF turn[t].left = {l} THEN "wait" ELSE "notify"
      <4>1. turn'[t] = [turn[t] EXCEPT !.left = turn[t].left \ {l}, !.step = step]
        BY <3>2 DEF IInv, TypeOK, Notify
      <4> HIDE DEF step
      <4>. QED  BY <4>1 DEF IInv, TypeOK, Turn
    <3>3. ASSUME NEW who \in Viewers, NEW streaming \in BOOLEAN, Start(t, who, streaming)
          PROVE  turn'[t].card = turn[t].card
      BY <3>3 DEF IInv, TypeOK, Turn, Start
    <3>4. CASE Disconnect(t) \/ Stop(t)
      BY <3>4 DEF Disconnect, Stop
    <3>5. ASSUME NEW risk \in Risks, Require(t, risk) PROVE turn'[t].card = turn[t].card
      BY <3>5 DEF IInv, TypeOK, Turn, Require
    <3>. QED  BY <1>4, <3>1, <3>2, <3>3, <3>4, <3>5
  <2>4. turn[t].card # None => HeldPhase(t)' = HeldPhase(t)
    <3>1. CASE TakeLock(t) \/ AskNobody(t) \/ (\E risk \in Risks : Require(t, risk))
               \/ \E who \in Viewers, streaming \in BOOLEAN : Start(t, who, streaming)
      BY <3>1 DEF IInv, TurnOK, Waiting, TakeLock, AskNobody, Require, Start, At
    <3>2. CASE Disconnect(t) \/ Stop(t)
      BY <3>2 DEF HeldPhase, Disconnect, Stop
    <3>3. CASE Wake(t)
      BY <3>3, <2>3 DEF IInv, TypeOK, Turn, HeldPhase, Wake, At
    <3>4. CASE \E l \in Turns : Notify(t, l)
      <4>0. PICK l \in Turns : Notify(t, l)
        BY <3>4
      <4> DEFINE step == IF turn[t].left = {l} THEN "wait" ELSE "notify"
      <4>2. turn'[t] = [turn[t] EXCEPT !.left = turn[t].left \ {l}, !.step = step]
        BY <4>0 DEF IInv, TypeOK, Notify
      <4>3. step \in {"notify", "wait"}
        OBVIOUS
      <4> HIDE DEF step
      <4>4. turn'[t].step = step
        BY <4>2 DEF IInv, TypeOK, Turn
      <4>1. turn[t].step = "notify" /\ turn'[t].step \in {"notify", "wait"}
        BY <4>0, <4>3, <4>4 DEF Notify, At
      <4>. QED  BY <2>1, <2>3, <4>1 DEF HeldPhase
    <3>. QED  BY <1>4, <3>1, <3>2, <3>3, <3>4
  <2>. QED  BY <2>1, <2>2, <2>3, <2>4, QuietRefines
<1>5. ASSUME NEW t \in Turns, Proceed(t) PROVE [Abstract!Next]_(Abstract!consentVars)
  <2>1. CASE NoticeStop(t) \/ \E l \in Turns : NotifyFails(t, l)
    BY <2>1, <1>3 DEF NoticeStop, NotifyFails
  <2>2. CASE TakeLock(t) \/ AskNobody(t) \/ Wake(t) \/ \E l \in Turns : Notify(t, l)
    BY <2>2, <1>1, <1>4
  <2>3. ASSUME NEW id \in Cards, Ask(t, id) PROVE Abstract!Next
    <3>1. turn[t].who \in Viewers
      BY DEF IInv, TypeOK, Turn
    <3>2. Abstract!Ask(id, turn[t].who)
      BY <2>3, AskRefines
    <3>3. PICK who \in Viewers : who = turn[t].who
      BY <3>1
    <3>4. Abstract!Ask(id, who)
      BY <3>2, <3>3 DEF Abstract!Ask
    <3>. QED  BY <3>4 DEF Abstract!Next
  <2>4. CASE TimeOut(t)
    BY <2>4, <1>2, TimeOutRefines
  <2>5. CASE Withdraw(t) \/ Decide(t)
    BY <2>5, <1>1, WithdrawRefines, DecideRefines
  <2>6. CASE Act(t)
    BY <2>6, <1>1, ActRefines DEF Abstract!Next
  <2>. QED  BY <1>5, <2>1, <2>2, <2>3, <2>4, <2>5, <2>6 DEF Proceed
<1>6. CASE Outside
  <2>1. ASSUME NEW t \in Turns, Finish(t) \/ HangUp(t) PROVE [Abstract!Next]_(Abstract!consentVars)
    BY <2>1, <1>3 DEF Finish, HangUp
  <2>2. ASSUME NEW viewer \in Viewers, NEW id \in Cards, NEW verdict \in {"yes", "no"},
               Resolve(viewer, id, verdict)
        PROVE  [Abstract!Next]_(Abstract!consentVars)
    BY <2>2, <1>1, ResolveRefines DEF Abstract!Next
  <2>. QED  BY <1>6, <1>1, <1>4, <2>1, <2>2 DEF Outside
<1>7. CASE UNCHANGED vars
  BY <1>7, <1>1, PhaseKept DEF vars, Stays, OwnersStay
<1>. QED  BY <1>5, <1>6, <1>7 DEF Next, Rest

\* The gate, the broker, the streams and Stop do what Consent says, and nothing else, to any card.
THEOREM ConsentIsImplemented == Spec => ImplementsConsent
<1>1. Init => Abstract!Init
  <2> SUFFICES ASSUME Init PROVE Abstract!Init
    OBVIOUS
  <2>1. \A t \in Turns : turn[t].card = None
    BY DEF Init, NewTurn
  <2>2. ASSUME NEW id \in Cards PROVE Phase(id) = "unasked" /\ registry[id].owner = None
    BY <2>1, PhaseFree, ApprovalsAssumption DEF Init
  <2>. QED  BY <2>2 DEF Abstract!Init
<1>2. IInv /\ IInv' /\ [Next]_vars => [Abstract!Next]_(Abstract!consentVars)
  BY NextRefines
<1>. QED  BY <1>1, <1>2, Invariant, PTL DEF Spec, ImplementsConsent, Abstract!Spec

-----------------------------------------------------------------------------
\* Numbers.  Each of a set of numbers is found from the least that is not
\* in it: the library's well-founded induction, of sets.

LEMMA LeastOf ==
  ASSUME NEW T, T \subseteq Nat, T # {}
  PROVE  \E x \in T : \A y \in T : x <= y
<1>. DEFINE R == OpToRel(<, Nat)
<1>1. IsWellFoundedOn(R, Nat)
  BY NatLessThanWellFounded, Zenon
<1>2. ASSUME NEW x \in Nat, NEW y \in Nat, y < x PROVE <<y, x>> \in R
  BY <1>2, Zenon DEF OpToRel
<1>. HIDE DEF R
<1>3. PICK x \in T : \A y \in T : ~(<<y, x>> \in R)
  BY <1>1, WFMin
<1>4. ASSUME NEW y \in T PROVE x <= y
  <2>1. ~(y < x)
    BY <1>2, <1>3, Zenon
  <2>. QED  BY <2>1
<1>. QED  BY <1>4

LEMMA CountedUp ==
  ASSUME NEW T, 0 \in T, \A n \in Nat : n \in T => n + 1 \in T
  PROVE  Nat \subseteq T
<1>1. SUFFICES ASSUME Nat \ T # {} PROVE FALSE
  OBVIOUS
<1>2. PICK x \in Nat \ T : \A y \in Nat \ T : x <= y
  BY <1>1, LeastOf
<1>3. x # 0 /\ x - 1 \in Nat /\ x - 1 \in T
  BY <1>2
<1>. QED  BY <1>2, <1>3


\* A set of numbers has a greatest one below its bound.
LEMMA GreatestOf ==
  ASSUME NEW n \in Nat, NEW S, S \subseteq 0..n, S # {}
  PROVE  Max(S) \in S /\ \A x \in S : x <= Max(S)
<1>. DEFINE T == {n - x : x \in S}
<1>1. T \subseteq Nat /\ T # {}
  <2>1. \A x \in S : n - x \in Nat
    OBVIOUS
  <2>. QED  BY <2>1
<1>2. PICK t \in T : \A u \in T : t <= u
  BY <1>1, LeastOf
<1>3. PICK x \in S : t = n - x
  BY <1>2
<1>4. \A y \in S : x >= y
  <2>. SUFFICES ASSUME NEW y \in S PROVE x >= y
    OBVIOUS
  <2>1. n - x <= n - y
    BY <1>2, <1>3
  <2>. QED  BY <2>1
<1>5. Max(S) = CHOOSE z \in S : \A y \in S : z >= y
  BY Zenon DEF Max
<1>6. Max(S) \in S /\ \A y \in S : Max(S) >= y
  BY <1>3, <1>4, <1>5
<1>. QED  BY <1>6

LEMMA LeastIs ==
  ASSUME NEW S, S \subseteq Nat, S # {}
  PROVE  Min(S) \in S /\ \A x \in S : Min(S) <= x
<1>1. PICK x \in S : \A y \in S : x <= y
  BY LeastOf
<1>2. Min(S) = CHOOSE z \in S : \A y \in S : z <= y
  BY Zenon DEF Min
<1>. QED  BY <1>1, <1>2




-----------------------------------------------------------------------------
\* Context

LEMMA LesserOf ==
  ASSUME NEW a \in Int, NEW b \in Int
  PROVE  /\ Min({a, b}) \in Int /\ Min({a, b}) <= a /\ Min({a, b}) <= b
         /\ Min({a, b}) = a \/ Min({a, b}) = b
<1>1. Min({a, b}) = CHOOSE x \in {a, b} : \A y \in {a, b} : x <= y
  BY Zenon DEF Min
<1>2. \E x \in {a, b} : \A y \in {a, b} : x <= y
  <2>1. CASE a <= b
    BY <2>1
  <2>2. CASE b <= a
    BY <2>2
  <2>. QED  BY <2>1, <2>2
<1>. QED  BY <1>1, <1>2

\* The sums of the first sizes.
SumsUpTo(f, sizes, n) ==
  /\ f \in [0..n -> Nat] /\ f[0] = 0
  /\ \A k \in 1..n : f[k] = f[k - 1] + sizes[k]

LEMMA TotalIs ==
  ASSUME NEW n \in Nat, NEW sizes, \A k \in 1..n : sizes[k] \in Nat
  PROVE  \E f : SumsUpTo(f, sizes, n) /\ Total(sizes, n) = f[n]
<1>. DEFINE R(f) == [k \in 0..n |-> IF k = 0 THEN 0 ELSE f[k - 1] + sizes[k]]
            T == {m \in Nat : m <= n => \E g : SumsUpTo(g, sizes, m)}
<1>1. 0 \in T
  <2>1. [k \in 0..0 |-> 0] \in [0..0 -> Nat]
    OBVIOUS
  <2>2. SumsUpTo([k \in 0..0 |-> 0], sizes, 0)
    BY <2>1 DEF SumsUpTo
  <2>. QED  BY <2>2
<1>2. ASSUME NEW m \in Nat, m \in T PROVE m + 1 \in T
  <2>. SUFFICES ASSUME m + 1 <= n PROVE \E g : SumsUpTo(g, sizes, m + 1)
    OBVIOUS
  <2>1. PICK g : SumsUpTo(g, sizes, m)
    BY <1>2
  <2>. DEFINE h == [k \in 0..(m + 1) |-> IF k = m + 1 THEN g[m] + sizes[m + 1] ELSE g[k]]
  <2>2. g \in [0..m -> Nat] /\ g[0] = 0 /\ \A k \in 1..m : g[k] = g[k - 1] + sizes[k]
    BY <2>1 DEF SumsUpTo
  <2>3. g[m] + sizes[m + 1] \in Nat
    <3>1. g[m] \in Nat /\ sizes[m + 1] \in Nat
      BY <2>2
    <3>. QED  BY <3>1
  <2>4. h \in [0..(m + 1) -> Nat]
    BY <2>2, <2>3
  <2>5. h[m + 1] = g[m] + sizes[m + 1] /\ \A k \in 0..m : h[k] = g[k]
    OBVIOUS
  <2>. HIDE DEF h
  <2>6. h[0] = 0
    BY <2>2, <2>5
  <2>7. ASSUME NEW k \in 1..(m + 1) PROVE h[k] = h[k - 1] + sizes[k]
    <3>1. CASE k = m + 1
      <4>1. k - 1 = m /\ h[m] = g[m]
        BY <2>5, <3>1
      <4>. QED  BY <2>5, <3>1, <4>1
    <3>2. CASE k # m + 1
      <4>1. k \in 1..m /\ h[k] = g[k] /\ h[k - 1] = g[k - 1]
        BY <2>5, <3>2
      <4>. QED  BY <2>2, <4>1
    <3>. QED  BY <3>1, <3>2
  <2>. QED  BY <2>4, <2>6, <2>7 DEF SumsUpTo
<1>3. PICK g : SumsUpTo(g, sizes, n)
  <2>1. Nat \subseteq T
    <3>. HIDE DEF T
    <3>. QED  BY <1>1, <1>2, CountedUp
  <2>2. n \in T /\ n <= n
    <3>. HIDE DEF T
    <3>. QED  BY <2>1
  <2>. QED  BY <2>2, Zenon
<1>4. g \in [0..n -> Nat] /\ g[0] = 0 /\ \A k \in 1..n : g[k] = g[k - 1] + sizes[k]
  BY <1>3 DEF SumsUpTo
<1>5. g = R(g)
  BY <1>4
<1>. DEFINE f == CHOOSE k : k = R(k)
<1>6. f = R(f)
  BY <1>5, Zenon
<1>7. Total(sizes, n) = f[n]
  BY Zenon DEF Total
<1>. HIDE DEF f
<1>8. f[0] = 0 /\ \A k \in 1..n : f[k] = f[k - 1] + sizes[k]
  BY <1>6
<1>9. f = g
  <2>. DEFINE U == {m \in Nat : m <= n => f[m] = g[m]}
  <2>1. 0 \in U
    BY <1>4, <1>8
  <2>2. ASSUME NEW m \in Nat, m \in U PROVE m + 1 \in U
    <3>. SUFFICES ASSUME m + 1 <= n PROVE f[m + 1] = g[m + 1]
      OBVIOUS
    <3>1. m + 1 \in 1..n /\ (m + 1) - 1 = m /\ f[m] = g[m]
      BY <2>2
    <3>. QED  BY <1>4, <1>8, <3>1
  <2>3. Nat \subseteq U
    <3>. HIDE DEF U
    <3>. QED  BY <2>1, <2>2, CountedUp
  <2>4. f = [k \in 0..n |-> f[k]]
    BY <1>6
  <2>5. \A k \in 0..n : f[k] = g[k]
    BY <2>3
  <2>. QED  BY <1>4, <2>4, <2>5
<1>. QED  BY <1>3, <1>7, <1>9

\* A sum of sizes is one, no less than each, and nothing of nothing.
LEMMA TotalHolds ==
  ASSUME NEW n \in Nat, NEW sizes, \A k \in 1..n : sizes[k] \in Nat
  PROVE  /\ Total(sizes, n) \in Nat
         /\ \A k \in 1..n : sizes[k] <= Total(sizes, n)
         /\ (\A k \in 1..n : sizes[k] = 0) => Total(sizes, n) = 0
<1>1. PICK f : SumsUpTo(f, sizes, n) /\ Total(sizes, n) = f[n]
  BY TotalIs
<1>2. f \in [0..n -> Nat] /\ f[0] = 0 /\ \A k \in 1..n : f[k] = f[k - 1] + sizes[k]
  BY <1>1 DEF SumsUpTo
<1>. DEFINE T == {m \in Nat : m <= n => /\ \A k \in 1..m : sizes[k] <= f[m]
                                        /\ (\A k \in 1..n : sizes[k] = 0) => f[m] = 0}
<1>3. 0 \in T
  BY <1>2
<1>4. ASSUME NEW m \in Nat, m \in T PROVE m + 1 \in T
  <2>. SUFFICES ASSUME m + 1 <= n
                PROVE  /\ \A k \in 1..(m + 1) : sizes[k] <= f[m + 1]
                       /\ (\A k \in 1..n : sizes[k] = 0) => f[m + 1] = 0
    OBVIOUS
  <2>1. f[m + 1] = f[m] + sizes[m + 1] /\ f[m] \in Nat /\ sizes[m + 1] \in Nat
    BY <1>2
  <2>2. \A k \in 1..m : sizes[k] \in Nat /\ sizes[k] <= f[m]
    BY <1>4
  <2>3. ASSUME NEW k \in 1..(m + 1) PROVE sizes[k] <= f[m + 1]
    <3>1. CASE k = m + 1
      BY <2>1, <3>1
    <3>2. CASE k # m + 1
      <4>1. sizes[k] \in Nat /\ sizes[k] <= f[m]
        BY <2>2, <3>2
      <4>. QED  BY <2>1, <4>1
    <3>. QED  BY <3>1, <3>2
  <2>4. (\A k \in 1..n : sizes[k] = 0) => f[m + 1] = 0
    <3>. SUFFICES ASSUME \A k \in 1..n : sizes[k] = 0 PROVE f[m + 1] = 0
      OBVIOUS
    <3>1. f[m] = 0 /\ sizes[m + 1] = 0
      BY <1>4
    <3>. QED  BY <2>1, <3>1
  <2>. QED  BY <2>3, <2>4
<1>5. Nat \subseteq T
  <2>. HIDE DEF T
  <2>. QED  BY <1>3, <1>4, CountedUp
<1>. QED  BY <1>1, <1>2, <1>5

LEMMA SizeIs ==
  ASSUME NEW one \in Shapes
  PROVE  Len(one.pieces) \in Nat /\ Size(one) \in Nat /\ \A k \in 1..Len(one.pieces) : one.pieces[k] \in Nat
<1>1. one.pieces \in Seq(Nat \ {0})
  BY ContextAssumption
<1>2. Len(one.pieces) \in Nat /\ \A k \in 1..Len(one.pieces) : one.pieces[k] \in Nat \ {0}
  BY <1>1
<1>3. \A k \in 1..Len(one.pieces) : one.pieces[k] \in Nat
  BY <1>2
<1>. QED  BY <1>2, <1>3, TotalHolds DEF Size

\* The newest of a sequence are of what it is of.
LEMMA NewestIs ==
  ASSUME NEW D, NEW q \in Seq(D), NEW n \in Nat
  PROVE  Newest(q, n) \in Seq(D) /\ Len(Newest(q, n)) <= n
<1>. DEFINE k == IF Len(q) > n THEN Len(q) - n ELSE 0
<1>1. Len(q) \in Nat /\ k \in Nat /\ Len(q) - k <= n
  OBVIOUS
<1>2. Newest(q, n) = SubSeq(q, k + 1, Len(q))
  BY DEF Newest
<1>. HIDE DEF k
<1>3. \A i \in (k + 1)..Len(q) : q[i] \in D
  BY <1>1
<1>4. SubSeq(q, k + 1, Len(q)) \in Seq(D) /\ (Len(SubSeq(q, k + 1, Len(q))) = Len(q) - k \/ Len(SubSeq(q, k + 1, Len(q))) = 0)
  BY <1>1, <1>3
<1>. QED  BY <1>1, <1>2, <1>4

LEMMA PutIs ==
  ASSUME NEW D, NEW q \in Seq(D), NEW entry \in D, NEW size \in Nat
  PROVE  Put(q, entry, size) \in Seq(D) /\ Len(Put(q, entry, size)) <= size
<1>. DEFINE same == {i \in DOMAIN q : q[i].of = entry.of}
            others == IF same = {} THEN q ELSE RemoveAt(q, CHOOSE i \in same : TRUE)
<1>1. others \in Seq(D)
  <2>1. CASE same = {}
    BY <2>1
  <2>2. CASE same # {}
    <3>. DEFINE i == CHOOSE i \in same : TRUE
    <3>1. i \in 1..Len(q)
      BY <2>2
    <3>2. others = SubSeq(q, 1, i - 1) \o SubSeq(q, i + 1, Len(q))
      BY <2>2 DEF RemoveAt
    <3>. HIDE DEF i, others
    <3>3. /\ \A k \in 1..(i - 1) : q[k] \in D
          /\ \A k \in (i + 1)..Len(q) : q[k] \in D
      BY <3>1
    <3>4. SubSeq(q, 1, i - 1) \in Seq(D) /\ SubSeq(q, i + 1, Len(q)) \in Seq(D)
      BY <3>1, <3>3
    <3>. QED  BY <3>2, <3>4
  <2>. QED  BY <2>1, <2>2
<1>2. Put(q, entry, size) = Newest(Append(others, entry), size)
  BY DEF Put
<1>. HIDE DEF others
<1>3. Append(others, entry) \in Seq(D)
  BY <1>1
<1>. QED  BY <1>2, <1>3, NewestIs

Identity(n) == [i \in 1..n |-> i]

\* A summary tells of the turns of its part, in order.
Summary == {s \in [of : Parts, made : TurnSeqs] : s.made = Identity(s.of[2])}
Writer == {w \in [of : Parts, step : {"begun", "asking"}, from : TurnSeqs] : w.step = "asking" => w.from = Identity(w.of[2])}

\* What h tells of these turns is true (ToldWhatWasSaid).
Told(h, turns) ==
  LET older == OlderThan(h.of[2])
      referent == Referent(turns, h.of[3]) IN
    /\ h.older # <<>> => h.older = Identity(older)
    /\ h.part \cap h.found = {}
    /\ referent > older /\ (\E i \in h.whole : Size(turns[i]) >= Size(turns[referent])) => referent \in h.whole

HeldTrue(h, talk) ==
  /\ h.of[1] \in Conversations /\ h.of[2] \in 1..Len(talk[h.of[1]])
  /\ Told(h, SubSeq(talk[h.of[1]], 1, h.of[2]))

AllTrue(S, talk) == \A h \in S : HeldTrue(h, talk)

ContextInv ==
  /\ said \in [Conversations -> Seq(Shapes)] /\ \A c \in Conversations : Len(said[c]) <= MaxTurns
  /\ summaries \in Seq(Summary) /\ Len(summaries) <= SummarySize
  /\ writing \subseteq Writer /\ OneWriterEach
  /\ Len(memo) <= MemoSize /\ \E S : memo \in Seq(S) /\ AllTrue(S, said)
  /\ handed # NoContext => HeldTrue(handed, said)

LEMMA ContextBounds ==
  /\ RecentTurns \in Nat \ {0} /\ SummarySize \in Nat \ {0} /\ MemoSize \in Nat \ {0}
  /\ HeaderSize \in Nat /\ NoteSize \in Nat /\ OmissionSize \in Nat /\ LeastShown \in Nat
  /\ LeastLeft \in Nat /\ MaxTurns \in Nat /\ Budgets \subseteq Nat
BY ContextAssumption

LEMMA ContextStarts == ContextInit => ContextInv
<1>. SUFFICES ASSUME ContextInit PROVE ContextInv
  OBVIOUS
<1>1. said = [c \in Conversations |-> <<>>] /\ summaries = <<>> /\ writing = {} /\ memo = <<>> /\ handed = NoContext
  BY DEF ContextInit
<1>2. memo \in Seq({}) /\ AllTrue({}, said)
  BY <1>1 DEF AllTrue
<1>. QED  BY <1>1, <1>2, ContextBounds DEF ContextInv, OneWriterEach

\* The conversation grows, and what was told of it is as it was.
LEMMA StillTrue ==
  ASSUME ContextInv, NEW c \in Conversations, NEW one \in Shapes,
         NEW h, HeldTrue(h, said), NEW new, new = [said EXCEPT ![c] = Append(@, one)]
  PROVE  HeldTrue(h, new)
<1>. DEFINE d == h.of[1]
            n == h.of[2]
<1>1. d \in Conversations /\ n \in 1..Len(said[d])
  BY DEF HeldTrue
<1>2. said[d] \in Seq(Shapes) /\ said[c] \in Seq(Shapes)
  BY <1>1 DEF ContextInv
<1>3. new[d] = IF d = c THEN Append(said[c], one) ELSE said[d]
  BY <1>1 DEF ContextInv
<1>. HIDE DEF d, n
<1>4. n \in 1..Len(new[d]) /\ SubSeq(new[d], 1, n) = SubSeq(said[d], 1, n)
  <2>1. CASE d = c
    <3>1. Len(new[d]) = Len(said[d]) + 1 /\ \A k \in 1..n : new[d][k] = said[d][k]
      BY <1>1, <1>2, <1>3, <2>1
    <3>2. Len(said[d]) \in Nat /\ n \in Nat
      BY <1>1, <1>2
    <3>3. n \in 1..Len(new[d])
      BY <1>1, <3>1, <3>2
    <3>4. \A k \in 1..n : said[d][k] \in Shapes /\ new[d][k] \in Shapes
      BY <1>1, <1>2, <3>1
    <3>5. /\ SubSeq(said[d], 1, n) \in Seq(Shapes) /\ Len(SubSeq(said[d], 1, n)) = n
          /\ \A k \in 1..n : SubSeq(said[d], 1, n)[k] = said[d][k]
      BY <3>2, <3>4, <1>1
    <3>6. /\ SubSeq(new[d], 1, n) \in Seq(Shapes) /\ Len(SubSeq(new[d], 1, n)) = n
          /\ \A k \in 1..n : SubSeq(new[d], 1, n)[k] = new[d][k]
      BY <3>2, <3>4, <1>1
    <3>7. SubSeq(new[d], 1, n) = SubSeq(said[d], 1, n)
      <4>. DEFINE p == SubSeq(new[d], 1, n)
                  q == SubSeq(said[d], 1, n)
      <4>1. p \in Seq(Shapes) /\ q \in Seq(Shapes) /\ Len(p) = Len(q) /\ \A k \in 1..Len(p) : p[k] = q[k]
        BY <3>1, <3>5, <3>6
      <4>. HIDE DEF p, q
      <4>2. p = q
        BY <4>1, SeqEqual
      <4>. QED  BY <4>2 DEF p, q
    <3>. QED  BY <3>3, <3>7
  <2>2. CASE d # c
    BY <1>1, <1>3, <2>2
  <2>. QED  BY <2>1, <2>2
<1>. QED  BY <1>1, <1>4 DEF HeldTrue, d, n

LEMMA SayMoreKeeps == ASSUME ContextInv, NEW c \in Conversations, SayMore(c) PROVE ContextInv'
<1>1. PICK one \in Shapes : said' = [said EXCEPT ![c] = Append(@, one)]
  BY DEF SayMore
<1>2. Len(said[c]) < MaxTurns /\ UNCHANGED <<summaries, writing, memo, handed>>
  BY DEF SayMore
<1>3. said' \in [Conversations -> Seq(Shapes)]
  BY <1>1 DEF ContextInv
<1>4. \A d \in Conversations : Len(said'[d]) <= MaxTurns
  <2>. SUFFICES ASSUME NEW d \in Conversations PROVE Len(said'[d]) <= MaxTurns
    OBVIOUS
  <2>1. CASE d = c
    <3>1. said'[d] = Append(said[c], one) /\ said[c] \in Seq(Shapes)
      BY <1>1, <2>1 DEF ContextInv
    <3>2. Len(said'[d]) = Len(said[c]) + 1 /\ Len(said[c]) \in Nat
      BY <3>1
    <3>. QED  BY <1>2, <3>2, ContextBounds
  <2>2. CASE d # c
    BY <1>1, <2>2 DEF ContextInv
  <2>. QED  BY <2>1, <2>2
<1>5. \A h : HeldTrue(h, said) => HeldTrue(h, said')
  BY <1>1, StillTrue
<1>6. PICK S : memo \in Seq(S) /\ AllTrue(S, said)
  BY DEF ContextInv
<1>7. AllTrue(S, said')
  BY <1>5, <1>6 DEF AllTrue
<1>8. memo' \in Seq(S)
  BY <1>2, <1>6
<1>9. handed' # NoContext => HeldTrue(handed', said')
  BY <1>2, <1>5 DEF ContextInv
<1>. QED  BY <1>2, <1>3, <1>4, <1>7, <1>8, <1>9 DEF ContextInv, OneWriterEach

\* A summary made of the longest there is of a part, and of the turns after it, tells of all.
LEMMA FoldTellsAll ==
  ASSUME ContextInv, NEW prefix \in Parts
  PROVE  FoldFrom(prefix) = Identity(prefix[2]) /\ FoldFrom(prefix) \in TurnSeqs
<1>. DEFINE n == prefix[2]
            earlier == {k \in 1..(n - 1) : SummaryOf(<<prefix[1], k>>) # {}}
            base == Max(earlier \cup {0})
            previous == IF base = 0 THEN <<>> ELSE CHOOSE made \in SummaryOf(<<prefix[1], base>>) : TRUE
            rest == [i \in 1..(n - base) |-> base + i]
<1>1. FoldFrom(prefix) = previous \o rest
  BY DEF FoldFrom
<1>2. n \in 1..MaxTurns /\ MaxTurns \in Nat
  BY ContextBounds DEF Parts
<1>3. base \in earlier \cup {0} /\ base \in 0..(n - 1)
  <2>1. n - 1 \in Nat /\ earlier \cup {0} \subseteq 0..(n - 1)
    BY <1>2
  <2>. HIDE DEF earlier
  <2>2. base \in earlier \cup {0}
    BY <2>1, GreatestOf
  <2>. QED  BY <2>1, <2>2
<1>4. previous = Identity(base)
  <2>1. CASE base = 0
    <3>. HIDE DEF base
    <3>1. previous = <<>>
      BY <2>1
    <3>2. Identity(0) = <<>>
      BY DEF Identity
    <3>. QED  BY <2>1, <3>1, <3>2
  <2>2. CASE base # 0
    <3>. DEFINE made == CHOOSE made \in SummaryOf(<<prefix[1], base>>) : TRUE
    <3>1. made \in SummaryOf(<<prefix[1], base>>)
      BY <1>3, <2>2
    <3>. HIDE DEF made, base
    <3>2. PICK i \in 1..Len(summaries) : summaries[i].of = <<prefix[1], base>> /\ made = summaries[i].made
      BY <3>1 DEF SummaryOf
    <3>3. summaries[i] \in Summary
      BY DEF ContextInv
    <3>4. made = Identity(base)
      BY <3>2, <3>3 DEF Summary
    <3>. QED  BY <2>2, <3>4 DEF made
  <2>. QED  BY <2>1, <2>2
<1>. HIDE DEF base, earlier, previous
<1>5. Identity(base) \in Seq(Nat) /\ Len(Identity(base)) = base /\ \A i \in 1..base : Identity(base)[i] = i
  BY <1>3 DEF Identity
<1>6. rest \in Seq(Nat) /\ Len(rest) = n - base /\ \A i \in 1..(n - base) : rest[i] = base + i
  <2>. HIDE DEF n
  <2>1. base \in Nat /\ n - base \in Nat
    BY <1>2, <1>3
  <2>2. \A i \in 1..(n - base) : base + i \in Nat
    BY <2>1
  <2>. QED  BY <2>1, <2>2
<1>7. Identity(n) \in Seq(Nat) /\ Len(Identity(n)) = n /\ \A i \in 1..n : Identity(n)[i] = i
  BY <1>2 DEF Identity
<1>. HIDE DEF rest, n
<1>8. /\ Identity(base) \o rest \in Seq(Nat) /\ Len(Identity(base) \o rest) = n
      /\ \A i \in 1..n : (Identity(base) \o rest)[i] = i
  <2>1. base \in Nat /\ n \in Nat /\ base <= n
    BY <1>2, <1>3
  <2>2. /\ Identity(base) \o rest \in Seq(Nat) /\ Len(Identity(base) \o rest) = base + (n - base)
        /\ \A i \in 1..(base + (n - base)) : (Identity(base) \o rest)[i] =
             IF i <= base THEN Identity(base)[i] ELSE rest[i - base]
    <3>1. /\ Identity(base) \o rest \in Seq(Nat) /\ Len(Identity(base) \o rest) = Len(Identity(base)) + Len(rest)
          /\ \A i \in 1..(Len(Identity(base)) + Len(rest)) : (Identity(base) \o rest)[i] =
               IF i <= Len(Identity(base)) THEN Identity(base)[i] ELSE rest[i - Len(Identity(base))]
      BY <1>5, <1>6, ConcatProperties, Zenon
    <3>. QED  BY <1>5, <1>6, <3>1, Zenon
  <2>3. base + (n - base) = n
    BY <2>1
  <2>4. ASSUME NEW i \in 1..n PROVE (Identity(base) \o rest)[i] = i
    <3>1. CASE i <= base
      BY <1>5, <2>1, <2>2, <2>3, <3>1
    <3>2. CASE ~(i <= base)
      <4>1. i - base \in 1..(n - base) /\ base + (i - base) = i
        BY <2>1, <3>2
      <4>2. rest[i - base] = i
        BY <1>6, <4>1
      <4>. QED  BY <2>2, <2>3, <3>2, <4>2
    <3>. QED  BY <3>1, <3>2
  <2>. QED  BY <2>2, <2>3, <2>4
<1>9. FoldFrom(prefix) = Identity(n)
  BY <1>1, <1>4, <1>7, <1>8, SeqEqual
<1>10. Identity(n) \in TurnSeqs
  <2>1. Identity(n) \in [1..n -> 1..MaxTurns] /\ n \in 0..MaxTurns
    BY <1>2 DEF Identity
  <2>. QED  BY <2>1 DEF TurnSeqs
<1>. QED  BY <1>9, <1>10 DEF n

LEMMA ContextKept ==
  ASSUME ContextInv, said' = said, memo' = memo, handed' = handed
  PROVE  /\ said' \in [Conversations -> Seq(Shapes)] /\ \A c \in Conversations : Len(said'[c]) <= MaxTurns
         /\ Len(memo') <= MemoSize /\ \E S : memo' \in Seq(S) /\ AllTrue(S, said')
         /\ handed' # NoContext => HeldTrue(handed', said')
BY DEF ContextInv

LEMMA BeginSummaryKeeps == ASSUME ContextInv, NEW w \in writing, BeginSummary(w) PROVE ContextInv'
<1>. DEFINE v == [w EXCEPT !.step = "asking", !.from = FoldFrom(w.of)]
<1>1. w \in Writer
  BY DEF ContextInv
<1>2. w.of \in Parts /\ FoldFrom(w.of) = Identity(w.of[2]) /\ FoldFrom(w.of) \in TurnSeqs
  BY <1>1, FoldTellsAll DEF Writer
<1>3. v \in Writer /\ v.of = w.of
  BY <1>1, <1>2 DEF Writer
<1>. HIDE DEF v
<1>4. writing' = (writing \ {w}) \cup {v} /\ UNCHANGED <<said, summaries, memo, handed>>
  BY DEF BeginSummary, v
<1>5. writing' \subseteq Writer
  BY <1>3, <1>4 DEF ContextInv
<1>6. OneWriterEach'
  BY <1>3, <1>4 DEF OneWriterEach, ContextInv
<1>7. summaries' \in Seq(Summary) /\ Len(summaries') <= SummarySize
  BY <1>4 DEF ContextInv
<1>. QED  BY <1>4, <1>5, <1>6, <1>7, ContextKept DEF ContextInv

LEMMA EndSummaryKeeps == ASSUME ContextInv, NEW w \in writing, EndSummary(w) PROVE ContextInv'
<1>1. writing' = writing \ {w} /\ UNCHANGED <<said, memo, handed>> /\ w.step = "asking"
  BY DEF EndSummary
<1>2. [of |-> w.of, made |-> w.from] \in Summary
  <2>1. w \in Writer
    BY DEF ContextInv
  <2>. QED  BY <1>1, <2>1 DEF Writer, Summary
<1>3. summaries' = Put(summaries, [of |-> w.of, made |-> w.from], SummarySize) \/ summaries' = summaries
  BY DEF EndSummary
<1>4. summaries' \in Seq(Summary) /\ Len(summaries') <= SummarySize
  <2>. DEFINE s == [of |-> w.of, made |-> w.from]
  <2>. HIDE DEF s
  <2>1. s \in Summary /\ summaries \in Seq(Summary) /\ SummarySize \in Nat
    BY <1>2, ContextBounds DEF ContextInv, s
  <2>2. Put(summaries, s, SummarySize) \in Seq(Summary) /\ Len(Put(summaries, s, SummarySize)) <= SummarySize
    BY <2>1, PutIs
  <2>. QED  BY <1>3, <2>2 DEF ContextInv, s
<1>5. writing' \subseteq Writer /\ OneWriterEach'
  BY <1>1 DEF OneWriterEach, ContextInv
<1>. QED  BY <1>1, <1>4, <1>5, ContextKept DEF ContextInv

-----------------------------------------------------------------------------
\* What is made of a conversation.

LEMMA OlderIs ==
  ASSUME NEW n \in Nat
  PROVE  OlderThan(n) \in 0..n
BY ContextBounds DEF OlderThan

\* "This" is a reply.
LEMMA ReferentIs ==
  ASSUME NEW turns \in Seq(Shapes), NEW back \in BOOLEAN
  PROVE  /\ Referent(turns, back) \in 0..Len(turns)
         /\ Referent(turns, back) # 0 => turns[Referent(turns, back)].role = "assistant"
<1>. DEFINE R == {i \in 1..Len(turns) : turns[i].role = "assistant"}
<1>1. Len(turns) \in Nat /\ {0} \cup R \subseteq 0..Len(turns)
  OBVIOUS
<1>2. Max({0} \cup R) \in {0} \cup R
  <2>. HIDE DEF R
  <2>. QED  BY <1>1, GreatestOf
<1>3. CASE back
  <2>1. Referent(turns, back) = Max({0} \cup R)
    BY <1>3 DEF Referent
  <2>. QED  BY <1>1, <1>2, <2>1
<1>4. CASE ~back
  BY <1>1, <1>4 DEF Referent
<1>. QED  BY <1>3, <1>4

\* A one gets no more than there is, and the one that is referred to gets it first.
LEMMA SharesOf ==
  ASSUME NEW turns \in Seq(Shapes), NEW back \in BOOLEAN, NEW room \in Int, NEW i \in 1..Len(turns)
  PROVE  /\ Share(turns, back, room, i) \in Int
         /\ LET pool == (room * 7) \div 10 IN
              /\ Size(turns[i]) <= Share(turns, back, room, i) => Size(turns[i]) <= (IF pool > 0 THEN pool ELSE 0)
              /\ /\ i = Referent(turns, back) /\ i > OlderThan(Len(turns))
                 /\ Size(turns[i]) <= (IF pool > 0 THEN pool ELSE 0)
                 => Size(turns[i]) <= Share(turns, back, room, i)
<1>. DEFINE recent == (OlderThan(Len(turns)) + 1)..Len(turns)
            ahead == [j \in DOMAIN turns |-> IF j \in recent /\ Goes(turns, back, j, i) THEN Size(turns[j]) ELSE 0]
            taken == Total(ahead, Len(turns))
            pool == (room * 7) \div 10
            left == IF pool > taken THEN pool - taken ELSE 0
<1>1. Share(turns, back, room, i) = Min({Size(turns[i]), left})
  BY DEF Share
<1>2. pool \in Int
  OBVIOUS
<1>3. Len(turns) \in Nat /\ \A j \in 1..Len(turns) : turns[j] \in Shapes
  OBVIOUS
<1>4. \A j \in 1..Len(turns) : Size(turns[j]) \in Nat
  BY <1>3, SizeIs
<1>5. \A j \in 1..Len(turns) : ahead[j] \in Nat
  BY <1>4
<1>6. i = Referent(turns, back) /\ i > OlderThan(Len(turns)) => \A j \in 1..Len(turns) : ahead[j] = 0
  <2>. SUFFICES ASSUME i = Referent(turns, back), i > OlderThan(Len(turns)), NEW j \in 1..Len(turns)
                PROVE  ahead[j] = 0
    OBVIOUS
  <2>. DEFINE replies == {k \in (OlderThan(Len(turns)) + 1)..Len(turns) : turns[k].role = "assistant"}
  <2>1. Referent(turns, back) \in replies
    <3>1. OlderThan(Len(turns)) \in Nat
      BY <1>3, OlderIs
    <3>2. i # 0 /\ i \in (OlderThan(Len(turns)) + 1)..Len(turns)
      BY <1>3, <3>1
    <3>. QED  BY <3>2, ReferentIs
  <2>2. ~Goes(turns, back, j, i)
    BY <2>1 DEF Goes
  <2>. QED  BY <2>2
<1>. HIDE DEF ahead
<1>7. taken \in Nat /\ (i = Referent(turns, back) /\ i > OlderThan(Len(turns)) => taken = 0)
  BY <1>3, <1>5, <1>6, TotalHolds
<1>. HIDE DEF taken, pool
<1>8. left \in Int /\ left <= (IF pool > 0 THEN pool ELSE 0) /\ (taken = 0 => left = IF pool > 0 THEN pool ELSE 0)
  BY <1>2, <1>7
<1>. HIDE DEF left
<1>9. /\ Min({Size(turns[i]), left}) \in Int
      /\ Min({Size(turns[i]), left}) <= left
      /\ Min({Size(turns[i]), left}) = Size(turns[i]) \/ Min({Size(turns[i]), left}) = left
  <2>1. Size(turns[i]) \in Int
    BY <1>4
  <2>. QED  BY <1>8, <2>1, LesserOf, Zenon
<1>. DEFINE most == IF pool > 0 THEN pool ELSE 0
<1>10. most \in Int
  BY <1>2
<1>. HIDE DEF most
<1>11. /\ Size(turns[i]) <= Share(turns, back, room, i) => Size(turns[i]) <= most
       /\ i = Referent(turns, back) /\ i > OlderThan(Len(turns)) /\ Size(turns[i]) <= most
          => Size(turns[i]) <= Share(turns, back, room, i)
  <2>1. Size(turns[i]) \in Nat /\ left <= most /\ (taken = 0 => left = most)
    BY <1>4, <1>8 DEF most
  <2>. QED  BY <1>1, <1>7, <1>8, <1>9, <1>10, <2>1
<1>. QED  BY <1>1, <1>9, <1>11 DEF pool, most

LEMMA PiecesAre ==
  ASSUME NEW one \in Shapes, NEW share \in Int
  PROVE  PiecesShown(one, share) \in Nat
<1>. DEFINE room == IF share > OmissionSize THEN share - OmissionSize ELSE 0
            T == {n \in 0..Len(one.pieces) : Total(one.pieces, n) <= room}
<1>1. Len(one.pieces) \in Nat
  BY SizeIs
<1>2. room \in Nat
  BY ContextBounds
<1>3. Total(one.pieces, 0) = 0
  BY TotalHolds
<1>4. T # {} /\ T \subseteq 0..Len(one.pieces)
  BY <1>1, <1>2, <1>3
<1>5. Max(T) \in T
  <2>. HIDE DEF T
  <2>. QED  BY <1>1, <1>4, GreatestOf
<1>6. PiecesShown(one, share) \in {Len(one.pieces), 0, Max(T)}
  BY DEF PiecesShown
<1>. QED  BY <1>1, <1>4, <1>5, <1>6

\* The context that is made of a conversation tells what was said.
LEMMA MadeTrue ==
  ASSUME ContextInv, NEW c \in Conversations, said[c] # <<>>, NEW back \in BOOLEAN, NEW budget \in Budgets,
         NEW context \in Assembled(c, said[c], back, budget)
  PROVE  HeldTrue(context, said) /\ context.of = <<c, Len(said[c]), back, budget>>
<1>. DEFINE turns == said[c]
            n == Len(turns)
            older == OlderThan(n)
            fixed == Fixed(turns, back, budget)
            fits == fixed + Total([i \in 1..n |-> Size(turns[i])], n) <= budget
            summary == IF older = 0 THEN {} ELSE SummaryOf(<<c, older>>)
            useful == summary # {} /\ 1 <= (budget * 3) \div 10
            listed == Min({older, (budget * 15) \div 100})
            room == budget - Min({budget, fixed + (IF useful THEN 1 ELSE listed)})
            share == [i \in 1..n |-> IF i > older THEN Share(turns, back, room, i) ELSE 0]
            shown == [i \in 1..n |-> IF i > older THEN PiecesShown(turns[i], share[i]) ELSE 0]
            used == Total([i \in 1..n |-> IF i > older THEN Written(turns[i], share[i]) ELSE 0], n)
            all == [NoContext EXCEPT !.of = <<c, n, back, budget>>, !.whole = 1..n]
            some(found) ==
              [of |-> <<c, n, back, budget>>,
               older |-> IF useful THEN CHOOSE made \in summary : TRUE ELSE <<>>,
               outline |-> IF useful THEN {} ELSE (older - listed + 1)..older,
               whole |-> {i \in (older + 1)..n : Size(turns[i]) <= share[i]},
               part |-> UNION {{<<i, p>> : p \in 1..shown[i]} : i \in (older + 1)..n},
               found |-> found]
            left == room - Min({room, used})
            referent == Referent(turns, back)
<1>1. context = all \/ \E found \in Retrieved(turns, back, shown, left) : context = some(found)
  BY DEF Assembled
<1>2. turns \in Seq(Shapes) /\ n \in Nat /\ n # 0
  BY DEF ContextInv
<1>3. SubSeq(turns, 1, n) = turns
  BY <1>2
<1>4. older \in 0..n /\ referent \in 0..n
  BY <1>2, OlderIs, ReferentIs
<1>5. \A h : h.of = <<c, n, back, budget>> /\ Told(h, turns) => HeldTrue(h, said)
  <2>. SUFFICES ASSUME NEW h, h.of = <<c, n, back, budget>>, Told(h, turns) PROVE HeldTrue(h, said)
    OBVIOUS
  <2>1. h.of[1] = c /\ h.of[2] = n
    OBVIOUS
  <2>2. n \in 1..n
    BY <1>2
  <2>. QED  BY <1>3, <2>1, <2>2 DEF HeldTrue
<1>6. CASE context = all
  <2>1. context.of = <<c, n, back, budget>> /\ context.whole = 1..n /\ context.older = <<>> /\ context.part = {}
    BY <1>6 DEF NoContext
  <2>2. referent > older => referent \in context.whole
    BY <1>4, <2>1
  <2>3. Told(context, turns)
    BY <2>1, <2>2 DEF Told
  <2>. QED  BY <1>5, <2>1, <2>3
<1>7. ASSUME NEW found \in Retrieved(turns, back, shown, left), context = some(found)
      PROVE  HeldTrue(context, said) /\ context.of = <<c, n, back, budget>>
  <2>1. /\ context.of = <<c, n, back, budget>>
        /\ context.older = IF useful THEN CHOOSE made \in summary : TRUE ELSE <<>>
        /\ context.whole = {i \in (older + 1)..n : Size(turns[i]) <= share[i]}
        /\ context.part = UNION {{<<i, p>> : p \in 1..shown[i]} : i \in (older + 1)..n}
        /\ context.found = found
    BY <1>7
  <2>2. context.of[2] = n /\ context.of[3] = back
    BY <2>1
  <2>3. context.older # <<>> => context.older = Identity(older)
    <3>. SUFFICES ASSUME useful PROVE (CHOOSE made \in summary : TRUE) = Identity(older)
      BY <2>1
    <3>. DEFINE made == CHOOSE made \in summary : TRUE
    <3>1. made \in summary /\ older # 0
      OBVIOUS
    <3>. HIDE DEF made
    <3>2. made \in SummaryOf(<<c, older>>)
      BY <3>1
    <3>. HIDE DEF older
    <3>3. PICK i \in 1..Len(summaries) : summaries[i].of = <<c, older>> /\ made = summaries[i].made
      BY <3>2 DEF SummaryOf
    <3>4. summaries[i] \in Summary
      BY DEF ContextInv
    <3>5. made = Identity(older)
      BY <3>3, <3>4 DEF Summary
    <3>. QED  BY <3>5 DEF made
  <2>4. room \in Int
    <3>1. budget \in Nat /\ budget \in Int
      BY ContextBounds
    <3>2. fixed \in Int
      BY <3>1, ContextBounds DEF Fixed
    <3>3. older \in Int /\ (budget * 15) \div 100 \in Int
      BY <1>4, <3>1
    <3>4. listed \in Int
      BY <3>3, LesserOf
    <3>. HIDE DEF listed, fixed, useful
    <3>. DEFINE need == fixed + (IF useful THEN 1 ELSE listed)
    <3>5. need \in Int
      BY <3>2, <3>4
    <3>. HIDE DEF need
    <3>6. Min({budget, need}) \in Int
      BY <3>1, <3>5, LesserOf, Zenon
    <3>7. budget - Min({budget, need}) \in Int
      BY <3>1, <3>6
    <3>. QED  BY <3>7 DEF need
  <2>. HIDE DEF room, fixed, listed, useful, summary, used
  <2>5. \A i \in 1..n : share[i] \in Int
    BY <1>2, <2>4, SharesOf
  <2>6. \A i \in 1..n : shown[i] \in Nat
    <3>. SUFFICES ASSUME NEW i \in 1..n PROVE shown[i] \in Nat
      OBVIOUS
    <3>1. shown[i] = IF i > older THEN PiecesShown(turns[i], share[i]) ELSE 0
      OBVIOUS
    <3>. HIDE DEF share, shown
    <3>2. turns[i] \in Shapes /\ share[i] \in Int
      <4>1. share[i] \in Int
        BY <2>5
      <4>2. turns[i] \in Shapes
        BY <1>2
      <4>. QED  BY <4>1, <4>2
    <3>3. PiecesShown(turns[i], share[i]) \in Nat
      BY <3>2, PiecesAre
    <3>. QED  BY <3>1, <3>3
  <2>7. context.part \cap context.found = {}
    <3>. HIDE DEF shown, left
    <3>1. \A piece \in found : piece[1] \in 1..n /\ piece[2] \in (shown[piece[1]] + 1)..Len(turns[piece[1]].pieces)
      <4>. DEFINE candidates == UNION {{<<i, p>> : p \in (shown[i] + 1)..Len(turns[i].pieces)} : i \in DOMAIN turns}
      <4>1. found \subseteq candidates
        BY DEF Retrieved
      <4>2. DOMAIN turns = 1..n
        BY <1>2
      <4>. QED  BY <4>1, <4>2
    <3>. SUFFICES ASSUME NEW piece \in context.part, piece \in context.found PROVE FALSE
      OBVIOUS
    <3>2. piece[1] \in 1..n /\ piece[2] <= shown[piece[1]]
      <4>1. PICK i \in (older + 1)..n : piece \in {<<i, p>> : p \in 1..shown[i]}
        BY <2>1
      <4>2. i \in 1..n /\ shown[i] \in Nat
        BY <1>2, <1>4, <2>6, <4>1
      <4>3. piece[1] = i /\ piece[2] \in 1..shown[i]
        BY <4>1
      <4>. QED  BY <4>2, <4>3
    <3>3. shown[piece[1]] \in Nat /\ piece[2] \in Int /\ shown[piece[1]] + 1 <= piece[2]
      BY <2>1, <2>6, <3>1
    <3>. QED  BY <3>2, <3>3
  <2>8. referent > older /\ (\E i \in context.whole : Size(turns[i]) >= Size(turns[referent])) => referent \in context.whole
    <3>. SUFFICES ASSUME referent > older, NEW i \in context.whole, Size(turns[i]) >= Size(turns[referent])
                  PROVE  referent \in context.whole
      OBVIOUS
    <3>1. i \in (older + 1)..n /\ Size(turns[i]) <= share[i]
      BY <2>1
    <3>2. referent \in (older + 1)..n
      BY <1>2, <1>4
    <3>3. i \in 1..n /\ i > older /\ referent \in 1..n
      BY <1>4, <3>1, <3>2
    <3>4. share[i] = Share(turns, back, room, i) /\ share[referent] = Share(turns, back, room, referent)
      BY <3>2, <3>3
    <3>. DEFINE pool == (room * 7) \div 10
                most == IF pool > 0 THEN pool ELSE 0
    <3>5. Size(turns[i]) <= most
      BY <1>2, <2>4, <3>1, <3>3, <3>4, SharesOf
    <3>6. most \in Int
      BY <2>4
    <3>7. Size(turns[i]) \in Nat /\ Size(turns[referent]) \in Nat
      BY <1>2, <3>3, SizeIs
    <3>. HIDE DEF most
    <3>8. Size(turns[referent]) <= most
      BY <3>5, <3>6, <3>7
    <3>9. Size(turns[referent]) <= share[referent]
      BY <1>2, <2>4, <3>2, <3>3, <3>4, <3>8, SharesOf DEF most
    <3>. QED  BY <2>1, <3>2, <3>9
  <2>. HIDE DEF n, older, referent
  <2>9. Told(context, turns)
    BY <2>2, <2>3, <2>7, <2>8 DEF Told, older, referent
  <2>. QED  BY <1>5, <2>1, <2>9
<1>. QED  BY <1>1, <1>6, <1>7

LEMMA BuildContextKeeps == ASSUME ContextInv, NEW c \in Conversations, BuildContext(c) PROVE ContextInv'
<1>1. PICK back \in BOOLEAN, budget \in Budgets :
        LET known == {i \in DOMAIN memo : memo[i].of = <<c, Len(said[c]), back, budget>>} IN
          /\ said[c] # <<>>
          /\ \/ \E i \in known :
                  handed' = memo[i] /\ memo' = Put(memo, memo[i], MemoSize) /\ UNCHANGED writing
             \/ \E context \in Assembled(c, said[c], back, budget) :
                  /\ handed' = context /\ memo' = Put(memo, context, MemoSize)
                  /\ writing' = writing \cup
                       IF context.whole = 1..Len(said[c]) THEN {}
                       ELSE {[of |-> prefix, step |-> "begun", from |-> <<>>] : prefix \in ToWrite(c, Len(said[c]))}
          /\ UNCHANGED <<said, summaries>>
  BY DEF BuildContext
<1>2. PICK S : memo \in Seq(S) /\ AllTrue(S, said)
  BY DEF ContextInv
<1>3. ASSUME NEW h, HeldTrue(h, said), memo' = Put(memo, h, MemoSize)
      PROVE  Len(memo') <= MemoSize /\ \E T : memo' \in Seq(T) /\ AllTrue(T, said)
  <2>. DEFINE T == S \cup {h}
  <2>1. memo \in Seq(T) /\ h \in T /\ AllTrue(T, said)
    <3>1. memo \in Seq(T)
      <4>1. Len(memo) \in Nat /\ \A i \in 1..Len(memo) : memo[i] \in T
        BY <1>2
      <4>2. memo = [i \in 1..Len(memo) |-> memo[i]]
        BY <1>2
      <4>. HIDE DEF T
      <4>. QED  BY <4>1, <4>2
    <3>. QED  BY <1>2, <1>3, <3>1 DEF AllTrue
  <2>. HIDE DEF T
  <2>. QED  BY <1>3, <2>1, PutIs, ContextBounds
<1>4. said' = said /\ summaries' = summaries
  BY <1>1
<1>5. CASE \E i \in DOMAIN memo : handed' = memo[i] /\ memo' = Put(memo, memo[i], MemoSize) /\ UNCHANGED writing
  <2>1. PICK i \in DOMAIN memo : handed' = memo[i] /\ memo' = Put(memo, memo[i], MemoSize) /\ UNCHANGED writing
    BY <1>5
  <2>2. HeldTrue(memo[i], said)
    BY <1>2 DEF AllTrue
  <2>. DEFINE h == memo[i]
  <2>3. handed' = h /\ HeldTrue(h, said) /\ memo' = Put(memo, h, MemoSize)
    BY <2>1, <2>2
  <2>. HIDE DEF h
  <2>4. Len(memo') <= MemoSize /\ \E T : memo' \in Seq(T) /\ AllTrue(T, said)
    BY <1>3, <2>3
  <2>5. HeldTrue(handed', said')
    BY <1>4, <2>3
  <2>. QED  BY <1>4, <2>1, <2>4, <2>5 DEF ContextInv, OneWriterEach
<1>6. CASE \E context \in Assembled(c, said[c], back, budget) :
             /\ handed' = context /\ memo' = Put(memo, context, MemoSize)
             /\ writing' = writing \cup
                  IF context.whole = 1..Len(said[c]) THEN {}
                  ELSE {[of |-> prefix, step |-> "begun", from |-> <<>>] : prefix \in ToWrite(c, Len(said[c]))}
  <2>1. PICK context \in Assembled(c, said[c], back, budget) :
             /\ handed' = context /\ memo' = Put(memo, context, MemoSize)
             /\ writing' = writing \cup
                  IF context.whole = 1..Len(said[c]) THEN {}
                  ELSE {[of |-> prefix, step |-> "begun", from |-> <<>>] : prefix \in ToWrite(c, Len(said[c]))}
    BY <1>6
  <2>2. HeldTrue(context, said)
    BY <1>1, MadeTrue
  <2>3. Len(memo') <= MemoSize /\ \E T : memo' \in Seq(T) /\ AllTrue(T, said)
    BY <1>3, <2>1, <2>2
  <2>4. HeldTrue(handed', said')
    BY <1>4, <2>1, <2>2
  <2>5. writing' = writing \/ writing' = writing \cup {[of |-> prefix, step |-> "begun", from |-> <<>>] : prefix \in ToWrite(c, Len(said[c]))}
    BY <2>1
  <2>6. writing' \subseteq Writer /\ OneWriterEach'
    <3>. DEFINE n == Len(said[c])
                p == <<c, OlderThan(n)>>
                w == [of |-> p, step |-> "begun", from |-> <<>>]
    <3>1. n \in Nat /\ n <= MaxTurns
      BY DEF ContextInv
    <3>2. ToWrite(c, n) \subseteq {p} /\ \A q \in ToWrite(c, n) : q # <<c, 0>> /\ q \notin {v.of : v \in writing}
      BY DEF ToWrite
    <3>3. CASE ToWrite(c, n) = {}
      <4>1. writing' = writing
        BY <2>5, <3>3
      <4>. QED  BY <4>1 DEF ContextInv, OneWriterEach
    <3>4. CASE ToWrite(c, n) # {}
      <4>1. p # <<c, 0>> /\ \A v \in writing : v.of # p
        BY <3>2, <3>4
      <4>2. OlderThan(n) \in 1..MaxTurns
        <5>1. OlderThan(n) \in 0..n /\ OlderThan(n) # 0
          BY <3>1, <4>1, OlderIs
        <5>. QED  BY <3>1, <5>1, ContextBounds
      <4>3. w \in Writer /\ w.of = p
        <5>1. p \in Parts
          BY <4>2 DEF Parts
        <5>2. <<>> \in TurnSeqs
          <6>1. <<>> \in [1..0 -> 1..MaxTurns] /\ 0 \in 0..MaxTurns
            BY ContextBounds
          <6>. QED  BY <6>1 DEF TurnSeqs
        <5>. HIDE DEF p
        <5>. QED  BY <5>1, <5>2 DEF Writer
      <4>4. {[of |-> prefix, step |-> "begun", from |-> <<>>] : prefix \in ToWrite(c, n)} = {w}
        BY <3>2, <3>4
      <4>. HIDE DEF w, p
      <4>5. writing' = writing \/ writing' = writing \cup {w}
        BY <2>5, <4>4
      <4>. QED  BY <4>1, <4>3, <4>5 DEF ContextInv, OneWriterEach
    <3>. QED  BY <3>3, <3>4
  <2>. QED  BY <1>4, <2>3, <2>4, <2>6 DEF ContextInv
<1>. QED  BY <1>1, <1>5, <1>6

LEMMA ContextStep == ContextInv /\ [ContextNext]_contextvars => ContextInv'
<1>. SUFFICES ASSUME ContextInv, [ContextNext]_contextvars PROVE ContextInv'
  OBVIOUS
<1>1. CASE UNCHANGED contextvars
  BY <1>1 DEF ContextInv, contextvars, OneWriterEach
<1>2. CASE ContextNext
  BY <1>2, SayMoreKeeps, BuildContextKeeps, BeginSummaryKeeps, EndSummaryKeeps DEF ContextNext
<1>. QED  BY <1>1, <1>2

LEMMA ContextWellTyped == ContextInv => ContextTypeOK
<1>. SUFFICES ASSUME ContextInv PROVE ContextTypeOK
  OBVIOUS
<1>1. \A i \in 1..Len(summaries) : summaries[i] \in Summary
  BY DEF ContextInv
<1>2. \A i \in 1..Len(summaries) : summaries[i].of \in Parts /\ summaries[i].made \in TurnSeqs
  BY <1>1 DEF Summary
<1>3. \A w \in writing : w.of \in Parts /\ w.step \in {"begun", "asking"} /\ w.from \in TurnSeqs
  BY DEF ContextInv, Writer
<1>. QED  BY <1>2, <1>3 DEF ContextInv, ContextTypeOK

LEMMA ContextTells == ContextInv => ContextTellsTheConversation
<1>. SUFFICES ASSUME ContextInv PROVE ContextTellsTheConversation
  OBVIOUS
<1>1. SummariesTellItAll
  <2>1. \A s \in ToSet(summaries) : s \in Summary
    BY DEF ContextInv, ToSet
  <2>. QED  BY <2>1 DEF SummariesTellItAll, Summary, Identity
<1>2. ToldWhatWasSaid
  <2>. SUFFICES ASSUME handed.of # <<>> PROVE ToldWhatWasSaid
    BY DEF ToldWhatWasSaid
  <2>1. handed # NoContext
    BY DEF NoContext
  <2>2. Told(handed, SubSeq(said[handed.of[1]], 1, handed.of[2]))
    BY <2>1 DEF ContextInv, HeldTrue
  <2>. QED  BY <2>2 DEF Told, ToldWhatWasSaid, Identity
<1>. QED  BY <1>1, <1>2 DEF ContextInv, ContextTellsTheConversation

-----------------------------------------------------------------------------
\* Naming: what a question listed bears its words, for as long as it is
\* set; so what is found, asked about or chosen is what was named.

Dated == \A i \in DOMAIN set : i \in Nat /\ set[i].due \in Nat
Sorted(q, n) == \A k, l \in 1..n : k < l => Before(q[k], q[l])

LEMMA TheFirst ==
  ASSUME Dated, NEW S, S \subseteq DOMAIN set, S # {}
  PROVE  \E x \in S : \A y \in S : y # x => Before(x, y)
<1>. DEFINE dues == {set[i].due : i \in S}
<1>1. dues \subseteq Nat /\ dues # {}
  BY DEF Dated
<1>2. PICK d \in dues : \A e \in dues : d <= e
  BY <1>1, LeastOf
<1>. DEFINE first == {i \in S : set[i].due = d}
<1>3. first \subseteq Nat /\ first # {}
  BY <1>2 DEF Dated
<1>4. PICK x \in first : \A y \in first : x <= y
  BY <1>3, LeastOf
<1>5. \A y \in S : y # x => Before(x, y)
  <2>. SUFFICES ASSUME NEW y \in S, y # x PROVE Before(x, y)
    OBVIOUS
  <2>1. set[x].due = d /\ d <= set[y].due /\ set[x].due \in Nat /\ set[y].due \in Nat /\ x \in Nat /\ y \in Nat
    BY <1>2, <1>4 DEF Dated
  <2>2. set[y].due = d => x < y
    BY <1>4, <2>1
  <2>. QED  BY <2>1, <2>2 DEF Before
<1>. QED  BY <1>4, <1>5

LEMMA OneMoreInOrder ==
  ASSUME Dated, NEW n \in Nat, NEW S, S \subseteq DOMAIN set, NEW x \in S,
         \A y \in S : y # x => Before(x, y), NEW q \in [1..n -> S \ {x}], Sorted(q, n)
  PROVE  \E p \in [1..(n + 1) -> S] : Sorted(p, n + 1)
<1>. DEFINE p == [i \in 1..(n + 1) |-> IF i = 1 THEN x ELSE q[i - 1]]
<1>1. p[1] = x /\ \A i \in 1..(n + 1) : i = 1 \/ (i - 1 \in 1..n /\ p[i] = q[i - 1])
  OBVIOUS
<1>2. p \in [1..(n + 1) -> S]
  OBVIOUS
<1>. HIDE DEF p
<1>3. ASSUME NEW k \in 1..(n + 1), NEW l \in 1..(n + 1), k < l PROVE Before(p[k], p[l])
  <2>1. l # 1 /\ l - 1 \in 1..n /\ p[l] = q[l - 1]
    BY <1>1, <1>3
  <2>2. CASE k = 1
    BY <1>1, <2>1, <2>2
  <2>3. CASE k # 1
    <3>1. k - 1 \in 1..n /\ p[k] = q[k - 1] /\ k - 1 < l - 1
      BY <1>1, <1>3, <2>3
    <3>. QED  BY <2>1, <3>1 DEF Sorted
  <2>. QED  BY <2>2, <2>3
<1>. QED  BY <1>2, <1>3 DEF Sorted

LEMMA CanBeSorted ==
  ASSUME Dated, NEW S, S \subseteq DOMAIN set, IsFiniteSet(S)
  PROVE  \E q \in [1..Cardinality(S) -> S] : Sorted(q, Cardinality(S))
<1>. DEFINE T == {n \in Nat : \A R \in SUBSET S : IsFiniteSet(R) /\ Cardinality(R) = n =>
                                \E q \in [1..n -> R] : Sorted(q, n)}
<1>1. 0 \in T
  <2>1. \A R \in SUBSET S : [i \in 1..0 |-> 0] \in [1..0 -> R] /\ Sorted([i \in 1..0 |-> 0], 0)
    BY DEF Sorted
  <2>. QED  BY <2>1
<1>2. ASSUME NEW n \in Nat, n \in T PROVE n + 1 \in T
  <2>. SUFFICES ASSUME NEW R \in SUBSET S, IsFiniteSet(R), Cardinality(R) = n + 1
                PROVE  \E q \in [1..(n + 1) -> R] : Sorted(q, n + 1)
    OBVIOUS
  <2>1. R # {}
    BY FS_EmptySet
  <2>2. PICK x \in R : \A y \in R : y # x => Before(x, y)
    BY <2>1, TheFirst
  <2>3. IsFiniteSet(R \ {x}) /\ Cardinality(R \ {x}) = n
    <3>1. IsFiniteSet(R \ {x}) /\ Cardinality(R \ {x}) = Cardinality(R) - 1
      BY FS_RemoveElement
    <3>. QED  BY <3>1
  <2>4. PICK q \in [1..n -> R \ {x}] : Sorted(q, n)
    BY <1>2, <2>3
  <2>. QED  BY <2>2, <2>4, OneMoreInOrder
<1>3. Nat \subseteq T
  <2>. HIDE DEF T
  <2>. QED  BY <1>1, <1>2, CountedUp
<1>4. Cardinality(S) \in Nat
  BY FS_CardinalityType
<1>. QED  BY <1>3, <1>4

\* list() is of all that is asked for.
LEMMA OrderedIs ==
  ASSUME Dated, NEW S, S \subseteq DOMAIN set, IsFiniteSet(S)
  PROVE  /\ InOrder(S) \in Seq(S) /\ ToSet(InOrder(S)) \subseteq S
         /\ S # {} => InOrder(S)[1] \in S
<1>. DEFINE n == Cardinality(S)
<1>1. n \in Nat /\ (S # {} => n # 0)
  BY FS_CardinalityType, FS_EmptySet
<1>2. \E q \in [1..n -> S] : \A k, l \in 1..n : k < l => Before(q[k], q[l])
  BY CanBeSorted DEF Sorted
<1>3. InOrder(S) \in [1..n -> S]
  BY <1>2 DEF InOrder
<1>. HIDE DEF n
<1>4. InOrder(S) \in Seq(S)
  BY <1>1, <1>3
<1>5. ToSet(InOrder(S)) \subseteq S
  BY <1>3 DEF ToSet
<1>6. S # {} => InOrder(S)[1] \in S
  BY <1>1, <1>3
<1>. QED  BY <1>4, <1>5, <1>6

Verbs == {"none", "delete", "done", "snooze"}
Reminder == [about : Subjects, due : Moments]

\* Those a question listed bear its words for as long as they are set, for an id is not given twice.
QuestionOK(q, s, n) ==
  /\ q.verb \in Verbs /\ q.ids \in Seq(Numbers)
  /\ \A i \in ToSet(q.ids) : i < n /\ (i \in DOMAIN s => ToSet(q.said) \ {"last"} \subseteq s[i].about.words)

NamingInv ==
  /\ moment \in Moments /\ nextId \in 1..(MaxSet + 1)
  /\ DOMAIN set \subseteq 1..(nextId - 1) /\ DOMAIN repeats \subseteq 1..(nextId - 1) /\ DOMAIN set \cap DOMAIN repeats = {}
  /\ \A i \in DOMAIN set : set[i] \in Reminder
  /\ \A j \in DOMAIN repeats : repeats[j] \in Subjects
  /\ QuestionOK(asked, set, nextId)

LEMMA TheSet ==
  ASSUME NamingInv
  PROVE  /\ MaxSet \in Nat /\ LastMoment \in Nat /\ Moments \subseteq Nat /\ nextId \in Nat
         /\ Dated /\ IsFiniteSet(DOMAIN set) /\ DOMAIN set \subseteq Numbers /\ DOMAIN repeats \subseteq Numbers
<1>1. MaxSet \in Nat /\ LastMoment \in Nat /\ Moments \subseteq Nat /\ nextId \in Nat
  BY NamingAssumption DEF NamingInv, Moments
<1>2. DOMAIN set \subseteq Numbers /\ DOMAIN repeats \subseteq Numbers
  BY <1>1 DEF NamingInv, Numbers
<1>3. Dated
  <2>1. \A i \in DOMAIN set : set[i].due \in Moments
    BY DEF NamingInv, Reminder
  <2>2. Numbers \subseteq Nat
    BY <1>1 DEF Numbers
  <2>. QED  BY <1>1, <1>2, <2>1, <2>2 DEF Dated
<1>4. IsFiniteSet(DOMAIN set)
  <2>1. IsFiniteSet(1..MaxSet)
    BY <1>1, FS_Interval
  <2>. QED  BY <1>2, <2>1, FS_Subset DEF Numbers
<1>. QED  BY <1>1, <1>2, <1>3, <1>4

LEMMA NoQuestionOK ==
  ASSUME NEW s, NEW n
  PROVE  QuestionOK(NoQuestion, s, n)
<1>1. NoQuestion.verb = "none" /\ NoQuestion.ids = <<>>
  BY DEF NoQuestion
<1>2. ToSet(<<>>) = {}
  BY DEF ToSet
<1>. QED  BY <1>1, <1>2 DEF QuestionOK, Verbs

LEMMA NamingStarts == NamingInit => NamingInv
<1>. SUFFICES ASSUME NamingInit PROVE NamingInv
  OBVIOUS
<1>1. moment = 0 /\ set = <<>> /\ repeats = <<>> /\ nextId = 1 /\ asked = NoQuestion
  BY DEF NamingInit
<1>2. DOMAIN set = {} /\ DOMAIN repeats = {}
  BY <1>1
<1>3. moment \in Moments /\ nextId \in 1..(MaxSet + 1)
  BY <1>1, NamingAssumption DEF Moments
<1>. QED  BY <1>1, <1>2, <1>3, NoQuestionOK DEF NamingInv

\* A command that is about one finds one that bears what was named of it, or says which there are.
ListsOK(ids, named) == ids \in Seq(Numbers) /\ \A i \in ToSet(ids) : i \in DOMAIN set /\ Bears(i, named)
FoundOK(it, named) ==
  /\ it.found = {} \/ \E i \in DOMAIN set : it.found = {i} /\ (named.id = 0 => Bears(i, named)) /\ (named.id # 0 => i = named.id)
  /\ ListsOK(it.ids, named)

LEMMA NothingListed == \A named : ListsOK(<<>>, named)
  BY DEF ListsOK, ToSet

LEMMA NothingFound == \A named : FoundOK(Nothing, named)
<1>1. Nothing.found = {} /\ Nothing.ids = <<>>
  BY DEF Nothing
<1>. QED  BY <1>1, NothingListed DEF FoundOK

LEMMA OneFound ==
  ASSUME NEW named, NEW i \in DOMAIN set, named.id = 0 => Bears(i, named), named.id # 0 => i = named.id
  PROVE  FoundOK(One(i), named)
<1>1. One(i).found = {i} /\ One(i).ids = <<>>
  BY DEF One
<1>. QED  BY <1>1, NothingListed DEF FoundOK

LEMMA SomeToAskAbout ==
  ASSUME NamingInv, NEW named, NEW S, S \subseteq DOMAIN set, \A i \in S : Bears(i, named)
  PROVE  FoundOK(OrAsk(S), named)
<1>1. OrAsk(S).found = {} /\ OrAsk(S).ids = InOrder(S)
  BY DEF OrAsk
<1>2. IsFiniteSet(S) /\ S \subseteq Numbers
  BY TheSet, FS_Subset
<1>3. InOrder(S) \in Seq(S) /\ ToSet(InOrder(S)) \subseteq S
  BY <1>2, TheSet, OrderedIs
<1>4. InOrder(S) \in Seq(Numbers)
  <2>1. Len(InOrder(S)) \in Nat /\ \A k \in 1..Len(InOrder(S)) : InOrder(S)[k] \in Numbers
    BY <1>2, <1>3
  <2>2. InOrder(S) = [k \in 1..Len(InOrder(S)) |-> InOrder(S)[k]]
    BY <1>3
  <2>. QED  BY <2>1, <2>2
<1>. QED  BY <1>1, <1>3, <1>4 DEF FoundOK, ListsOK

LEMMA Finds ==
  ASSUME NamingInv, NEW named \in Said
  PROVE  FoundOK(FindReminder(named), named)
<1>. DEFINE active == DOMAIN set
            matches == {i \in active : Bears(i, named)}
            byKind == named.words # <<>> /\ named.words[1] \in {"timer", "alarm"}
            ringing == {i \in matches : Rings(i)}
            it == CASE named.id # 0 -> IF named.id \in active THEN One(named.id) ELSE Nothing
                    [] named.id = 0 /\ active = {} -> Nothing
                    [] named.id = 0 /\ active # {} /\ named.words = <<>> ->
                         IF Cardinality(active) > 1 THEN OrAsk(active) ELSE One(Max(active))
                    [] named.id = 0 /\ active # {} /\ named.words = <<"last">> -> One(Max(active))
                    [] OTHER ->
                         IF Cardinality(matches) > 1 /\ byKind /\ ringing # {} THEN One(InOrder(ringing)[1])
                         ELSE IF Cardinality(matches) = 1 \/ (matches # {} /\ byKind) THEN One(Max(matches))
                         ELSE OrAsk(matches)
<1>1. FindReminder(named) = it
  BY DEF FindReminder
<1>2. MaxSet \in Nat /\ Dated /\ IsFiniteSet(active) /\ active \subseteq 0..MaxSet
  BY TheSet DEF Numbers
<1>3. \A S : S \subseteq active /\ S # {} => Max(S) \in S
  BY <1>2, GreatestOf
<1>4. \A S : S \subseteq active /\ S # {} => InOrder(S)[1] \in S
  <2>. SUFFICES ASSUME NEW S, S \subseteq active, S # {} PROVE InOrder(S)[1] \in S
    OBVIOUS
  <2>1. IsFiniteSet(S)
    BY <1>2, FS_Subset
  <2>. QED  BY <1>2, <2>1, OrderedIs
<1>5. Cardinality(matches) = 1 => matches # {}
  BY FS_EmptySet
<1>6. named.words = <<>> \/ named.words = <<"last">> => \A i \in active : Bears(i, named)
  BY DEF Bears, Wanted, ToSet
<1>7. matches \subseteq active /\ ringing \subseteq matches /\ \A i \in matches : Bears(i, named)
  OBVIOUS
<1>. HIDE DEF active, matches, byKind, ringing
<1>8. active = DOMAIN set
  BY DEF active
<1>9. CASE named.id # 0
  <2>1. it = IF named.id \in active THEN One(named.id) ELSE Nothing
    BY <1>9
  <2>. QED  BY <1>1, <1>8, <1>9, <2>1, OneFound, NothingFound
<1>10. CASE named.id = 0 /\ active = {}
  <2>1. it = Nothing
    BY <1>10
  <2>. QED  BY <1>1, <2>1, NothingFound
<1>11. CASE named.id = 0 /\ active # {} /\ named.words = <<>>
  <2>1. it = IF Cardinality(active) > 1 THEN OrAsk(active) ELSE One(Max(active))
    BY <1>11
  <2>2. FoundOK(OrAsk(active), named)
    BY <1>6, <1>8, <1>11, SomeToAskAbout
  <2>3. FoundOK(One(Max(active)), named)
    BY <1>3, <1>6, <1>8, <1>11, OneFound
  <2>. QED  BY <1>1, <2>1, <2>2, <2>3
<1>12. CASE named.id = 0 /\ active # {} /\ named.words # <<>> /\ named.words = <<"last">>
  <2>1. it = One(Max(active))
    BY <1>12
  <2>2. FoundOK(One(Max(active)), named)
    BY <1>3, <1>6, <1>8, <1>12, OneFound
  <2>. QED  BY <1>1, <2>1, <2>2
<1>13. CASE named.id = 0 /\ active # {} /\ named.words # <<>> /\ named.words # <<"last">>
  <2>1. it = IF Cardinality(matches) > 1 /\ byKind /\ ringing # {} THEN One(InOrder(ringing)[1])
             ELSE IF Cardinality(matches) = 1 \/ (matches # {} /\ byKind) THEN One(Max(matches))
             ELSE OrAsk(matches)
    BY <1>13
  <2>2. ringing # {} => FoundOK(One(InOrder(ringing)[1]), named)
    <3>. SUFFICES ASSUME ringing # {} PROVE FoundOK(One(InOrder(ringing)[1]), named)
      OBVIOUS
    <3>1. InOrder(ringing)[1] \in ringing
      BY <1>4, <1>7
    <3>2. InOrder(ringing)[1] \in DOMAIN set /\ Bears(InOrder(ringing)[1], named)
      BY <1>7, <1>8, <3>1
    <3>. QED  BY <1>13, <3>2, OneFound
  <2>3. matches # {} => FoundOK(One(Max(matches)), named)
    BY <1>3, <1>7, <1>8, <1>13, OneFound
  <2>4. FoundOK(OrAsk(matches), named)
    BY <1>7, <1>8, SomeToAskAbout
  <2>. QED  BY <1>1, <1>5, <2>1, <2>2, <2>3, <2>4
<1>. QED  BY <1>9, <1>10, <1>11, <1>12, <1>13 DEF Said

-----------------------------------------------------------------------------
\* What a step leaves of the reminders is what they were about, and what it asks is of those there are.
LEMMA NamingKept ==
  ASSUME NamingInv, moment' \in Moments, nextId' = nextId,
         DOMAIN set' \subseteq DOMAIN set,
         \A i \in DOMAIN set' : set'[i] \in Reminder /\ set'[i].about = set[i].about,
         DOMAIN repeats' \subseteq DOMAIN repeats, \A j \in DOMAIN repeats' : repeats'[j] = repeats[j],
         QuestionOK(asked', set, nextId)
  PROVE  NamingInv'
<1>1. QuestionOK(asked', set', nextId)
  BY DEF QuestionOK
<1>. QED  BY <1>1 DEF NamingInv

\* The next answer: nothing is asked, or what was, or what is about the words that were named.
LEMMA Asks ==
  ASSUME NamingInv, NEW verb \in Verbs, NEW named \in Said, NEW ids, ListsOK(ids, named), Answers(verb, named, ids)
  PROVE  QuestionOK(asked', set, nextId)
<1>1. CASE asked' = asked
  BY <1>1 DEF NamingInv
<1>2. CASE asked' = NoQuestion
  BY <1>2, NoQuestionOK
<1>3. CASE asked' = [verb |-> verb, said |-> named.words, ids |-> ids]
  <2>1. asked'.verb = verb /\ asked'.said = named.words /\ asked'.ids = ids
    BY <1>3
  <2>2. \A i \in DOMAIN set : i < nextId
    BY TheSet DEF NamingInv
  <2>3. \A i \in ToSet(ids) : ToSet(named.words) \ {"last"} \subseteq set[i].about.words
    BY DEF ListsOK, Bears, Wanted
  <2>. QED  BY <2>1, <2>2, <2>3 DEF ListsOK, QuestionOK
<1>. QED  BY <1>1, <1>2, <1>3 DEF Answers

LEMMA AsksNothing ==
  ASSUME NamingInv, NEW named, NEW ids, Answers("none", named, ids)
  PROVE  QuestionOK(asked', set, nextId)
<1>1. asked' = asked \/ asked' = NoQuestion
  BY DEF Answers
<1>. QED  BY <1>1, NoQuestionOK DEF NamingInv

LEMMA EndsLeaves ==
  ASSUME NamingInv, NEW S, Ends(S)
  PROVE  /\ moment' \in Moments /\ nextId' = nextId /\ DOMAIN set' \subseteq DOMAIN set
         /\ \A i \in DOMAIN set' : set'[i] = set[i] /\ set'[i] \in Reminder /\ set'[i].about = set[i].about
         /\ DOMAIN set' = DOMAIN set \ S
BY DEF NamingInv, Ends, Without

LEMMA PutOffLeaves ==
  ASSUME NamingInv, NEW i, NEW due \in Moments, PutOffTo(i, due)
  PROVE  /\ moment' \in Moments /\ nextId' = nextId /\ DOMAIN set' = DOMAIN set
         /\ \A k \in DOMAIN set' : set'[k] \in Reminder /\ set'[k].about = set[k].about
         /\ \A k \in DOMAIN set' \ {i} : set'[k] = set[k]
         /\ repeats' = repeats
BY DEF NamingInv, PutOffTo, Reminder

LEMMA LeavesAll ==
  ASSUME NamingInv, LeaveAll
  PROVE  /\ moment' \in Moments /\ nextId' = nextId /\ set' = set /\ repeats' = repeats
         /\ \A k \in DOMAIN set' : set'[k] \in Reminder /\ set'[k].about = set[k].about
BY DEF NamingInv, LeaveAll

\* What a command or an answer does, whatever is asked after it.
LEMMA CompletesKeeps ==
  ASSUME NamingInv, NEW named, Completes(named), QuestionOK(asked', set, nextId)
  PROVE  NamingInv'
<1>1. Ends(FindReminder(named).found) /\ repeats' = repeats
  BY DEF Completes
<1>. QED  BY <1>1, EndsLeaves, NamingKept

LEMMA RemovesKeeps ==
  ASSUME NamingInv, NEW named, Removes(named), QuestionOK(asked', set, nextId)
  PROVE  NamingInv'
<1>1. ASSUME NEW S, Ends(S), repeats' = repeats PROVE NamingInv'
  BY <1>1, EndsLeaves, NamingKept
<1>2. CASE RemovesRepeating(named)
  <2>1. DOMAIN repeats' \subseteq DOMAIN repeats /\ \A j \in DOMAIN repeats' : repeats'[j] = repeats[j]
    BY <1>2 DEF RemovesRepeating, Without
  <2>2. /\ moment' = moment /\ set' = set /\ nextId' = nextId
    BY <1>2 DEF RemovesRepeating
  <2>3. moment' \in Moments /\ \A i \in DOMAIN set' : set'[i] \in Reminder /\ set'[i].about = set[i].about
    BY <2>2 DEF NamingInv
  <2>. QED  BY <2>1, <2>2, <2>3, NamingKept
<1>. QED  BY <1>1, <1>2 DEF Removes, RemovesRinging, RemovesFound

LEMMA SnoozesKeeps ==
  ASSUME NamingInv, NEW named, Snoozes(named), QuestionOK(asked', set, nextId)
  PROVE  NamingInv'
<1>1. moment + 1 \in Moments
  BY TheSet DEF NamingInv, Moments, Snoozes
<1>2. CASE LeaveAll
  BY <1>2, LeavesAll, NamingKept
<1>3. ASSUME NEW i, PutOffTo(i, moment + 1) PROVE NamingInv'
  BY <1>1, <1>3, PutOffLeaves, NamingKept
<1>. QED  BY <1>2, <1>3 DEF Snoozes

LEMMA ToSnoozeLists == ASSUME NamingInv, NEW named \in Said PROVE ListsOK(ToSnooze(named).ids, named)
<1>1. \A i : One(i).ids = <<>>
  BY DEF One
<1>2. FoundOK(FindReminder(named), named) /\ FoundOK(Nothing, named)
  BY Finds, NothingFound
<1>3. ToSnooze(named) \in {FindReminder(named), Nothing} \/ \E i : ToSnooze(named) = One(i)
  BY DEF ToSnooze
<1>. QED  BY <1>1, <1>2, <1>3, NothingListed DEF FoundOK

LEMMA ReminderDoneKeeps == ASSUME NamingInv, NEW named \in Said, ReminderDone(named) PROVE NamingInv'
<1>1. QuestionOK(asked', set, nextId)
  BY Finds, Asks, "done" \in Verbs DEF ReminderDone, FoundOK, Verbs
<1>. QED  BY <1>1, CompletesKeeps DEF ReminderDone

LEMMA ReminderRemoveKeeps == ASSUME NamingInv, NEW named \in Said, ReminderRemove(named) PROVE NamingInv'
<1>1. ASSUME Answers("none", named, <<>>) PROVE QuestionOK(asked', set, nextId)
  BY <1>1, AsksNothing
<1>2. ASSUME Answers("delete", named, FindReminder(named).ids) PROVE QuestionOK(asked', set, nextId)
  BY <1>2, Finds, Asks, "delete" \in Verbs DEF FoundOK, Verbs
<1>3. QuestionOK(asked', set, nextId)
  BY <1>1, <1>2 DEF ReminderRemove
<1>. QED  BY <1>3, RemovesKeeps DEF ReminderRemove, Removes

LEMMA ReminderStopKeeps == ASSUME NamingInv, NEW named \in Said, ReminderStop(named) PROVE NamingInv'
<1>1. (\E S : Ends(S)) /\ repeats' = repeats /\ Answers("none", named, <<>>)
  BY DEF ReminderStop
<1>. QED  BY <1>1, AsksNothing, EndsLeaves, NamingKept

LEMMA ReminderSnoozeKeeps == ASSUME NamingInv, NEW named \in Said, ReminderSnooze(named) PROVE NamingInv'
<1>1. QuestionOK(asked', set, nextId)
  BY ToSnoozeLists, Asks, "snooze" \in Verbs DEF ReminderSnooze, Verbs
<1>. QED  BY <1>1, SnoozesKeeps DEF ReminderSnooze

LEMMA ReminderMoveKeeps == ASSUME NamingInv, NEW named \in Said, ReminderMove(named) PROVE NamingInv'
<1>1. QuestionOK(asked', set, nextId)
  BY AsksNothing DEF ReminderMove
<1>2. CASE LeaveAll
  BY <1>1, <1>2, LeavesAll, NamingKept
<1>3. ASSUME NEW i, NEW due \in moment..LastMoment, PutOffTo(i, due) PROVE NamingInv'
  <2>1. due \in Moments
    BY TheSet DEF NamingInv, Moments
  <2>. QED  BY <1>1, <1>3, <2>1, PutOffLeaves, NamingKept
<1>. QED  BY <1>2, <1>3 DEF ReminderMove

LEMMA TimerExtendKeeps == ASSUME NamingInv, NEW named \in Said, TimerExtend(named) PROVE NamingInv'
<1>1. QuestionOK(asked', set, nextId)
  BY AsksNothing DEF TimerExtend
<1>2. CASE LeaveAll
  BY <1>1, <1>2, LeavesAll, NamingKept
<1>3. ASSUME NEW i, NEW due \in Moments, PutOffTo(i, due) PROVE NamingInv'
  BY <1>1, <1>3, PutOffLeaves, NamingKept
<1>. QED  BY <1>2, <1>3 DEF TimerExtend

LEMMA RemovesAllKeeps ==
  ASSUME NamingInv, NEW kind, RemovesAll(kind), QuestionOK(asked', set, nextId)
  PROVE  NamingInv'
<1>1. CASE LeaveAll
  BY <1>1, LeavesAll, NamingKept
<1>2. ASSUME NEW S, Ends(S), repeats' = <<>> \/ repeats' = repeats PROVE NamingInv'
  <2>1. DOMAIN repeats' \subseteq DOMAIN repeats /\ \A j \in DOMAIN repeats' : repeats'[j] = repeats[j]
    BY <1>2
  <2>. QED  BY <1>2, <2>1, EndsLeaves, NamingKept
<1>. QED  BY <1>1, <1>2 DEF RemovesAll

LEMMA RemoveAllKeeps == ASSUME NamingInv, NEW kind, RemoveAll(kind) PROVE NamingInv'
<1>1. QuestionOK(asked', set, nextId)
  BY AsksNothing DEF RemoveAll
<1>. QED  BY <1>1, RemovesAllKeeps DEF RemoveAll

LEMMA AnsweredKeeps ==
  ASSUME NamingInv, NoneOfThem \/ (\E n \in Numbers : PickWhichOne(n)) \/ (\E named \in Said : NameWhichOne(named))
                    \/ (\E kind \in Kinds : AllOfThem(kind))
  PROVE  NamingInv'
<1>1. QuestionOK(asked', set, nextId)
  BY NoQuestionOK DEF NoneOfThem, PickWhichOne, NameWhichOne, AllOfThem
<1>2. CASE NoneOfThem
  BY <1>1, <1>2, LeavesAll, NamingKept DEF NoneOfThem
<1>3. ASSUME NEW named, Does(named) PROVE NamingInv'
  BY <1>1, <1>3, RemovesKeeps, CompletesKeeps, SnoozesKeeps DEF Does
<1>4. ASSUME NEW kind, RemovesAll(kind) PROVE NamingInv'
  BY <1>1, <1>4, RemovesAllKeeps
<1>. QED  BY <1>2, <1>3, <1>4 DEF PickWhichOne, NameWhichOne, AllOfThem

LEMMA MomentPassesKeeps == ASSUME NamingInv, MomentPasses PROVE NamingInv'
<1>1. /\ moment < LastMoment /\ moment' = moment + 1
      /\ set' = set /\ repeats' = repeats /\ nextId' = nextId /\ asked' = asked
  BY DEF MomentPasses
<1>2. moment' \in Moments
  BY <1>1, TheSet DEF NamingInv, Moments
<1>3. QuestionOK(asked', set, nextId)
  BY <1>1 DEF NamingInv
<1>. QED  BY <1>1, <1>2, <1>3, NamingKept DEF NamingInv

\* One more is set, under a number no question has listed.
LEMMA OneMoreSet ==
  ASSUME NamingInv, nextId <= MaxSet, NEW what \in Reminder, QuestionOK(asked', set, nextId),
         moment' = moment, set' = Also(set, nextId, what), nextId' = nextId + 1, repeats' = repeats
  PROVE  NamingInv'
<1>1. nextId \in Nat /\ nextId' \in 1..(MaxSet + 1)
  BY TheSet DEF NamingInv
<1>2. DOMAIN set' = DOMAIN set \cup {nextId} /\ set'[nextId] = what
  BY DEF Also
<1>3. nextId \notin DOMAIN set /\ nextId \notin DOMAIN repeats
  BY <1>1 DEF NamingInv
<1>4. \A i \in DOMAIN set : set'[i] = set[i]
  BY <1>3 DEF Also
<1>5. DOMAIN set' \subseteq 1..(nextId' - 1) /\ DOMAIN repeats' \subseteq 1..(nextId' - 1)
  BY <1>1, <1>2 DEF NamingInv
<1>6. QuestionOK(asked', set', nextId')
  <2>1. asked'.verb \in Verbs /\ asked'.ids \in Seq(Numbers)
    BY DEF QuestionOK
  <2>2. \A i \in ToSet(asked'.ids) : i \in Numbers
    BY <2>1 DEF ToSet
  <2>3. Numbers \subseteq Nat
    BY TheSet DEF Numbers
  <2>4. \A i \in ToSet(asked'.ids) : i < nextId
    BY Zenon DEF QuestionOK
  <2>5. ASSUME NEW i \in ToSet(asked'.ids) PROVE i < nextId' /\ i # nextId
    <3>1. i \in Nat /\ i < nextId
      BY <2>2, <2>3, <2>4
    <3>. QED  BY <1>1, <3>1
  <2>. QED  BY <1>2, <1>4, <2>1, <2>5 DEF QuestionOK
<1>. QED  BY <1>1, <1>2, <1>3, <1>4, <1>5, <1>6 DEF NamingInv

LEMMA SetReminderKeeps ==
  ASSUME NamingInv, NEW about \in Subjects, NEW due \in Moments, SetReminder(about, due)
  PROVE  NamingInv'
<1>1. [about |-> about, due |-> due] \in Reminder
  BY DEF Reminder
<1>2. QuestionOK(asked', set, nextId)
  BY AsksNothing DEF SetReminder
<1>. QED  BY <1>1, <1>2, OneMoreSet DEF SetReminder

LEMMA RepeatFallsKeeps == ASSUME NamingInv, NEW j, RepeatFalls(j) PROVE NamingInv'
<1>1. [about |-> repeats[j], due |-> moment] \in Reminder
  BY DEF Reminder, RepeatFalls, NamingInv
<1>2. QuestionOK(asked', set, nextId)
  BY DEF RepeatFalls, NamingInv
<1>. QED  BY <1>1, <1>2, OneMoreSet DEF RepeatFalls

LEMMA SetRepeatingKeeps ==
  ASSUME NamingInv, NEW about \in Subjects, SetRepeating(about)
  PROVE  NamingInv'
<1>1. /\ nextId <= MaxSet /\ repeats' = Also(repeats, nextId, about) /\ nextId' = nextId + 1
      /\ moment' = moment /\ set' = set /\ QuestionOK(asked', set, nextId)
  BY AsksNothing DEF SetRepeating
<1>2. nextId \in Nat /\ nextId' \in 1..(MaxSet + 1)
  BY <1>1, TheSet DEF NamingInv
<1>3. DOMAIN repeats' = DOMAIN repeats \cup {nextId} /\ \A j \in DOMAIN repeats' : repeats'[j] \in Subjects
  BY <1>1 DEF Also, NamingInv
<1>4. nextId \notin DOMAIN set
  BY <1>2 DEF NamingInv
<1>5. DOMAIN set' \subseteq 1..(nextId' - 1) /\ DOMAIN repeats' \subseteq 1..(nextId' - 1)
  BY <1>1, <1>2, <1>3 DEF NamingInv
<1>6. QuestionOK(asked', set', nextId')
  <2>1. asked'.verb \in Verbs /\ asked'.ids \in Seq(Numbers)
    BY <1>1 DEF QuestionOK
  <2>2. \A i \in ToSet(asked'.ids) : i \in Numbers
    BY <2>1 DEF ToSet
  <2>3. Numbers \subseteq Nat
    BY TheSet DEF Numbers
  <2>4. \A i \in ToSet(asked'.ids) : i < nextId
    BY <1>1, Zenon DEF QuestionOK
  <2>5. ASSUME NEW i \in ToSet(asked'.ids) PROVE i < nextId'
    <3>1. i \in Nat /\ i < nextId
      BY <2>2, <2>3, <2>4
    <3>. QED  BY <1>1, <1>2, <3>1
  <2>. QED  BY <1>1, <2>1, <2>5 DEF QuestionOK
<1>. QED  BY <1>1, <1>2, <1>3, <1>4, <1>5, <1>6 DEF NamingInv

LEMMA NamingStep == NamingInv /\ [NamingNext]_namingvars => NamingInv'
<1>. SUFFICES ASSUME NamingInv, [NamingNext]_namingvars PROVE NamingInv'
  OBVIOUS
<1>1. CASE UNCHANGED namingvars
  BY <1>1 DEF NamingInv, namingvars, QuestionOK
<1>2. CASE MomentPasses
  BY <1>2, MomentPassesKeeps
<1>3. CASE \/ NoneOfThem \/ (\E n \in Numbers : PickWhichOne(n)) \/ (\E named \in Said : NameWhichOne(named))
          \/ (\E kind \in Kinds : AllOfThem(kind))
  BY <1>3, AnsweredKeeps
<1>4. CASE \E about \in Subjects : SetRepeating(about) \/ \E due \in Moments : SetReminder(about, due)
  BY <1>4, SetRepeatingKeeps, SetReminderKeeps
<1>5. CASE \E j \in Numbers : RepeatFalls(j)
  BY <1>5, RepeatFallsKeeps
<1>6. CASE \E kind \in Kinds : RemoveAll(kind)
  BY <1>6, RemoveAllKeeps
<1>7. CASE \E named \in Said :
             \/ ReminderDone(named) \/ ReminderRemove(named) \/ ReminderStop(named)
             \/ ReminderSnooze(named) \/ ReminderMove(named) \/ TimerExtend(named)
  BY <1>7, ReminderDoneKeeps, ReminderRemoveKeeps, ReminderStopKeeps,
     ReminderSnoozeKeeps, ReminderMoveKeeps, TimerExtendKeeps
<1>. QED  BY <1>1, <1>2, <1>3, <1>4, <1>5, <1>6, <1>7 DEF NamingNext

LEMMA NamingWellTyped == NamingInv => NamingTypeOK
<1>. SUFFICES ASSUME NamingInv PROVE NamingTypeOK
  OBVIOUS
<1>1. \A i \in DOMAIN set : set[i].about \in Subjects /\ set[i].due \in Moments
  BY DEF NamingInv, Reminder
<1>2. ToSet(asked.ids) \subseteq Numbers
  BY DEF NamingInv, QuestionOK, ToSet
<1>3. asked.verb \in {"none", "delete", "done", "snooze"}
  BY DEF NamingInv, QuestionOK, Verbs
<1>. QED  BY <1>1, <1>2, <1>3 DEF NamingInv, NamingTypeOK

-----------------------------------------------------------------------------
\* What a command acts on.
LEMMA EndsActsOn ==
  ASSUME NEW S, S \subseteq DOMAIN set, Ends(S), repeats' = repeats
  PROVE  ActedOn = S
BY DEF ActedOn, Ends, Without

LEMMA PutOffActsOn ==
  ASSUME NEW i, NEW due, PutOffTo(i, due)
  PROVE  ActedOn \subseteq {i}
BY DEF ActedOn, PutOffTo

LEMMA LeavesActsOn ==
  ASSUME LeaveAll
  PROVE  ActedOn = {}
BY DEF ActedOn, LeaveAll

OneOf(S, named) == S = {} \/ \E i : S = {i} /\ Wanted(named) \subseteq AboutOf(i).words

LEMMA OneAtMost ==
  ASSUME NEW named, NEW S, OneOf(S, named)
  PROVE  Cardinality(S) <= 1 /\ \A i \in S : Wanted(named) \subseteq AboutOf(i).words
<1>1. S = {} \/ \E i : S = {i}
  BY DEF OneOf
<1>2. Cardinality(S) = 0 \/ Cardinality(S) = 1
  BY <1>1, FS_EmptySet, FS_Singleton, Zenon
<1>. QED  BY <1>2 DEF OneOf

LEMMA FindsOneOf ==
  ASSUME NamingInv, NEW named \in Said, named.id = 0, NEW S, S \subseteq FindReminder(named).found
  PROVE  OneOf(S, named) /\ S \subseteq DOMAIN set
<1>1. FindReminder(named).found = {} \/ \E i \in DOMAIN set : FindReminder(named).found = {i} /\ Bears(i, named)
  BY Finds DEF FoundOK
<1>2. CASE FindReminder(named).found = {}
  BY <1>2 DEF OneOf
<1>3. CASE \E i \in DOMAIN set : FindReminder(named).found = {i} /\ Bears(i, named)
  <2>1. PICK i \in DOMAIN set : FindReminder(named).found = {i} /\ Bears(i, named)
    BY <1>3
  <2>2. S = {} \/ S = {i}
    BY <2>1
  <2>. QED  BY <2>1, <2>2 DEF OneOf, Bears, AboutOf
<1>. QED  BY <1>1, <1>2, <1>3

LEMMA TheFirstRings ==
  ASSUME NamingInv, NEW named, Ringing(named) # {}
  PROVE  /\ RingsFirst(named) \in Ringing(named) /\ {RingsFirst(named)} \subseteq DOMAIN set
         /\ OneOf({RingsFirst(named)}, named)
<1>1. Ringing(named) \subseteq DOMAIN set
  BY DEF Ringing
<1>2. IsFiniteSet(Ringing(named))
  BY <1>1, TheSet, FS_Subset
<1>3. RingsFirst(named) \in Ringing(named)
  BY <1>1, <1>2, TheSet, OrderedIs DEF RingsFirst
<1>4. RingsFirst(named) \in DOMAIN set /\ Bears(RingsFirst(named), named)
  BY <1>3 DEF Ringing
<1>. QED  BY <1>3, <1>4 DEF OneOf, Bears, AboutOf

LEMMA CompletesOne ==
  ASSUME NamingInv, NEW named \in Said, named.id = 0, Completes(named)
  PROVE  OneOf(ActedOn, named)
<1>1. Ends(FindReminder(named).found) /\ repeats' = repeats
  BY DEF Completes
<1>2. OneOf(FindReminder(named).found, named) /\ FindReminder(named).found \subseteq DOMAIN set
  BY FindsOneOf
<1>. QED  BY <1>1, <1>2, EndsActsOn

LEMMA RemovesOne ==
  ASSUME NamingInv, NEW named \in Said, named.id = 0, Removes(named)
  PROVE  OneOf(ActedOn, named) /\ (Ringing(named) # {} => ActedOn # {} /\ ActedOn \subseteq Ringing(named))
<1>1. CASE RemovesRinging(named)
  <2>1. ActedOn = {RingsFirst(named)}
    BY <1>1, TheFirstRings, EndsActsOn DEF RemovesRinging
  <2>. QED  BY <1>1, <2>1, TheFirstRings DEF RemovesRinging
<1>2. CASE RemovesRepeating(named)
  <2>. DEFINE j == Min(RepeatsFor(named))
  <2>1. RepeatsFor(named) \subseteq DOMAIN repeats
    BY DEF RepeatsFor
  <2>2. RepeatsFor(named) \subseteq Nat
    BY <2>1, TheSet DEF Numbers
  <2>3. j \in RepeatsFor(named)
    BY <1>2, <2>2, LeastIs DEF RemovesRepeating
  <2>. HIDE DEF j
  <2>4. ActedOn = {j}
    BY <1>2, <2>1, <2>3 DEF RemovesRepeating, ActedOn, Without, j
  <2>5. j \in DOMAIN repeats /\ ToSet(named.words) \subseteq repeats[j].words
    BY <2>3 DEF RepeatsFor
  <2>6. j \notin DOMAIN set
    BY <2>5 DEF NamingInv
  <2>7. Wanted(named) \subseteq AboutOf(j).words
    BY <2>5, <2>6 DEF Wanted, AboutOf
  <2>. QED  BY <1>2, <2>4, <2>7 DEF RemovesRepeating, OneOf
<1>3. CASE RemovesFound(named)
  BY <1>3, FindsOneOf, EndsActsOn DEF RemovesFound
<1>. QED  BY <1>1, <1>2, <1>3 DEF Removes

LEMMA SnoozesOne ==
  ASSUME NamingInv, NEW named \in Said, named.id = 0, Snoozes(named)
  PROVE  OneOf(ActedOn, named)
<1>1. CASE LeaveAll
  BY <1>1, LeavesActsOn DEF OneOf
<1>2. ASSUME NEW i \in ToSnooze(named).found, PutOffTo(i, moment + 1) PROVE OneOf(ActedOn, named)
  <2>1. ActedOn \subseteq {i}
    BY <1>2, PutOffActsOn
  <2>2. CASE named = [id |-> 0, words |-> <<>>]
    <3>1. Wanted(named) = {}
      BY <2>2 DEF Wanted, ToSet
    <3>2. ActedOn = {} \/ ActedOn = {i}
      BY <2>1
    <3>. QED  BY <3>1, <3>2 DEF OneOf
  <2>3. CASE named # [id |-> 0, words |-> <<>>]
    <3>1. ToSnooze(named) = FindReminder(named)
      BY <2>3 DEF ToSnooze
    <3>2. ActedOn \subseteq FindReminder(named).found
      BY <1>2, <2>1, <3>1
    <3>. QED  BY <3>2, FindsOneOf
  <2>. QED  BY <2>2, <2>3
<1>. QED  BY <1>1, <1>2 DEF Snoozes

LEMMA DoneActsOnOne ==
  ASSUME NamingInv, NEW named \in Said, named.id = 0, ReminderDone(named) \/ ReminderSnooze(named)
  PROVE  OneOf(ActedOn, named)
BY CompletesOne, SnoozesOne DEF ReminderDone, ReminderSnooze

LEMMA RemoveActsOnOne ==
  ASSUME NamingInv, NEW named \in Said, named.id = 0, ReminderRemove(named)
  PROVE  OneOf(ActedOn, named) /\ (Ringing(named) # {} => ActedOn # {} /\ ActedOn \subseteq Ringing(named))
<1>1. Removes(named)
  BY DEF ReminderRemove, Removes
<1>. QED  BY <1>1, RemovesOne

LEMMA NameActsOnOne ==
  ASSUME NamingInv, NEW named \in Said, named.id = 0, NameWhichOne(named)
  PROVE  /\ OneOf(ActedOn, named)
         /\ asked.verb = "delete" /\ Ringing(named) # {} => ActedOn # {} /\ ActedOn \subseteq Ringing(named)
<1>1. CASE asked.verb = "delete" /\ Removes(named)
  BY <1>1, RemovesOne
<1>2. CASE asked.verb = "done" /\ Completes(named)
  BY <1>2, CompletesOne
<1>3. CASE asked.verb = "snooze" /\ Snoozes(named)
  BY <1>3, SnoozesOne
<1>. QED  BY <1>1, <1>2, <1>3 DEF NameWhichOne, Does

LEMMA StopActsOnOne ==
  ASSUME NamingInv, NEW named \in Said, named.id = 0, ReminderStop(named)
  PROVE  OneOf(ActedOn, named) /\ (Ringing(named) # {} => ActedOn # {} /\ ActedOn \subseteq Ringing(named))
<1>. DEFINE it == IF named = [id |-> 0, words |-> <<>>] THEN Nothing ELSE FindReminder(named)
            S == {i \in it.found : "timer" \in set[i].about.words}
<1>1. repeats' = repeats /\ IF Ringing(named) # {} THEN Ends({RingsFirst(named)}) ELSE Ends(S)
  BY DEF ReminderStop
<1>2. CASE Ringing(named) # {}
  <2>1. ActedOn = {RingsFirst(named)}
    BY <1>1, <1>2, TheFirstRings, EndsActsOn
  <2>. QED  BY <1>2, <2>1, TheFirstRings
<1>3. CASE Ringing(named) = {}
  <2>1. it.found = {} \/ it.found = FindReminder(named).found
    BY DEF Nothing
  <2>2. S \subseteq it.found
    OBVIOUS
  <2>3. S \subseteq FindReminder(named).found
    BY <2>1, <2>2
  <2>. HIDE DEF S
  <2>4. ActedOn = S
    BY <1>1, <1>3, <2>3, FindsOneOf, EndsActsOn
  <2>. QED  BY <1>3, <2>3, <2>4, FindsOneOf
<1>. QED  BY <1>2, <1>3

LEMMA MoveActsOnOne ==
  ASSUME NamingInv, NEW named \in Said, named.id = 0, ReminderMove(named)
  PROVE  OneOf(ActedOn, named)
<1>1. CASE LeaveAll
  BY <1>1, LeavesActsOn DEF OneOf
<1>2. CASE \E i \in FindReminder(named).found, due \in moment..LastMoment : PutOffTo(i, due)
  <2>1. PICK i \in FindReminder(named).found, due \in moment..LastMoment : PutOffTo(i, due)
    BY <1>2
  <2>2. ActedOn \subseteq {i}
    BY <2>1, PutOffActsOn
  <2>3. ActedOn \subseteq FindReminder(named).found
    BY <2>1, <2>2
  <2>. QED  BY <2>3, FindsOneOf
<1>. QED  BY <1>1, <1>2 DEF ReminderMove

\* The two clauses of ActsOnTheNamed, of one command.
ActsAsNamed(named) ==
  /\ \/ Cardinality(ActedOn) <= 1 /\ \A i \in ActedOn : Wanted(named) \subseteq AboutOf(i).words
     \/ ~(ReminderDone(named) \/ ReminderRemove(named) \/ ReminderStop(named)
          \/ ReminderSnooze(named) \/ ReminderMove(named) \/ NameWhichOne(named))
  /\ Ringing(named) # {} =>
       \/ ActedOn # {} /\ ActedOn \subseteq Ringing(named)
       \/ ~(ReminderRemove(named) \/ ReminderStop(named) \/ (asked.verb = "delete" /\ NameWhichOne(named)))

LEMMA ActsAsItIsNamed ==
  ASSUME NamingInv, NEW named \in [id : {0}, words : Sayings]
  PROVE  ActsAsNamed(named)
<1>1. named \in Said /\ named.id = 0
  BY DEF Said
<1>2. ReminderDone(named) \/ ReminderRemove(named) \/ ReminderStop(named)
        \/ ReminderSnooze(named) \/ ReminderMove(named) \/ NameWhichOne(named) => OneOf(ActedOn, named)
  BY <1>1, DoneActsOnOne, RemoveActsOnOne, StopActsOnOne, MoveActsOnOne, NameActsOnOne
<1>3. ReminderRemove(named) \/ ReminderStop(named) \/ (asked.verb = "delete" /\ NameWhichOne(named)) =>
        (Ringing(named) # {} => ActedOn # {} /\ ActedOn \subseteq Ringing(named))
  BY <1>1, RemoveActsOnOne, StopActsOnOne, NameActsOnOne
<1>4. OneOf(ActedOn, named) =>
        Cardinality(ActedOn) <= 1 /\ \A i \in ActedOn : Wanted(named) \subseteq AboutOf(i).words
  BY OneAtMost
<1>. QED  BY <1>2, <1>3, <1>4, Zenon DEF ActsAsNamed

\* A number means the one of that number, to any command.
LEMMA NumberActsOn ==
  ASSUME NamingInv, NEW n \in Numbers, Does([id |-> n, words |-> <<>>])
  PROVE  ActedOn \subseteq {n} \cap DOMAIN set
<1>. DEFINE named == [id |-> n, words |-> <<>>]
            S == FindReminder(named).found
<1>1. named \in Said /\ named.id = n /\ n # 0
  BY TheSet DEF Said, Numbers
<1>2. S \subseteq {n} \cap DOMAIN set
  BY <1>1, Finds DEF FoundOK
<1>3. Ringing(named) = {} /\ RepeatsFor(named) = {} /\ ToSnooze(named) = FindReminder(named)
  BY <1>1 DEF Ringing, RepeatsFor, ToSnooze
<1>. HIDE DEF named
<1>4. ASSUME Ends(S), repeats' = repeats PROVE ActedOn \subseteq S
  BY <1>2, <1>4, EndsActsOn
<1>5. ASSUME Snoozes(named) PROVE ActedOn \subseteq S
  BY <1>3, <1>5, LeavesActsOn, PutOffActsOn DEF Snoozes
<1>6. ASSUME Removes(named) PROVE Ends(S) /\ repeats' = repeats
  BY <1>3, <1>6 DEF Removes, RemovesRinging, RemovesRepeating, RemovesFound
<1>7. Removes(named) \/ Completes(named) \/ Snoozes(named)
  BY DEF Does, named
<1>. QED  BY <1>2, <1>4, <1>5, <1>6, <1>7 DEF Completes

\* The two clauses of AnswersTheQuestion, of one number.
AnswersAs(n) ==
  /\ PickWhichOne(n) =>
       /\ ActedOn \subseteq {asked.ids[n]}
       /\ \A i \in ActedOn : ToSet(asked.said) \ {"last"} \subseteq AboutOf(i).words
  /\ ActedOn \subseteq {n} \/ ~NameWhichOne([id |-> n, words |-> <<>>])

LEMMA AnswersWhatWasAsked == ASSUME NamingInv, NEW n \in Numbers PROVE AnswersAs(n)
<1>1. ASSUME PickWhichOne(n)
      PROVE  /\ ActedOn \subseteq {asked.ids[n]}
             /\ \A i \in ActedOn : ToSet(asked.said) \ {"last"} \subseteq AboutOf(i).words
  <2>. DEFINE k == asked.ids[n]
  <2>1. k \in ToSet(asked.ids) /\ k \in Numbers /\ Does([id |-> k, words |-> <<>>])
    BY <1>1 DEF PickWhichOne, Chosen, ToSet, NamingInv, QuestionOK
  <2>2. k \in DOMAIN set => ToSet(asked.said) \ {"last"} \subseteq set[k].about.words
    BY <2>1 DEF NamingInv, QuestionOK
  <2>. HIDE DEF k
  <2>3. ActedOn \subseteq {k} \cap DOMAIN set
    BY <2>1, NumberActsOn
  <2>4. \A i \in ActedOn : i = k /\ ToSet(asked.said) \ {"last"} \subseteq AboutOf(i).words
    BY <2>2, <2>3 DEF AboutOf
  <2>. QED  BY <2>4 DEF k
<1>2. ASSUME NameWhichOne([id |-> n, words |-> <<>>]) PROVE ActedOn \subseteq {n}
  BY <1>2, NumberActsOn DEF NameWhichOne
<1>. QED  BY <1>1, <1>2 DEF AnswersAs

-----------------------------------------------------------------------------
\* Follow-ups: the question that was asked last is of what the conversation
\* has asked for, and of what that lacks.

LEMMA AskingIs ==
  /\ Asking = {"reminder", "timer", "alarm", "list", "fact"}
  /\ Wants["reminder"] = {"what", "when"} /\ Wants["timer"] = {"when"} /\ Wants["alarm"] = {"when"}
  /\ Wants["list"] = {"what"} /\ Wants["fact"] = {"what"}
BY DEF Asking, Wants

Open == {"about", "time", "timer", "alarm", "day", "list", "fact"}

\* What the assistant has just asked is about what is pending.
AskedOK ==
  /\ question \in {"unclear", "list"} => pending.asks = "list"
  /\ question = "unclear" => "what" \in pending.has
  /\ question = "timer" => pending.asks = "timer"
  /\ question = "fact" => pending.asks = "fact"
  /\ question \in {"alarm", "day"} => pending.asks = "alarm"
  /\ question = "day" => "day" \in pending.has
  /\ question \in {"about", "time"} =>
       /\ pending.asks = "reminder"
       /\ before.asks = "words" \/ (before.asks = "reminder" /\ before.has \subseteq pending.has)

\* A request was said in one text, and what is asked is what that text lacks.
JustSaid ==
  queries = 0 /\ pending.asks \in Asking =>
    /\ before = pending
    /\ question \in Open => ~CanBeDone(pending) /\ question = Lacks(pending)

FollowUpsInv ==
  /\ before \in Text /\ pending \in Text /\ last \in Text
  /\ question \in Open \cup {"none", "computed", "unclear"} /\ figures \in Figures /\ meant \in Figures
  /\ spoken \in 0..MaxSaid /\ queries \in 0..spoken
  /\ AskedOK /\ JustSaid /\ RepliesAreUnderstood

LEMMA NoTextIs == NoText \in Text /\ NoText.asks = "words" /\ NoText.has = {} /\ NoText.asks \notin Asking
BY AskingIs DEF NoText, Text

LEMMA FollowUpsStart == FollowUpsInit => FollowUpsInv
<1>. SUFFICES ASSUME FollowUpsInit PROVE FollowUpsInv
  OBVIOUS
<1>1. /\ before = NoText /\ question = "none" /\ figures = <<1, 1>> /\ meant = <<1, 1>>
      /\ spoken = 0 /\ pending = NoText /\ queries = 0 /\ last = NoText /\ MaxSaid \in Nat
  BY FollowUpsAssumption DEF FollowUpsInit
<1>2. AskedOK
  BY <1>1 DEF AskedOK
<1>3. JustSaid
  BY <1>1, NoTextIs DEF JustSaid
<1>4. RepliesAreUnderstood
  BY <1>1 DEF RepliesAreUnderstood, NothingIsPutInAMouth, OneQuestionIsEnough, AskedAgainOfThisAnswer
<1>5. figures \in Figures /\ meant \in Figures
  BY <1>1 DEF Figures
<1>6. spoken \in 0..MaxSaid /\ queries \in 0..spoken
  BY <1>1
<1>. QED  BY <1>1, <1>2, <1>3, <1>4, <1>5, <1>6, NoTextIs DEF FollowUpsInv

\* What is counted.
LEMMA SpokenKeeps ==
  ASSUME FollowUpsInv, spoken < MaxSaid, spoken' = spoken + 1, queries' = 0 \/ queries' = queries + 1
  PROVE  spoken' \in 0..MaxSaid /\ queries' \in 0..(spoken')
BY FollowUpsAssumption DEF FollowUpsInv

LEMMA ComputeKeeps == ASSUME FollowUpsInv, NEW f \in Figures, Compute(f) PROVE FollowUpsInv'
<1>1. /\ spoken < MaxSaid /\ spoken' = spoken + 1 /\ figures' = f /\ meant' = f /\ question' = "computed"
      /\ before' = [NoText EXCEPT !.asks = "chat"] /\ pending' = NoText /\ queries' = 0 /\ last' = NoText
  BY DEF Compute
<1>2. before' \in Text
  BY <1>1 DEF NoText, Text
<1>3. AskedOK'
  BY <1>1 DEF AskedOK
<1>4. JustSaid'
  BY <1>1, NoTextIs DEF JustSaid
<1>5. RepliesAreUnderstood'
  BY <1>1 DEF RepliesAreUnderstood, NothingIsPutInAMouth, OneQuestionIsEnough, AskedAgainOfThisAnswer
<1>. QED  BY <1>1, <1>2, <1>3, <1>4, <1>5, SpokenKeeps, NoTextIs DEF FollowUpsInv

LEMMA ComputeAgainKeeps == ASSUME FollowUpsInv, NEW i \in 1..2, NEW v \in 1..2, ComputeAgain(i, v) PROVE FollowUpsInv'
<1>1. /\ question = "computed" /\ question' = question
      /\ spoken < MaxSaid /\ spoken' = spoken + 1
      /\ figures' = [figures EXCEPT ![i] = v] /\ meant' = [meant EXCEPT ![i] = v]
      /\ before' = [NoText EXCEPT !.asks = "chat"] /\ pending' = NoText /\ queries' = 0 /\ last' = NoText
  BY DEF ComputeAgain, AskedAgain
<1>2. before' \in Text
  BY <1>1 DEF NoText, Text
<1>3. AskedOK'
  BY <1>1 DEF AskedOK
<1>4. JustSaid'
  BY <1>1, NoTextIs DEF JustSaid
<1>5. figures = meant /\ figures' = meant' /\ figures' \in Figures
  BY <1>1 DEF FollowUpsInv, RepliesAreUnderstood, AskedAgainOfThisAnswer, Figures
<1>6. RepliesAreUnderstood'
  BY <1>1, <1>5 DEF RepliesAreUnderstood, NothingIsPutInAMouth, OneQuestionIsEnough, AskedAgainOfThisAnswer
<1>. QED  BY <1>1, <1>2, <1>3, <1>4, <1>5, <1>6, SpokenKeeps, NoTextIs DEF FollowUpsInv

\* What a turn does with the request r it has come to, which is of what pends then.
LEMMA TurnEnds ==
  ASSUME FollowUpsInv, NEW t \in Text, NEW r \in Text,
         spoken < MaxSaid, spoken' = spoken + 1, before' = t, pending' \in Text, UNCHANGED <<figures, meant>>,
         queries' = IF t.asks \in Asking THEN 0 ELSE queries + 1,
         \/ CanBeDone(r) /\ last' = r /\ question' = "none"
         \/ r.asks = "list" /\ CanBeDone(r) /\ question # "unclear" /\ question' = "unclear" /\ last' = NoText
         \/ r.asks \in Asking /\ ~CanBeDone(r) /\ question' = Lacks(r) /\ last' = NoText
         \/ r.asks \notin Asking /\ question' = "none" /\ last' = NoText,
         r.asks \in Asking => pending'.asks = r.asks /\ r.has \subseteq pending'.has,
         t.asks \in Asking => r = t /\ pending' = t,
         t.asks \notin Asking => t.asks = "words" \/ CanBeDone(r) \/ r.asks \notin Asking,
         queries' = 1 /\ pending'.asks \in Asking /\ Wants[pending'.asks] \subseteq pending'.has
           => r.asks = pending'.asks /\ Wants[pending'.asks] \subseteq r.has
  PROVE  FollowUpsInv'
<1>1. question' \in Open \cup {"none", "computed", "unclear"}
  BY AskingIs DEF Lacks, Open
<1>2. last' \in Text
  BY NoTextIs
<1>3. AskedOK'
  <2>1. CASE question' = "none"
    BY <2>1 DEF AskedOK
  <2>2. CASE r.asks = "list" /\ CanBeDone(r) /\ question' = "unclear"
    BY <2>2, AskingIs DEF AskedOK, CanBeDone
  <2>3. CASE r.asks \in Asking /\ ~CanBeDone(r) /\ question' = Lacks(r)
    <3>1. pending'.asks = r.asks /\ r.has \subseteq pending'.has
      BY <2>3
    <3>2. r.asks = "reminder" => before'.asks = "words" \/ (before'.asks = "reminder" /\ before'.has \subseteq pending'.has)
      BY <2>3
    <3>3. r.asks \in {"reminder", "timer", "alarm", "list", "fact"}
      BY <2>3, AskingIs
    <3>4. question' = IF r.asks = "reminder" THEN (IF "what" \in r.has THEN "time" ELSE "about")
                      ELSE IF r.asks = "alarm" THEN (IF "day" \in r.has THEN "day" ELSE "alarm") ELSE r.asks
      BY <2>3 DEF Lacks
    <3>. QED  BY <3>1, <3>2, <3>3, <3>4 DEF AskedOK
  <2>. QED  BY <2>1, <2>2, <2>3
<1>4. JustSaid'
  <2>1. CASE t.asks \in Asking
    BY <2>1 DEF JustSaid, Open
  <2>2. CASE t.asks \notin Asking
    <3>1. queries' # 0
      BY <2>2 DEF FollowUpsInv
    <3>. QED  BY <3>1 DEF JustSaid
  <2>. QED  BY <2>1, <2>2
<1>5. NothingIsPutInAMouth'
  BY DEF NothingIsPutInAMouth, CanBeDone
<1>6. OneQuestionIsEnough'
  BY DEF OneQuestionIsEnough, CanBeDone
<1>7. AskedAgainOfThisAnswer'
  BY AskingIs DEF AskedAgainOfThisAnswer, Lacks
<1>. QED  BY <1>1, <1>2, <1>3, <1>4, <1>5, <1>6, <1>7, SpokenKeeps DEF FollowUpsInv, RepliesAreUnderstood

LEMMA SayKeeps == ASSUME FollowUpsInv, NEW t \in Texts, Say(t) PROVE FollowUpsInv'
<1>. DEFINE r == Completed(t)
<1>1. /\ spoken < MaxSaid /\ spoken' = spoken + 1 /\ before' = t /\ UNCHANGED <<figures, meant>>
      /\ queries' = IF t.asks \in Asking THEN 0 ELSE queries + 1
      /\ \/ CanBeDone(r) /\ last' = r /\ question' = "none"
         \/ r.asks = "list" /\ CanBeDone(r) /\ question # "unclear" /\ question' = "unclear" /\ last' = NoText
         \/ r.asks \in Asking /\ ~CanBeDone(r) /\ question' = Lacks(r) /\ last' = NoText
         \/ r.asks \notin Asking /\ question' = "none" /\ last' = NoText
      /\ pending' = IF t.asks \in Asking THEN t
                    ELSE IF GoesOn(t) THEN [pending EXCEPT !.has = @ \cup Taken(t)]
                    ELSE NoText
  BY DEF Say, Pends
<1>2. t \in Text /\ before \in Text /\ pending \in Text /\ AskedOK /\ JustSaid /\ queries \in Nat
  BY FollowUpsAssumption DEF Texts, FollowUpsInv
<1>3. t.asks \in Asking \cup {"words", "yes", "no", "chat"} /\ t.has \subseteq Pieces /\ "words" \notin Asking /\ Taken(t) \subseteq Pieces
  BY <1>2, AskingIs DEF Text, Taken, Pieces
<1>. HIDE DEF r
<1>4. CASE t.asks \in Asking
  <2>1. r = t
    BY <1>4, AskingIs DEF r, Completed, AnswersUnclear, AnswersNothing
  <2>2. pending' = t /\ queries' = 0
    BY <1>1, <1>4
  <2>. QED  BY <1>1, <1>2, <1>4, <2>1, <2>2, TurnEnds
<1>5. CASE t.asks \notin Asking /\ ~GoesOn(t)
  <2>1. r = t
    BY <1>3, <1>5 DEF r, Completed, AnswersNothing, GoesOn
  <2>2. pending' = NoText
    BY <1>1, <1>5
  <2>. QED  BY <1>1, <1>2, <1>5, <2>1, <2>2, NoTextIs, TurnEnds
<1>6. ASSUME t.asks \notin Asking, GoesOn(t) PROVE FollowUpsInv'
  <2>1. pending' = [pending EXCEPT !.has = @ \cup Taken(t)] /\ queries' = queries + 1
    BY <1>1, <1>6
  <2>2. pending' \in Text /\ pending'.asks = pending.asks /\ pending'.has = pending.has \cup Taken(t) /\ t.has \subseteq Taken(t)
    BY <1>2, <1>3, <2>1 DEF Text, Taken
  <2>3. queries' = 1 => queries = 0
    BY <1>2, <2>1
  <2>4. CASE question = "unclear"
    <3>1. r = [asks |-> "list", has |-> {"what"}]
      BY <1>6, <2>4 DEF r, Completed, GoesOn
    <3>2. r \in Text /\ CanBeDone(r) /\ r.asks = "list" /\ r.has = {"what"}
      BY <3>1, AskingIs DEF Text, CanBeDone, Pieces
    <3>3. pending.asks = "list" /\ "what" \in pending.has
      BY <1>2, <2>4 DEF AskedOK
    <3>. QED  BY <1>1, <1>2, <1>6, <2>2, <3>2, <3>3, AskingIs, TurnEnds
  <2>5. CASE question # "unclear"
    <3>1. t.asks = "words" /\ question \notin {"none", "computed"}
      BY <1>6, <2>5 DEF GoesOn
    <3>2. question \in Open
      BY <2>5, <3>1 DEF FollowUpsInv
    <3>3. r = CASE question = "timer" /\ "when" \in t.has -> [asks |-> "timer", has |-> {"when"}]
                [] question = "alarm" -> [asks |-> "alarm", has |-> t.has]
                [] question = "day" -> [asks |-> "alarm", has |-> t.has \cup {"day"}]
                [] question = "list" -> [asks |-> "list", has |-> Taken(t)]
                [] question = "about" /\ before # NoText -> [before EXCEPT !.has = @ \cup t.has]
                [] question = "time" /\ before # NoText /\ "when" \in t.has -> [before EXCEPT !.has = @ \cup t.has]
                [] question = "fact" -> [asks |-> "fact", has |-> Taken(t)]
                [] OTHER -> t
      BY <2>5, <3>1 DEF r, Completed, AnswersNothing
    <3>4. t \in Text /\ t.asks = "words" /\ "words" \notin Asking /\ t.has \subseteq Taken(t)
      BY <1>2, <1>3, <2>2, <3>1
    <3>5. ASSUME queries = 0, pending.asks \in Asking
          PROVE  before = pending /\ before # NoText /\ question = Lacks(pending) /\ ~(Wants[pending.asks] \subseteq pending.has)
      BY <1>2, <3>2, <3>5, NoTextIs DEF JustSaid, CanBeDone
    \* What is said now goes with what pends, or is of no kind; and if the request was all
    \* said in one text, and this is what it lacked, it is whole.
    <3>6. /\ r \in Text
          /\ r.asks \in Asking => r.asks = pending.asks /\ r.has \subseteq pending.has \cup Taken(t)
          /\ queries = 0 /\ pending.asks \in Asking /\ Wants[pending.asks] \subseteq pending.has \cup Taken(t)
               => r.asks = pending.asks /\ Wants[pending.asks] \subseteq r.has
      <4>1. CASE question = "timer"
        <5>1. pending.asks = "timer" /\ Taken(t) = t.has
          BY <1>2, <4>1 DEF AskedOK, Taken
        <5>2. r = IF "when" \in t.has THEN [asks |-> "timer", has |-> {"when"}] ELSE t
          BY <3>3, <4>1
        <5>. QED  BY <3>4, <3>5, <5>1, <5>2, AskingIs DEF Text, Pieces
      <4>2. CASE question \in {"alarm", "day"}
        <5>1. pending.asks = "alarm" /\ Taken(t) = t.has /\ (question = "day" => "day" \in pending.has)
          BY <1>2, <4>2 DEF AskedOK, Taken
        <5>2. r = [asks |-> "alarm", has |-> IF question = "day" THEN t.has \cup {"day"} ELSE t.has]
          BY <3>3, <4>2
        <5>. QED  BY <3>4, <3>5, <5>1, <5>2, AskingIs DEF Text, Pieces
      <4>3. CASE question \in {"list", "fact"}
        <5>1. pending.asks = question /\ "what" \in Taken(t)
          BY <1>2, <4>3 DEF AskedOK, Taken
        <5>2. r = [asks |-> question, has |-> Taken(t)]
          BY <3>3, <4>3
        <5>3. r \in Text /\ r.asks = pending.asks /\ r.has = Taken(t)
          BY <1>3, <4>3, <5>1, <5>2, AskingIs DEF Text
        <5>4. Wants[pending.asks] = {"what"}
          BY <4>3, <5>1, AskingIs
        <5>. QED  BY <5>1, <5>3, <5>4
      <4>4. CASE question \in {"about", "time"}
        <5>1. /\ pending.asks = "reminder" /\ Taken(t) = t.has
              /\ before.asks = "words" \/ (before.asks = "reminder" /\ before.has \subseteq pending.has)
          BY <1>2, <4>4 DEF AskedOK, Taken
        <5>2. r = [before EXCEPT !.has = @ \cup t.has] \/ r = t
          BY <3>3, <4>4
        <5>3. r \in Text /\ (r.asks \in Asking => r.asks = pending.asks /\ r.has \subseteq pending.has \cup Taken(t))
          <6>1. [before EXCEPT !.has = @ \cup t.has] \in Text
            BY <1>2, <3>4 DEF Text
          <6>2. /\ [before EXCEPT !.has = @ \cup t.has].asks = before.asks
                /\ [before EXCEPT !.has = @ \cup t.has].has = before.has \cup t.has
            BY <1>2 DEF Text
          <6>. QED  BY <3>4, <5>1, <5>2, <6>1, <6>2
        <5>4. ASSUME queries = 0, pending.asks \in Asking, Wants[pending.asks] \subseteq pending.has \cup Taken(t)
              PROVE  r.asks = pending.asks /\ Wants[pending.asks] \subseteq r.has
          <6>1. before = pending /\ before # NoText /\ question = Lacks(pending)
            BY <3>5, <5>4
          <6>2. question = "time" => "when" \in t.has
            BY <5>1, <5>4, <6>1, <3>5, AskingIs DEF Lacks
          <6>3. r = [before EXCEPT !.has = @ \cup t.has]
            BY <3>3, <4>4, <6>1, <6>2
          <6>4. r.asks = before.asks /\ r.has = before.has \cup t.has
            BY <1>2, <6>3 DEF Text
          <6>. QED  BY <5>1, <5>4, <6>1, <6>4
        <5>. QED  BY <5>3, <5>4
      <4>. QED  BY <3>2, <4>1, <4>2, <4>3, <4>4 DEF Open
    <3>. QED  BY <1>1, <1>2, <1>6, <2>2, <2>3, <3>1, <3>6, TurnEnds
  <2>. QED  BY <2>4, <2>5
<1>. QED  BY <1>4, <1>5, <1>6

LEMMA FollowUpsStep == FollowUpsInv /\ [FollowUpsNext]_followvars => FollowUpsInv'
<1>. SUFFICES ASSUME FollowUpsInv, [FollowUpsNext]_followvars PROVE FollowUpsInv'
  OBVIOUS
<1>1. CASE UNCHANGED followvars
  BY <1>1 DEF followvars, FollowUpsInv, AskedOK, JustSaid, RepliesAreUnderstood, NothingIsPutInAMouth,
       OneQuestionIsEnough, AskedAgainOfThisAnswer, CanBeDone, Lacks
<1>. QED  BY <1>1, SayKeeps, ComputeKeeps, ComputeAgainKeeps DEF FollowUpsNext

LEMMA FollowUpsWellTyped == FollowUpsInv => FollowUpsTypeOK
BY FollowUpsAssumption DEF FollowUpsInv, FollowUpsTypeOK, Questions, Open

-----------------------------------------------------------------------------
\* Forms: the types.

LEMMA TakersAreRules == \A t : Takers(t) \subseteq ToSet(Rules)
<1>1. \A t : Claiming(t) \subseteq DOMAIN Rules
  BY DEF Claiming
<1>2. \A t : \A r \in Takers(t) : \E i \in Claiming(t) : r = Rules[i]
  BY DEF Takers
<1>. QED  BY <1>1, <1>2 DEF ToSet

LEMMA FormsStart == FormsInit => FormsTypeOK
BY Zenon DEF FormsInit, FormsTypeOK

Hearing == {"user", "router", "autopilot", "heard", "answered"}
Ways == {"", "typed", "planned", "autopilot"}
Replied == {"", "refused", "unavailable", "blocked", "unrecognised"}

LEMMA FormWords ==
  /\ {"user", "router", "autopilot", "heard", "answered"} \subseteq Hearing
  /\ {"", "typed", "planned", "autopilot"} \subseteq Ways
  /\ {"", "refused", "unavailable", "blocked", "unrecognised"} \subseteq Replied
BY Zenon DEF Hearing, Ways, Replied

FormsOK ==
  /\ speaker \in {"owner", "personal"} /\ turnOf \in Hearing /\ via \in Ways /\ line \in Lines \cup {<<>>}
  /\ taker = NoRule \/ taker \in ToSet(Rules)
  /\ reply \in Replied

LEMMA HearsKeeps ==
  ASSUME FormsOK, NEW t \in Lines, NEW from \in Ways, NEW who \in {"owner", "personal"}, Hears(t, from, who)
  PROVE  FormsOK'
BY FormWords DEF FormsOK, Hears

LEMMA AnswerKeeps ==
  ASSUME FormsOK, NEW r, r = NoRule \/ r \in ToSet(Rules), NEW why \in Replied, Answer(r, why)
  PROVE  FormsOK'
BY FormWords DEF FormsOK, Answer

LEMMA ToRouterKeeps == ASSUME FormsOK, ToRouter PROVE FormsOK'
BY FormWords, Zenon DEF FormsOK, ToRouter

LEMMA FormsKept == FormsOK /\ [FormsNext]_formvars => FormsOK'
<1>. SUFFICES ASSUME FormsOK, [FormsNext]_formvars PROVE FormsOK'
  OBVIOUS
<1>1. CASE UNCHANGED formvars
  BY <1>1 DEF FormsOK, formvars
<1>2. CASE Says
  <2>1. PICK t \in Lines, who \in {"owner", "personal"} : Hears(t, "typed", who)
    BY <1>2 DEF Says
  <2>. QED  BY <2>1, FormWords, HearsKeeps
<1>3. CASE Plans
  BY <1>3, FormWords, HearsKeeps DEF Plans, FormsOK
<1>4. CASE AutopilotSteps
  BY <1>4, FormWords, HearsKeeps DEF AutopilotSteps, FormsOK
<1>5. CASE GoesNoFurther
  BY <1>5, FormWords DEF GoesNoFurther, FormsOK
<1>6. CASE Done
  BY <1>6, FormWords, Zenon DEF Done, FormsOK
<1>7. CASE Blocked
  BY <1>7, FormWords, AnswerKeeps DEF Blocked
<1>8. CASE ReadAsProse
  BY <1>8, ToRouterKeeps DEF ReadAsProse
<1>9. CASE Refuse
  BY <1>9, FormWords, AnswerKeeps DEF Refuse
<1>10. CASE NotEveryday
  BY <1>10, FormWords, AnswerKeeps, ToRouterKeeps DEF NotEveryday
<1>11. CASE Dispatched
  <2>1. PICK r \in Takers(line) : Answer(r, "")
    BY <1>11 DEF Dispatched
  <2>2. "" \in Replied
    BY FormWords
  <2>. QED  BY <2>1, <2>2, TakersAreRules, AnswerKeeps, Zenon
<1>12. CASE Unclaimed
  BY <1>12, FormWords, AnswerKeeps, ToRouterKeeps DEF Unclaimed
<1>. QED  BY <1>1, <1>2, <1>3, <1>4, <1>5, <1>6, <1>7, <1>8, <1>9, <1>10, <1>11, <1>12 DEF FormsNext

LEMMA FormsWellTyped == FormsOK <=> FormsTypeOK
BY Zenon DEF FormsOK, FormsTypeOK, Hearing, Ways, Replied

-----------------------------------------------------------------------------
\* Records: the ring of a process ends with what it noted, the file is the
\* newest that were ever in it while one process writes it; a line of the
\* log is from one turn.

KeepStep(q, S, r, n) == IF q[n] \in S THEN Append(r, q[n]) ELSE r

\* The function of Keeping, after each element.
KeptUpTo(f, D, q, S) ==
  /\ f \in [0..Len(q) -> Seq(D)] /\ f[0] = <<>>
  /\ \A n \in 1..Len(q) : f[n] = KeepStep(q, S, f[n - 1], n)

LEMMA KeepingIs ==
  ASSUME NEW D, NEW q \in Seq(D), NEW S
  PROVE  \E f : KeptUpTo(f, D, q, S) /\ Keeping(q, S) = f[Len(q)]
<1>. DEFINE R(f) == [n \in 0..Len(q) |-> IF n = 0 THEN <<>> ELSE IF q[n] \in S THEN Append(f[n - 1], q[n]) ELSE f[n - 1]]
            G(n, g) == g[0] = <<>> /\ \A i \in 1..n : g[i] = KeepStep(q, S, g[i - 1], i)
            T == {n \in Nat : n <= Len(q) => \E g \in [0..n -> Seq(D)] : G(n, g)}
<1>1. Len(q) \in Nat /\ \A i \in 1..Len(q) : q[i] \in D
  OBVIOUS
<1>2. 0 \in T
  <2>1. [i \in 0..0 |-> <<>>] \in [0..0 -> Seq(D)] /\ G(0, [i \in 0..0 |-> <<>>])
    OBVIOUS
  <2>. QED  BY <2>1
<1>3. ASSUME NEW n \in Nat, n \in T, n + 1 <= Len(q) PROVE \E g \in [0..(n + 1) -> Seq(D)] : G(n + 1, g)
  <2>1. n <= Len(q)
    BY <1>1, <1>3
  <2>2. PICK g \in [0..n -> Seq(D)] : G(n, g)
    BY <1>3, <2>1, Zenon
  <2>. DEFINE h == [i \in 0..(n + 1) |-> IF i = n + 1 THEN KeepStep(q, S, g[n], n + 1) ELSE g[i]]
  <2>3. KeepStep(q, S, g[n], n + 1) \in Seq(D)
    BY <1>1, <1>3, <2>2, AppendProperties DEF KeepStep
  <2>4. h \in [0..(n + 1) -> Seq(D)]
    BY <2>2, <2>3
  <2>5. h[n + 1] = KeepStep(q, S, g[n], n + 1) /\ \A i \in 0..n : h[i] = g[i]
    OBVIOUS
  <2>. HIDE DEF h
  <2>6. h[0] = <<>>
    BY <2>2, <2>5
  <2>7. ASSUME NEW i \in 1..(n + 1) PROVE h[i] = KeepStep(q, S, h[i - 1], i)
    <3>1. CASE i = n + 1
      <4>1. i - 1 = n /\ h[n] = g[n]
        BY <2>5, <3>1
      <4>. QED  BY <2>5, <3>1, <4>1
    <3>2. CASE i # n + 1
      <4>1. i \in 1..n /\ h[i] = g[i] /\ h[i - 1] = g[i - 1]
        BY <2>5, <3>2
      <4>. QED  BY <2>2, <4>1
    <3>. QED  BY <3>1, <3>2
  <2>. QED  BY <2>4, <2>6, <2>7
<1>4. PICK g \in [0..Len(q) -> Seq(D)] : G(Len(q), g)
  <2>1. ASSUME NEW n \in Nat, n \in T PROVE n + 1 \in T
    <3>1. n + 1 \in Nat
      OBVIOUS
    <3>2. n + 1 <= Len(q) => \E g \in [0..(n + 1) -> Seq(D)] : G(n + 1, g)
      BY <1>3, <2>1
    <3>. QED  BY <3>1, <3>2
  <2>2. Nat \subseteq T
    <3>. HIDE DEF T
    <3>. QED  BY <1>2, <2>1, CountedUp
  <2>3. Len(q) \in T /\ Len(q) <= Len(q)
    <3>. HIDE DEF T
    <3>. QED  BY <1>1, <2>2
  <2>. QED  BY <2>3, Zenon
<1>5. \A k : [n \in 0..Len(q) |-> IF n = 0 THEN <<>> ELSE KeepStep(q, S, k[n - 1], n)] = R(k)
  BY Zenon DEF KeepStep
<1>6. g = R(g)
  <2>1. g = [n \in 0..Len(q) |-> IF n = 0 THEN <<>> ELSE KeepStep(q, S, g[n - 1], n)]
    BY <1>1, <1>4
  <2>. QED  BY <1>5, <2>1
<1>. DEFINE f == CHOOSE k : k = R(k)
<1>7. f = R(f)
  BY <1>6, Zenon
<1>8. Keeping(q, S) = f[Len(q)]
  BY Zenon DEF Keeping
<1>9. f = [n \in 0..Len(q) |-> IF n = 0 THEN <<>> ELSE KeepStep(q, S, f[n - 1], n)]
  BY <1>5, <1>7, Zenon
<1>. HIDE DEF f
<1>10. f[0] = <<>> /\ \A n \in 1..Len(q) : f[n] = KeepStep(q, S, f[n - 1], n)
  BY <1>1, <1>9
<1>11. f = g
  <2>. DEFINE U == {n \in Nat : n <= Len(q) => f[n] = g[n]}
  <2>1. 0 \in U
    BY <1>4, <1>10
  <2>2. ASSUME NEW n \in Nat, n \in U PROVE n + 1 \in U
    <3>. SUFFICES ASSUME n + 1 <= Len(q) PROVE f[n + 1] = g[n + 1]
      OBVIOUS
    <3>1. n + 1 \in 1..Len(q) /\ (n + 1) - 1 = n /\ f[n] = g[n]
      BY <1>1, <2>2
    <3>. QED  BY <1>4, <1>10, <3>1
  <2>3. Nat \subseteq U
    <3>. HIDE DEF U
    <3>. QED  BY <2>1, <2>2, CountedUp
  <2>4. f = [n \in 0..Len(q) |-> f[n]]
    BY <1>9
  <2>5. \A n \in 0..Len(q) : f[n] = g[n]
    BY <1>1, <2>3
  <2>. QED  BY <2>4, <2>5
<1>. QED  BY <1>4, <1>8, <1>10, <1>11 DEF KeptUpTo

\* h tells where in the first n of q each element of r is from: r is what is in S of them, in their order.
KeptBy(h, r, q, n, S) ==
  /\ h \in [1..Len(r) -> 1..n]
  /\ \A i \in 1..Len(r) : r[i] = q[h[i]] /\ q[h[i]] \in S
  /\ \A i, j \in 1..Len(r) : i < j => h[i] < h[j]
  /\ \A k \in 1..n : q[k] \in S => \E i \in 1..Len(r) : h[i] = k

LEMMA KeptOneMore ==
  ASSUME NEW D, NEW q \in Seq(D), NEW S, NEW n \in Nat, n + 1 <= Len(q), NEW r \in Seq(D), NEW h, KeptBy(h, r, q, n, S)
  PROVE  \E g : KeptBy(g, KeepStep(q, S, r, n + 1), q, n + 1, S)
<1>1. Len(q) \in Nat /\ Len(r) \in Nat /\ n + 1 \in 1..Len(q) /\ q[n + 1] \in D
  OBVIOUS
<1>2. /\ h \in [1..Len(r) -> 1..n]
      /\ \A i \in 1..Len(r) : r[i] = q[h[i]] /\ q[h[i]] \in S
      /\ \A i, j \in 1..Len(r) : i < j => h[i] < h[j]
      /\ \A k \in 1..n : q[k] \in S => \E i \in 1..Len(r) : h[i] = k
  BY DEF KeptBy
<1>3. CASE q[n + 1] \notin S
  <2>1. KeepStep(q, S, r, n + 1) = r
    BY <1>3 DEF KeepStep
  <2>2. h \in [1..Len(r) -> 1..(n + 1)]
    BY <1>2
  <2>3. \A k \in 1..(n + 1) : q[k] \in S => \E i \in 1..Len(r) : h[i] = k
    <3>1. \A k \in 1..(n + 1) : k = n + 1 \/ k \in 1..n
      OBVIOUS
    <3>. QED  BY <1>2, <1>3, <3>1
  <2>4. KeptBy(h, r, q, n + 1, S)
    BY <1>2, <2>2, <2>3 DEF KeptBy
  <2>. QED  BY <2>1, <2>4
<1>4. CASE q[n + 1] \in S
  <2>. DEFINE s == Append(r, q[n + 1])
              m == Len(r) + 1
              g == [i \in 1..m |-> IF i = m THEN n + 1 ELSE h[i]]
  <2>1. KeepStep(q, S, r, n + 1) = s
    BY <1>4 DEF KeepStep
  <2>2. m \in Nat /\ Len(r) = m - 1 /\ m \in 1..m /\ \A i \in 1..m : i = m \/ i \in 1..Len(r)
    BY <1>1
  <2>3. Len(s) = m /\ s[m] = q[n + 1] /\ \A i \in 1..Len(r) : s[i] = r[i]
    BY <1>1, AppendProperties
  <2>4. \A i \in 1..Len(r) : i \in 1..m /\ i # m /\ i < m
    BY <1>1
  <2>5. g[m] = n + 1 /\ \A i \in 1..Len(r) : g[i] = h[i] /\ h[i] \in 1..n
    <3>1. \A i \in 1..Len(r) : h[i] \in 1..n
      BY <1>2
    <3>. HIDE DEF m
    <3>. QED  BY <2>2, <2>4, <3>1
  <2>. HIDE DEF m, s
  <2>6. g \in [1..m -> 1..(n + 1)]
    <3>1. \A i \in 1..Len(r) : h[i] \in 1..(n + 1)
      BY <1>2
    <3>. QED  BY <2>2, <3>1
  <2>. HIDE DEF g
  <2>7. ASSUME NEW i \in 1..m PROVE s[i] = q[g[i]] /\ q[g[i]] \in S
    <3>1. CASE i = m
      BY <1>4, <2>3, <2>5, <3>1
    <3>2. CASE i \in 1..Len(r)
      BY <1>2, <2>3, <2>5, <3>2
    <3>. QED  BY <2>2, <3>1, <3>2
  <2>8. ASSUME NEW i \in 1..m, NEW j \in 1..m, i < j PROVE g[i] < g[j]
    <3>1. i \in 1..Len(r)
      BY <2>2, <2>8
    <3>2. CASE j = m
      BY <2>5, <3>1, <3>2
    <3>3. CASE j \in 1..Len(r)
      BY <1>2, <2>5, <2>8, <3>1, <3>3
    <3>. QED  BY <2>2, <3>2, <3>3
  <2>9. ASSUME NEW k \in 1..(n + 1), q[k] \in S PROVE \E i \in 1..m : g[i] = k
    <3>1. CASE k = n + 1
      BY <2>2, <2>5, <3>1
    <3>2. CASE k \in 1..n
      <4>1. PICK i \in 1..Len(r) : h[i] = k
        BY <1>2, <2>9, <3>2
      <4>2. i \in 1..m /\ g[i] = k
        BY <2>4, <2>5, <4>1
      <4>. QED  BY <4>2
    <3>. QED  BY <3>1, <3>2
  <2>10. KeptBy(g, s, q, n + 1, S)
    BY <2>3, <2>6, <2>7, <2>8, <2>9 DEF KeptBy
  <2>. QED  BY <2>1, <2>10
<1>. QED  BY <1>3, <1>4

LEMMA KeepingKeeps ==
  ASSUME NEW D, NEW q \in Seq(D), NEW S
  PROVE  Keeping(q, S) \in Seq(D) /\ \E h : KeptBy(h, Keeping(q, S), q, Len(q), S)
<1>0. PICK f : KeptUpTo(f, D, q, S) /\ Keeping(q, S) = f[Len(q)]
  BY KeepingIs
<1>1. f \in [0..Len(q) -> Seq(D)] /\ f[0] = <<>> /\ \A n \in 1..Len(q) : f[n] = KeepStep(q, S, f[n - 1], n)
  BY <1>0 DEF KeptUpTo
<1>2. Len(q) \in Nat
  OBVIOUS
<1>. DEFINE T == {n \in Nat : n <= Len(q) => \E h : KeptBy(h, f[n], q, n, S)}
<1>3. 0 \in T
  <2>1. KeptBy([i \in 1..0 |-> 0], f[0], q, 0, S)
    BY <1>1 DEF KeptBy
  <2>. QED  BY <2>1
<1>4. ASSUME NEW n \in Nat, n \in T PROVE n + 1 \in T
  <2>. SUFFICES ASSUME n + 1 <= Len(q) PROVE \E h : KeptBy(h, f[n + 1], q, n + 1, S)
    OBVIOUS
  <2>1. n <= Len(q) /\ n + 1 \in 1..Len(q) /\ (n + 1) - 1 = n /\ n \in 0..Len(q)
    BY <1>2
  <2>2. PICK h : KeptBy(h, f[n], q, n, S)
    BY <1>4, <2>1
  <2>3. f[n] \in Seq(D) /\ f[n + 1] = KeepStep(q, S, f[n], n + 1)
    BY <1>1, <2>1
  <2>. QED  BY <2>2, <2>3, KeptOneMore
<1>5. Len(q) \in T
  <2>1. Nat \subseteq T
    <3>. HIDE DEF T
    <3>. QED  BY <1>3, <1>4, CountedUp
  <2>. QED  BY <1>2, <2>1
<1>6. \E h : KeptBy(h, f[Len(q)], q, Len(q), S)
  BY <1>2, <1>5
<1>7. f[Len(q)] \in Seq(D)
  BY <1>1, <1>2
<1>. QED  BY <1>0, <1>6, <1>7

-----------------------------------------------------------------------------
\* Failures

Distinct(q) == \A i, j \in 1..Len(q) : q[i] = q[j] => i = j
Rising(q) == \A i, j \in 1..Len(q) : i < j => q[i] < q[j]
Has(q, x) == \E i \in 1..Len(q) : q[i] = x

\* What of S is not in q is below all of it, and q is full.
Covers(q, S) ==
  \A id \in S : Has(q, id) \/ (Len(q) >= KeptFailures /\ \A i \in 1..Len(q) : id < q[i])

LEMMA KeptDistinct ==
  ASSUME NEW D, NEW q \in Seq(D), NEW S, \A i, j \in 1..Len(q) : q[i] = q[j] /\ q[i] \in S => i = j
  PROVE  Distinct(Keeping(q, S))
<1>1. PICK h : KeptBy(h, Keeping(q, S), q, Len(q), S)
  BY KeepingKeeps
<1>2. Len(Keeping(q, S)) \in Nat /\ Len(q) \in Nat
  BY KeepingKeeps, LenProperties
<1>. DEFINE r == Keeping(q, S)
<1>3. /\ h \in [1..Len(r) -> 1..Len(q)]
      /\ \A i \in 1..Len(r) : r[i] = q[h[i]] /\ q[h[i]] \in S
      /\ \A i, j \in 1..Len(r) : i < j => h[i] < h[j]
  BY <1>1 DEF KeptBy
<1>. HIDE DEF r
<1>4. ASSUME NEW i \in 1..Len(r), NEW j \in 1..Len(r), r[i] = r[j] PROVE i = j
  <2>1. h[i] \in 1..Len(q) /\ h[j] \in 1..Len(q) /\ h[i] = h[j]
    BY <1>3, <1>4
  <2>2. ~(i < j) /\ ~(j < i)
    BY <1>2, <1>3, <2>1
  <2>. QED  BY <1>2, <2>2
<1>. QED  BY <1>4 DEF Distinct, r

LEMMA KeptRising ==
  ASSUME NEW D, NEW q \in Seq(D), NEW S, Rising(q)
  PROVE  Rising(Keeping(q, S))
<1>1. PICK h : KeptBy(h, Keeping(q, S), q, Len(q), S)
  BY KeepingKeeps
<1>. QED  BY <1>1 DEF KeptBy, Rising

LEMMA KeptHas ==
  ASSUME NEW D, NEW q \in Seq(D), NEW S
  PROVE  /\ \A i \in 1..Len(Keeping(q, S)) : Keeping(q, S)[i] \in S /\ Has(q, Keeping(q, S)[i])
         /\ \A x \in S : Has(q, x) => Has(Keeping(q, S), x)
<1>1. PICK h : KeptBy(h, Keeping(q, S), q, Len(q), S)
  BY KeepingKeeps
<1>. DEFINE r == Keeping(q, S)
<1>3. /\ h \in [1..Len(r) -> 1..Len(q)]
      /\ \A i \in 1..Len(r) : r[i] = q[h[i]] /\ q[h[i]] \in S
      /\ \A k \in 1..Len(q) : q[k] \in S => \E i \in 1..Len(r) : h[i] = k
  BY <1>1 DEF KeptBy
<1>. HIDE DEF r
<1>4. \A i \in 1..Len(r) : r[i] \in S /\ Has(q, r[i])
  BY <1>3 DEF Has
<1>5. \A x \in S : Has(q, x) => Has(r, x)
  BY <1>3 DEF Has
<1>. QED  BY <1>4, <1>5 DEF r

\* The last n of q are q itself, or n of it.
LEMMA LastOfIs ==
  ASSUME NEW D, NEW q \in Seq(D), NEW n \in Nat \ {0}
  PROVE  \E k \in Nat : /\ LastOf(q, n) \in Seq(D) /\ Len(LastOf(q, n)) = Len(q) - k
                        /\ \A i \in 1..(Len(q) - k) : LastOf(q, n)[i] = q[k + i]
                        /\ k <= Len(q) /\ Len(q) - k <= n /\ (k = 0 \/ Len(q) - k = n)
<1>. DEFINE k == IF Len(q) > n THEN Len(q) - n ELSE 0
<1>1. Len(q) \in Nat /\ k \in Nat /\ k <= Len(q) /\ Len(q) - k <= n /\ (k = 0 \/ Len(q) - k = n)
  OBVIOUS
<1>2. LastOf(q, n) = SubSeq(q, k + 1, Len(q))
  BY DEF LastOf
<1>. HIDE DEF k
<1>3. \A i \in (k + 1)..Len(q) : q[i] \in D
  BY <1>1
<1>4. /\ SubSeq(q, k + 1, Len(q)) \in Seq(D) /\ Len(SubSeq(q, k + 1, Len(q))) = Len(q) - k
      /\ \A i \in 1..(Len(q) - k) : SubSeq(q, k + 1, Len(q))[i] = q[k + i]
  BY <1>1, <1>3
<1>. QED  BY <1>1, <1>2, <1>4

LEMMA NumbersOf ==
  ASSUME NEW D \in SUBSET Nat, NEW q \in Seq(D)
  PROVE  \A i \in 1..Len(q) : q[i] \in D /\ q[i] \in Nat
<1>1. \A i \in 1..Len(q) : q[i] \in D
  OBVIOUS
<1>. QED  BY <1>1

\* The last of a sequence keep its order and what it has once.
LEMMA LastKeeps ==
  ASSUME NEW D \in SUBSET Nat, NEW q \in Seq(D)
  PROVE  /\ LastOf(q, KeptFailures) \in Seq(D) /\ Len(LastOf(q, KeptFailures)) <= KeptFailures
         /\ \A i \in 1..Len(LastOf(q, KeptFailures)) : Has(q, LastOf(q, KeptFailures)[i])
         /\ Distinct(q) => Distinct(LastOf(q, KeptFailures))
         /\ Rising(q) => Rising(LastOf(q, KeptFailures))
         /\ \A S \in SUBSET Nat : Rising(q) /\ Covers(q, S) => Covers(LastOf(q, KeptFailures), S)
<1>. DEFINE r == LastOf(q, KeptFailures)
<1>1. KeptFailures \in Nat \ {0}
  BY RecordsAssumption
<1>2. PICK k \in Nat : /\ r \in Seq(D) /\ Len(r) = Len(q) - k
                       /\ \A i \in 1..(Len(q) - k) : r[i] = q[k + i]
                       /\ k <= Len(q) /\ Len(q) - k <= KeptFailures /\ (k = 0 \/ Len(q) - k = KeptFailures)
  BY <1>1, LastOfIs
<1>3. Len(q) \in Nat /\ Len(r) \in Nat /\ Len(r) <= KeptFailures
  BY <1>1, <1>2
<1>. HIDE DEF r
<1>4. \A i \in 1..Len(r) : k + i \in 1..Len(q) /\ r[i] = q[k + i]
  BY <1>2, <1>3
<1>5. \A i \in 1..Len(r) : Has(q, r[i])
  BY <1>4 DEF Has
<1>6. Distinct(q) => Distinct(r)
  <2>. SUFFICES ASSUME Distinct(q), NEW i \in 1..Len(r), NEW j \in 1..Len(r), r[i] = r[j] PROVE i = j
    BY DEF Distinct
  <2>1. k + i = k + j
    BY <1>4 DEF Distinct
  <2>. QED  BY <1>2, <1>3, <2>1
<1>7. Rising(q) => Rising(r)
  <2>. SUFFICES ASSUME Rising(q), NEW i \in 1..Len(r), NEW j \in 1..Len(r), i < j PROVE r[i] < r[j]
    BY DEF Rising
  <2>1. k + i < k + j
    BY <1>2, <1>3
  <2>. QED  BY <1>4, <2>1 DEF Rising
<1>8. ASSUME NEW S \in SUBSET Nat, Rising(q), Covers(q, S), NEW id \in S
      PROVE  Has(r, id) \/ (Len(r) >= KeptFailures /\ \A i \in 1..Len(r) : id < r[i])
  <2>1. CASE Has(q, id)
    <3>1. PICK j \in 1..Len(q) : q[j] = id
      BY <2>1 DEF Has
    <3>2. CASE j > k
      <4>1. j - k \in 1..Len(r) /\ k + (j - k) = j
        BY <1>2, <1>3, <3>2
      <4>2. r[j - k] = id
        BY <1>4, <3>1, <4>1
      <4>. QED  BY <4>1, <4>2 DEF Has
    <3>3. CASE j <= k
      <4>1. Len(r) = KeptFailures
        BY <1>2, <1>3, <3>3
      <4>2. ASSUME NEW i \in 1..Len(r) PROVE id < r[i]
        <5>1. j < k + i /\ k + i \in 1..Len(q) /\ r[i] = q[k + i]
          BY <1>2, <1>3, <1>4, <3>3
        <5>. QED  BY <1>8, <3>1, <5>1 DEF Rising
      <4>. QED  BY <1>1, <4>1, <4>2
    <3>. QED  BY <1>2, <3>2, <3>3
  <2>2. CASE Len(q) >= KeptFailures /\ \A i \in 1..Len(q) : id < q[i]
    <3>1. Len(r) >= KeptFailures
      BY <1>1, <1>2, <1>3, <2>2
    <3>. QED  BY <1>4, <2>2, <3>1
  <2>. QED  BY <1>8, <2>1, <2>2 DEF Covers
<1>9. \A S \in SUBSET Nat : Rising(q) /\ Covers(q, S) => Covers(r, S)
  BY <1>8 DEF Covers
<1>. QED  BY <1>2, <1>3, <1>5, <1>6, <1>7, <1>9 DEF r

Notes == 1..MaxNotes

\* The failures a process has are there once; and while it is alone, they are in order, and are the
\* file's with what it could not write since.
RingOK(p) ==
  /\ ring[p] \in Seq(Notes) /\ Len(ring[p]) <= KeptFailures /\ Distinct(ring[p])
  /\ \A i \in 1..Len(ring[p]) : ring[p][i] <= noted
Alone(p) ==
  /\ Rising(ring[p]) /\ Covers(ring[p], saved)
  /\ \A i \in 1..Len(ring[p]) : Has(file, ring[p][i]) \/ \A id \in saved : id < ring[p][i]

FileOK ==
  /\ file \in Seq(Notes) /\ Len(file) <= KeptFailures /\ Distinct(file)
  /\ \A i \in 1..Len(file) : file[i] \in saved
  /\ \A id \in saved : id <= noted

FailuresInv ==
  /\ noted \in 0..MaxNotes /\ saved \subseteq Notes /\ FileOK
  /\ DOMAIN ring = Recorders /\ blind \in BOOLEAN
  /\ \A p \in Recorders : Up(p) => RingOK(p)
  /\ ~blind => /\ Rising(file) /\ Covers(file, saved)
               /\ \A p, q \in Recorders : Up(p) /\ Up(q) => p = q
               /\ \A p \in Recorders : Up(p) => Alone(p)

LEMMA FailuresStart == RecordsInit => FailuresInv
<1>. SUFFICES ASSUME RecordsInit PROVE FailuresInv
  OBVIOUS
<1>0. MaxNotes \in Nat /\ KeptFailures \in Nat
  BY RecordsAssumption
<1>1. ring = [p \in Recorders |-> Down] /\ file = <<>> /\ noted = 0 /\ saved = {} /\ blind = FALSE
  BY Zenon DEF RecordsInit
<1>2. DOMAIN ring = Recorders /\ \A p \in Recorders : ~Up(p)
  BY <1>1 DEF Up
<1>3. FileOK /\ Rising(file) /\ Covers(file, saved)
  <2>1. file \in Seq(Notes) /\ Len(file) = 0
    BY <1>1
  <2>2. \A i \in 1..Len(file) : FALSE
    BY <2>1
  <2>3. Distinct(file) /\ Rising(file)
    BY <2>2 DEF Distinct, Rising
  <2>4. Covers(file, saved)
    BY <1>1 DEF Covers
  <2>5. FileOK
    BY <1>0, <1>1, <2>1, <2>2, <2>3 DEF FileOK
  <2>. QED  BY <2>3, <2>4, <2>5
<1>4. noted \in 0..MaxNotes /\ saved \subseteq Notes
  BY <1>0, <1>1
<1>5. blind \in BOOLEAN
  BY <1>1
<1>6. /\ \A p \in Recorders : Up(p) => RingOK(p)
      /\ \A p, q \in Recorders : Up(p) /\ Up(q) => p = q
      /\ \A p \in Recorders : Up(p) => Alone(p)
  BY <1>2
<1>. QED  BY <1>2, <1>3, <1>4, <1>5, <1>6 DEF FailuresInv

\* What a process has when it attaches: the file, and of its own what the file does not have.
LEMMA MergedIs ==
  ASSUME FailuresInv, NEW p \in Recorders
  PROVE  /\ Merged(p) \in Seq(Notes) /\ Len(Merged(p)) <= KeptFailures /\ Distinct(Merged(p))
         /\ \A i \in 1..Len(Merged(p)) : Merged(p)[i] <= noted
         /\ ~blind =>
              /\ Rising(Merged(p)) /\ Covers(Merged(p), saved)
              /\ \A i \in 1..Len(Merged(p)) : Has(file, Merged(p)[i]) \/ \A id \in saved : id < Merged(p)[i]
<1>. DEFINE own == Own(p)
            S == Notes \ ToSet(file)
            e == Keeping(own, S)
            m == file \o e
<1>0. MaxNotes \in Nat /\ KeptFailures \in Nat \ {0} /\ Notes \in SUBSET Nat /\ saved \in SUBSET Nat
  BY RecordsAssumption DEF Notes, FailuresInv
<1>1. Merged(p) = LastOf(m, KeptFailures)
  BY DEF Merged, Notes
<1>2. own \in Seq(Notes) /\ Distinct(own) /\ \A i \in 1..Len(own) : own[i] <= noted
  BY DEF FailuresInv, RingOK, Distinct, Own
<1>3. ~blind => Rising(own) /\ \A i \in 1..Len(own) : Has(file, own[i]) \/ \A id \in saved : id < own[i]
  BY DEF FailuresInv, Alone, Rising, Own
<1>4. file \in Seq(Notes) /\ Distinct(file) /\ \A i \in 1..Len(file) : file[i] \in saved /\ file[i] <= noted
  BY DEF FailuresInv, FileOK
<1>5. \A x \in S : ~Has(file, x)
  BY <1>4 DEF ToSet, Has
<1>. HIDE DEF own, S
<1>6. e \in Seq(Notes)
  BY <1>2, KeepingKeeps
<1>7. \A i \in 1..Len(e) : e[i] \in S /\ Has(own, e[i])
  BY <1>2, KeptHas
<1>8. Distinct(e)
  BY <1>2, KeptDistinct DEF Distinct
<1>9. ~blind => Rising(e)
  BY <1>2, <1>3, KeptRising
<1>. HIDE DEF e
<1>10. /\ m \in Seq(Notes) /\ Len(m) = Len(file) + Len(e)
       /\ \A i \in 1..Len(file) : m[i] = file[i]
       /\ \A i \in 1..Len(e) : m[Len(file) + i] = e[i]
  BY <1>4, <1>6
<1>11. Len(file) \in Nat /\ Len(e) \in Nat
  BY <1>4, <1>6
<1>12. \A i \in 1..Len(m) : i \in 1..Len(file) \/ (i > Len(file) /\ i - Len(file) \in 1..Len(e) /\ m[i] = e[i - Len(file)])
  <2>. SUFFICES ASSUME NEW i \in 1..Len(m), ~(i \in 1..Len(file))
                PROVE  i > Len(file) /\ i - Len(file) \in 1..Len(e) /\ m[i] = e[i - Len(file)]
    OBVIOUS
  <2>1. i > Len(file) /\ i - Len(file) \in 1..Len(e) /\ Len(file) + (i - Len(file)) = i
    BY <1>10, <1>11
  <2>. QED  BY <1>10, <2>1
<1>. HIDE DEF m
<1>13. Distinct(m)
  <2>. SUFFICES ASSUME NEW i \in 1..Len(m), NEW j \in 1..Len(m), m[i] = m[j] PROVE i = j
    BY DEF Distinct
  <2>1. CASE i \in 1..Len(file) /\ j \in 1..Len(file)
    BY <1>4, <1>10, <2>1 DEF Distinct
  <2>2. CASE i \in 1..Len(file) /\ j \notin 1..Len(file)
    BY <1>5, <1>7, <1>10, <1>12, <2>2 DEF Has
  <2>3. CASE i \notin 1..Len(file) /\ j \in 1..Len(file)
    BY <1>5, <1>7, <1>10, <1>12, <2>3 DEF Has
  <2>4. CASE i \notin 1..Len(file) /\ j \notin 1..Len(file)
    <3>1. i - Len(file) = j - Len(file)
      BY <1>8, <1>12, <2>4 DEF Distinct
    <3>. QED  BY <1>11, <3>1
  <2>. QED  BY <2>1, <2>2, <2>3, <2>4
<1>14. \A i \in 1..Len(m) : m[i] <= noted
  BY <1>2, <1>4, <1>7, <1>10, <1>12 DEF Has
<1>15. ASSUME ~blind PROVE Rising(m) /\ Covers(m, saved) /\ \A i \in 1..Len(m) : Has(file, m[i]) \/ \A id \in saved : id < m[i]
  <2>1. \A i \in 1..Len(e) : \A id \in saved : id < e[i]
    BY <1>3, <1>5, <1>7, <1>15 DEF Has
  <2>2. ASSUME NEW i \in 1..Len(m), NEW j \in 1..Len(m), i < j PROVE m[i] < m[j]
    <3>1. CASE i \in 1..Len(file) /\ j \in 1..Len(file)
      BY <1>10, <1>15, <2>2, <3>1 DEF Rising, FailuresInv
    <3>2. CASE i \in 1..Len(file) /\ j \notin 1..Len(file)
      BY <1>4, <1>10, <1>12, <2>1, <3>2
    <3>3. CASE i \notin 1..Len(file)
      <4>1. j \notin 1..Len(file) /\ i - Len(file) < j - Len(file)
        BY <1>11, <1>12, <2>2, <3>3
      <4>. QED  BY <1>9, <1>12, <1>15, <3>3, <4>1 DEF Rising
    <3>. QED  BY <3>1, <3>2, <3>3
  <2>3. ASSUME NEW id \in saved PROVE Has(m, id) \/ (Len(m) >= KeptFailures /\ \A i \in 1..Len(m) : id < m[i])
    <3>1. CASE Has(file, id)
      <4>1. PICK i \in 1..Len(file) : file[i] = id
        BY <3>1 DEF Has
      <4>2. i \in 1..Len(m) /\ m[i] = id
        BY <1>10, <1>11, <4>1
      <4>. QED  BY <4>2 DEF Has
    <3>2. CASE Len(file) >= KeptFailures /\ \A i \in 1..Len(file) : id < file[i]
      <4>1. Len(m) >= KeptFailures
        BY <1>0, <1>10, <1>11, <3>2
      <4>2. \A i \in 1..Len(m) : id < m[i]
        BY <1>10, <1>12, <2>1, <3>2
      <4>. QED  BY <4>1, <4>2
    <3>. QED  BY <1>15, <3>1, <3>2 DEF FailuresInv, Covers
  <2>4. \A i \in 1..Len(m) : Has(file, m[i]) \/ \A id \in saved : id < m[i]
    BY <1>10, <1>12, <2>1 DEF Has
  <2>. QED  BY <2>2, <2>3, <2>4 DEF Rising, Covers
<1>16. /\ LastOf(m, KeptFailures) \in Seq(Notes) /\ Len(LastOf(m, KeptFailures)) <= KeptFailures
       /\ \A i \in 1..Len(LastOf(m, KeptFailures)) : Has(m, LastOf(m, KeptFailures)[i])
       /\ Distinct(m) => Distinct(LastOf(m, KeptFailures))
       /\ Rising(m) => Rising(LastOf(m, KeptFailures))
       /\ Rising(m) /\ Covers(m, saved) => Covers(LastOf(m, KeptFailures), saved)
  BY <1>0, <1>10, LastKeeps
<1>. DEFINE r == LastOf(m, KeptFailures)
<1>. HIDE DEF r
<1>17. \A i \in 1..Len(r) : Has(m, r[i])
  BY <1>16 DEF r
<1>18. \A i \in 1..Len(r) : r[i] <= noted
  BY <1>14, <1>17 DEF Has
<1>19. ~blind => \A i \in 1..Len(r) : Has(file, r[i]) \/ \A id \in saved : id < r[i]
  <2>. SUFFICES ASSUME ~blind, NEW i \in 1..Len(r) PROVE Has(file, r[i]) \/ \A id \in saved : id < r[i]
    OBVIOUS
  <2>1. PICK j \in 1..Len(m) : m[j] = r[i]
    BY <1>17 DEF Has
  <2>. QED  BY <1>15, <2>1
<1>. QED  BY <1>1, <1>13, <1>15, <1>16, <1>18, <1>19 DEF r

LEMMA AttachKeeps ==
  ASSUME FailuresInv, NEW p \in Recorders, Attach(p)
  PROVE  FailuresInv'
<1>0. PICK legible \in BOOLEAN :
        /\ ring' = [ring EXCEPT ![p] = IF legible THEN Merged(p) ELSE Own(p)]
        /\ blind' = (blind \/ ~legible \/ \E q \in Recorders \ {p} : Up(q))
  BY DEF Attach
<1>. DEFINE r == IF legible THEN Merged(p) ELSE Own(p)
<1>1. /\ r \in Seq(Notes) /\ Len(r) <= KeptFailures /\ Distinct(r)
      /\ \A i \in 1..Len(r) : r[i] <= noted
      /\ ~blind /\ legible =>
           /\ Rising(r) /\ Covers(r, saved)
           /\ \A i \in 1..Len(r) : Has(file, r[i]) \/ \A id \in saved : id < r[i]
  <2>1. CASE legible
    BY <2>1, MergedIs
  <2>2. CASE ~legible
    <3>1. KeptFailures \in Nat
      BY RecordsAssumption
    <3>2. /\ Own(p) \in Seq(Notes) /\ Len(Own(p)) <= KeptFailures /\ Distinct(Own(p))
          /\ \A i \in 1..Len(Own(p)) : Own(p)[i] <= noted
      BY <3>1 DEF FailuresInv, RingOK, Distinct, Own
    <3>. QED  BY <2>2, <3>2
  <2>. QED  BY <2>1, <2>2
<1>2. ring' = [ring EXCEPT ![p] = r] /\ UNCHANGED <<file, noted, saved>>
  BY <1>0 DEF Attach
<1>. HIDE DEF r
<1>3. DOMAIN ring' = Recorders /\ ring'[p] = r /\ \A q \in Recorders \ {p} : ring'[q] = ring[q]
  BY <1>2 DEF FailuresInv
<1>4. blind' \in BOOLEAN /\ (~blind' => ~blind /\ legible /\ \A q \in Recorders \ {p} : ~Up(q))
  BY <1>0 DEF FailuresInv
<1>5. FileOK'
  BY <1>2 DEF FailuresInv, FileOK
<1>6. ASSUME NEW q \in Recorders, Up(q)' PROVE RingOK(q)'
  BY <1>1, <1>2, <1>3, <1>6 DEF FailuresInv, RingOK, Up
<1>7. ASSUME ~blind'
      PROVE  /\ Rising(file)' /\ Covers(file, saved)'
             /\ \A q, s \in Recorders : Up(q)' /\ Up(s)' => q = s
             /\ \A q \in Recorders : Up(q)' => Alone(q)'
  <2>1. Rising(file)' /\ Covers(file, saved)'
    BY <1>2, <1>4, <1>7 DEF FailuresInv, Rising, Covers, Has
  <2>2. \A q \in Recorders : Up(q)' => q = p
    BY <1>3, <1>4, <1>7 DEF Up
  <2>3. Alone(p)'
    BY <1>1, <1>2, <1>3, <1>4, <1>7 DEF Alone, Rising, Covers, Has
  <2>. QED  BY <2>1, <2>2, <2>3
<1>. QED  BY <1>2, <1>3, <1>4, <1>5, <1>6, <1>7 DEF FailuresInv

\* What is noted now comes behind all there was.
LEMMA NotedIs ==
  ASSUME FailuresInv, NEW p \in Recorders, Up(p), noted < MaxNotes
  PROVE  LET q == Append(ring[p], noted + 1)
             r == LastOf(q, KeptFailures) IN
         /\ r \in Seq(Notes) /\ Len(r) <= KeptFailures /\ Distinct(r)
         /\ \A i \in 1..Len(r) : r[i] <= noted + 1 /\ Has(q, r[i])
         /\ ~blind => Rising(r) /\ Covers(r, saved)
<1>. DEFINE q == Append(ring[p], noted + 1)
            r == LastOf(q, KeptFailures)
<1>1. MaxNotes \in Nat /\ Notes \in SUBSET Nat /\ saved \in SUBSET Nat /\ noted \in Nat /\ noted + 1 \in Notes
  BY RecordsAssumption DEF FailuresInv, Notes
<1>2. ring[p] \in Seq(Notes) /\ Distinct(ring[p]) /\ Len(ring[p]) \in Nat /\ \A i \in 1..Len(ring[p]) : ring[p][i] <= noted
  BY DEF FailuresInv, RingOK
<1>3. /\ q \in Seq(Notes) /\ Len(q) = Len(ring[p]) + 1 /\ q[Len(ring[p]) + 1] = noted + 1
      /\ \A i \in 1..Len(ring[p]) : q[i] = ring[p][i]
  BY <1>1, <1>2, AppendProperties
<1>4. \A i \in 1..Len(q) : i = Len(ring[p]) + 1 \/ i \in 1..Len(ring[p])
  BY <1>2, <1>3
<1>5. \A i \in 1..Len(ring[p]) : i \in 1..Len(q) /\ ring[p][i] \in Nat
  BY <1>1, <1>2, <1>3, NumbersOf
<1>6. Len(ring[p]) + 1 \in 1..Len(q)
  BY <1>2, <1>3
<1>. HIDE DEF q
<1>7. \A i \in 1..Len(q) : q[i] <= noted + 1
  BY <1>1, <1>2, <1>3, <1>4, <1>5
<1>8. Distinct(q)
  <2>. SUFFICES ASSUME NEW i \in 1..Len(q), NEW j \in 1..Len(q), q[i] = q[j] PROVE i = j
    BY DEF Distinct
  <2>1. \A k \in 1..Len(ring[p]) : q[k] # noted + 1
    BY <1>1, <1>2, <1>3, <1>5
  <2>2. CASE i \in 1..Len(ring[p]) /\ j \in 1..Len(ring[p])
    BY <1>2, <1>3, <2>2 DEF Distinct
  <2>. QED  BY <1>3, <1>4, <2>1, <2>2
<1>9. ASSUME ~blind PROVE Rising(q) /\ Covers(q, saved)
  <2>1. Rising(ring[p]) /\ Covers(ring[p], saved)
    BY <1>9 DEF FailuresInv, Alone
  <2>2. ASSUME NEW i \in 1..Len(q), NEW j \in 1..Len(q), i < j PROVE q[i] < q[j]
    <3>1. i \in 1..Len(ring[p])
      BY <1>2, <1>3, <2>2
    <3>2. CASE j \in 1..Len(ring[p])
      BY <1>3, <2>1, <2>2, <3>1, <3>2 DEF Rising
    <3>3. CASE j = Len(ring[p]) + 1
      BY <1>1, <1>2, <1>3, <1>5, <3>1, <3>3
    <3>. QED  BY <1>4, <3>2, <3>3
  <2>3. ASSUME NEW id \in saved PROVE Has(q, id) \/ (Len(q) >= KeptFailures /\ \A i \in 1..Len(q) : id < q[i])
    <3>1. CASE Has(ring[p], id)
      BY <1>3, <1>5, <3>1 DEF Has
    <3>2. CASE Len(ring[p]) >= KeptFailures /\ \A i \in 1..Len(ring[p]) : id < ring[p][i]
      <4>1. Len(q) >= KeptFailures
        BY <1>2, <1>3, <3>2, RecordsAssumption
      <4>2. id < noted + 1
        BY <1>1, <2>3 DEF FailuresInv, FileOK
      <4>. QED  BY <1>3, <1>4, <3>2, <4>1, <4>2
    <3>. QED  BY <2>1, <2>3, <3>1, <3>2 DEF Covers
  <2>. QED  BY <2>2, <2>3 DEF Rising, Covers
<1>10. /\ r \in Seq(Notes) /\ Len(r) <= KeptFailures
       /\ \A i \in 1..Len(r) : Has(q, r[i])
       /\ Distinct(q) => Distinct(r)
       /\ Rising(q) => Rising(r)
       /\ Rising(q) /\ Covers(q, saved) => Covers(r, saved)
  BY <1>1, <1>3, LastKeeps
<1>. HIDE DEF r
<1>11. \A i \in 1..Len(r) : r[i] <= noted + 1
  BY <1>7, <1>10 DEF Has
<1>. QED  BY <1>8, <1>9, <1>10, <1>11 DEF q, r

LEMMA RecordFailureKeeps ==
  ASSUME FailuresInv, NEW p \in Recorders, RecordFailure(p)
  PROVE  FailuresInv'
<1>. DEFINE q == Append(ring[p], noted + 1)
            r == LastOf(q, KeptFailures)
<1>1. /\ Up(p) /\ noted < MaxNotes /\ noted' = noted + 1 /\ ring' = [ring EXCEPT ![p] = r] /\ UNCHANGED blind
      /\ (file' = r /\ saved' = saved \cup ToSet(r)) \/ UNCHANGED <<file, saved>>
  BY DEF RecordFailure
<1>2. /\ r \in Seq(Notes) /\ Len(r) <= KeptFailures /\ Distinct(r)
      /\ \A i \in 1..Len(r) : r[i] <= noted + 1 /\ Has(q, r[i])
      /\ ~blind => Rising(r) /\ Covers(r, saved)
  BY <1>1, NotedIs
<1>3. MaxNotes \in Nat /\ Notes \in SUBSET Nat /\ saved \in SUBSET Nat /\ noted \in Nat /\ noted' \in 0..MaxNotes
  BY <1>1, RecordsAssumption DEF FailuresInv, Notes
<1>4. ring[p] \in Seq(Notes) /\ \A i \in 1..Len(ring[p]) : ring[p][i] <= noted
  BY <1>1 DEF FailuresInv, RingOK
<1>5. \A i \in 1..Len(q) : q[i] = noted + 1 \/ Has(ring[p], q[i])
  BY <1>3, <1>4 DEF Has
<1>6. ~blind => \A i \in 1..Len(r) : r[i] = noted + 1 \/ Has(ring[p], r[i])
  BY <1>2, <1>5 DEF Has
<1>. HIDE DEF r
<1>7. DOMAIN ring' = Recorders /\ ring'[p] = r /\ \A s \in Recorders \ {p} : ring'[s] = ring[s]
  BY <1>1 DEF FailuresInv
<1>8. ToSet(r) \subseteq Notes /\ \A i \in 1..Len(r) : r[i] \in ToSet(r)
  BY <1>2 DEF ToSet
<1>9. \A x \in ToSet(r) : Has(r, x)
  BY <1>2 DEF ToSet, Has
<1>10. saved' \subseteq Notes /\ \A id \in saved' : id <= noted'
  <2>1. \A id \in saved : id \in Notes /\ id <= noted
    BY DEF FailuresInv, FileOK
  <2>2. \A id \in ToSet(r) : id \in Notes /\ id <= noted + 1
    BY <1>2, <1>8, <1>9 DEF Has
  <2>3. \A id \in saved : id <= noted + 1
    BY <1>3, <2>1
  <2>. QED  BY <1>1, <2>1, <2>2, <2>3
<1>11. FileOK'
  <2>1. CASE file' = r /\ saved' = saved \cup ToSet(r)
    BY <1>2, <1>8, <1>10, <2>1 DEF FileOK
  <2>2. CASE UNCHANGED <<file, saved>>
    BY <1>10, <2>2 DEF FailuresInv, FileOK
  <2>. QED  BY <1>1, <2>1, <2>2
<1>12. ASSUME NEW s \in Recorders, Up(s)' PROVE RingOK(s)'
  <2>1. CASE s = p
    BY <1>1, <1>2, <1>7, <2>1 DEF RingOK
  <2>2. CASE s # p
    <3>1. RingOK(s) /\ ring'[s] = ring[s]
      BY <1>7, <1>12, <2>2 DEF FailuresInv, Up
    <3>2. \A i \in 1..Len(ring[s]) : ring[s][i] <= noted + 1
      <4>1. \A i \in 1..Len(ring[s]) : ring[s][i] \in Nat /\ ring[s][i] <= noted
        BY <1>3, <3>1, NumbersOf DEF RingOK
      <4>. QED  BY <1>3, <4>1
    <3>. QED  BY <1>1, <3>1, <3>2 DEF RingOK
  <2>. QED  BY <2>1, <2>2
<1>13. ASSUME ~blind'
       PROVE  /\ Rising(file)' /\ Covers(file, saved)'
              /\ \A s, t \in Recorders : Up(s)' /\ Up(t)' => s = t
              /\ \A s \in Recorders : Up(s)' => Alone(s)'
  <2>0. ~blind /\ Alone(p) /\ Rising(file) /\ Covers(file, saved)
    BY <1>1, <1>13 DEF FailuresInv
  <2>1. \A s \in Recorders : Up(s)' => s = p
    BY <1>1, <1>7, <2>0 DEF FailuresInv, Up
  <2>2. Rising(r) /\ Covers(r, saved)
    BY <1>2, <2>0
  <2>3. CASE file' = r /\ saved' = saved \cup ToSet(r)
    <3>1. Covers(r, saved \cup ToSet(r))
      BY <1>9, <2>2 DEF Covers
    <3>2. \A i \in 1..Len(r) : Has(r, r[i])
      BY DEF Has
    <3>3. Alone(p)'
      BY <1>7, <2>2, <2>3, <3>1, <3>2 DEF Alone
    <3>. QED  BY <2>1, <2>2, <2>3, <3>1, <3>3
  <2>4. CASE UNCHANGED <<file, saved>>
    <3>1. \A id \in saved : id < noted + 1
      BY <1>3 DEF FailuresInv, FileOK
    <3>2. \A i \in 1..Len(ring[p]) : Has(file, ring[p][i]) \/ \A id \in saved : id < ring[p][i]
      BY <2>0 DEF Alone
    <3>3. \A i \in 1..Len(r) : Has(file, r[i]) \/ \A id \in saved : id < r[i]
      <4>. SUFFICES ASSUME NEW i \in 1..Len(r) PROVE Has(file, r[i]) \/ \A id \in saved : id < r[i]
        OBVIOUS
      <4>1. CASE r[i] = noted + 1
        BY <3>1, <4>1
      <4>2. CASE Has(ring[p], r[i])
        <5>1. PICK j \in 1..Len(ring[p]) : ring[p][j] = r[i]
          BY <4>2 DEF Has
        <5>. QED  BY <3>2, <5>1
      <4>. QED  BY <1>6, <2>0, <4>1, <4>2
    <3>4. Alone(p)'
      BY <1>7, <2>2, <2>4, <3>3 DEF Alone, Has, Covers
    <3>5. Rising(file)' /\ Covers(file, saved)'
      BY <2>0, <2>4 DEF Rising, Covers, Has
    <3>. QED  BY <2>1, <3>4, <3>5
  <2>. QED  BY <1>1, <2>3, <2>4
<1>. QED  BY <1>1, <1>3, <1>7, <1>10, <1>11, <1>12, <1>13 DEF FailuresInv

LEMMA RecorderEndsKeeps ==
  ASSUME FailuresInv, NEW p \in Recorders, RecorderEnds(p)
  PROVE  FailuresInv'
<1>1. /\ DOMAIN ring' = Recorders /\ ring'[p] = Down /\ \A q \in Recorders \ {p} : ring'[q] = ring[q]
      /\ UNCHANGED <<file, noted, saved, blind>>
  BY DEF FailuresInv, RecorderEnds
<1>2. \A q \in Recorders : Up(q)' => Up(q) /\ ring'[q] = ring[q]
  BY <1>1 DEF Up
<1>3. FileOK'
  BY <1>1 DEF FailuresInv, FileOK
<1>4. \A q \in Recorders : Up(q)' => RingOK(q)'
  BY <1>1, <1>2 DEF FailuresInv, RingOK
<1>5. ASSUME ~blind'
      PROVE  /\ Rising(file)' /\ Covers(file, saved)'
             /\ \A q, s \in Recorders : Up(q)' /\ Up(s)' => q = s
             /\ \A q \in Recorders : Up(q)' => Alone(q)'
  <2>1. Rising(file)' /\ Covers(file, saved)'
    BY <1>1, <1>5 DEF FailuresInv, Rising, Covers, Has
  <2>2. \A q, s \in Recorders : Up(q)' /\ Up(s)' => q = s
    BY <1>1, <1>2, <1>5 DEF FailuresInv
  <2>3. \A q \in Recorders : Up(q)' => Alone(q)'
    BY <1>1, <1>2, <1>5 DEF FailuresInv, Alone, Rising, Covers, Has
  <2>. QED  BY <2>1, <2>2, <2>3
<1>. QED  BY <1>1, <1>3, <1>4, <1>5 DEF FailuresInv

LEMMA FailuresStep == FailuresInv /\ [FailuresNext]_failurevars => FailuresInv'
<1>. SUFFICES ASSUME FailuresInv, [FailuresNext]_failurevars PROVE FailuresInv'
  OBVIOUS
<1>1. CASE UNCHANGED failurevars
  <2>1. UNCHANGED <<ring, file, noted, saved, blind>>
    BY <1>1 DEF failurevars
  <2>. QED  BY <2>1 DEF FailuresInv, FileOK, RingOK, Alone, Rising, Covers, Has, Distinct, Up
<1>. QED  BY <1>1, AttachKeeps, RecordFailureKeeps, RecorderEndsKeeps DEF FailuresNext

\* Whose ids are told once has as many as it is long.
LEMMA ToldOnce ==
  ASSUME NEW D, NEW q \in Seq(D), Distinct(q)
  PROVE  IsFiniteSet(ToSet(q)) /\ Cardinality(ToSet(q)) = Len(q)
<1>1. Len(q) \in Nat /\ DOMAIN q = 1..Len(q)
  OBVIOUS
<1>2. q \in Surjection(1..Len(q), ToSet(q)) /\ q \in Injection(1..Len(q), ToSet(q))
  <2>1. q = [i \in 1..Len(q) |-> q[i]]
    BY <1>1
  <2>2. \A i \in 1..Len(q) : q[i] \in ToSet(q)
    BY <1>1 DEF ToSet
  <2>3. q \in [1..Len(q) -> ToSet(q)]
    BY <2>1, <2>2
  <2>4. \A x \in ToSet(q) : \E i \in 1..Len(q) : q[i] = x
    BY <1>1 DEF ToSet
  <2>. QED  BY <2>3, <2>4 DEF Surjection, Injection, IsInjective, Distinct
<1>3. q \in Bijection(1..Len(q), ToSet(q))
  BY <1>2 DEF Bijection
<1>4. IsFiniteSet(1..Len(q)) /\ Cardinality(1..Len(q)) = Len(q)
  BY <1>1, FS_Interval
<1>5. \E f : f \in Bijection(1..Len(q), ToSet(q))
  BY <1>3
<1>. QED  BY <1>4, <1>5, FS_Bijection, Zenon DEF ExistsBijection

\* What the file has of all that was ever in it is the newest.
LEMMA TheNewest ==
  ASSUME FailuresInv, ~blind
  PROVE  ToSet(file) = {id \in saved : Cardinality({other \in saved : other > id}) < KeptFailures}
<1>1. KeptFailures \in Nat /\ MaxNotes \in Nat /\ saved \subseteq 1..MaxNotes /\ file \in Seq(Notes) /\ Len(file) <= KeptFailures
  BY RecordsAssumption DEF FailuresInv, FileOK, Notes
<1>0. \A x \in saved : x \in Nat
  BY <1>1
<1>2. IsFiniteSet(saved)
  <2>1. 1 \in Int /\ MaxNotes \in Int
    BY <1>1
  <2>. QED  BY <1>1, <2>1, FS_Interval, FS_Subset
<1>3. IsFiniteSet(ToSet(file)) /\ Cardinality(ToSet(file)) = Len(file) /\ Len(file) \in Nat
  BY <1>1, ToldOnce DEF FailuresInv, FileOK
<1>4. ToSet(file) \subseteq saved /\ Covers(file, saved)
  BY <1>1 DEF FailuresInv, FileOK, ToSet
<1>5. \A x : x \in ToSet(file) <=> Has(file, x)
  BY <1>1 DEF ToSet, Has
<1>6. ASSUME NEW id \in ToSet(file) PROVE Cardinality({other \in saved : other > id}) < KeptFailures
  <2>. DEFINE above == {other \in saved : other > id}
  <2>1. above \subseteq ToSet(file)
    <3>. SUFFICES ASSUME NEW other \in saved, other > id, other \notin ToSet(file) PROVE FALSE
      OBVIOUS
    <3>1. \A i \in 1..Len(file) : other < file[i]
      BY <1>4, <1>5 DEF Covers
    <3>2. PICK i \in 1..Len(file) : file[i] = id
      BY <1>5, <1>6 DEF Has
    <3>3. other \in Nat /\ id \in Nat
      BY <1>0, <1>4, <1>6
    <3>. QED  BY <3>1, <3>2, <3>3
  <2>2. id \notin above
    BY <1>0, <1>4, <1>6
  <2>. HIDE DEF above
  <2>3. Cardinality(above) < Cardinality(ToSet(file)) /\ Cardinality(above) \in Nat
    BY <1>3, <1>6, <2>1, <2>2, FS_Subset, FS_CardinalityType
  <2>. QED  BY <1>1, <1>3, <2>3 DEF above
<1>7. ASSUME NEW id \in saved, id \notin ToSet(file) PROVE ~(Cardinality({other \in saved : other > id}) < KeptFailures)
  <2>. DEFINE above == {other \in saved : other > id}
  <2>1. Len(file) >= KeptFailures /\ \A i \in 1..Len(file) : id < file[i]
    BY <1>4, <1>5, <1>7 DEF Covers
  <2>2. ToSet(file) \subseteq above
    <3>. SUFFICES ASSUME NEW x \in ToSet(file) PROVE x \in saved /\ x > id
      OBVIOUS
    <3>1. PICK i \in 1..Len(file) : file[i] = x
      BY <1>5 DEF Has
    <3>2. x \in saved /\ x \in Nat /\ id \in Nat
      BY <1>0, <1>4, <1>7
    <3>. QED  BY <2>1, <3>1, <3>2
  <2>3. above \subseteq saved
    OBVIOUS
  <2>. HIDE DEF above
  <2>4. IsFiniteSet(above) /\ Cardinality(ToSet(file)) <= Cardinality(above) /\ Cardinality(above) \in Nat
    BY <1>2, <2>2, <2>3, FS_Subset, FS_CardinalityType
  <2>. QED  BY <1>1, <1>3, <2>1, <2>4 DEF above
<1>. QED  BY <1>4, <1>6, <1>7

LEMMA FailuresAreTrue == FailuresInv => FailuresOutliveTheProcess
<1>. SUFFICES ASSUME FailuresInv PROVE FailuresOutliveTheProcess
  OBVIOUS
<1>1. ASSUME NEW p \in Recorders PROVE Cardinality(ToSet(ring[p])) = Len(ring[p])
  <2>1. CASE Up(p)
    BY <2>1, ToldOnce DEF FailuresInv, RingOK
  <2>2. CASE ring[p] = Down
    <3>1. Down \in Seq(Nat) /\ Distinct(Down)
      BY DEF Down, Distinct
    <3>. QED  BY <2>2, <3>1, ToldOnce
  <2>. QED  BY <2>1, <2>2 DEF Up
<1>2. Cardinality(ToSet(file)) = Len(file)
  BY ToldOnce DEF FailuresInv, FileOK
<1>. QED  BY <1>1, <1>2, TheNewest DEF FailuresOutliveTheProcess

-----------------------------------------------------------------------------
\* Timings

LogLines == Timing \cup Unreadable
Logging == [who : Recorders, step : {"prune", "append"}, timing : Timing]

\* Who holds the lock is about to write a timing that is newer than any entry, of today or before.
LoggerOK ==
  logger # NoLogger =>
    /\ logger \in Logging /\ logger.timing.day <= today
    /\ \A i \in 1..Len(log) : log[i].id < logger.timing.id

TimingsInv ==
  /\ log \in Seq(LogLines) /\ timed \subseteq Timing /\ today \in 0..MaxDays /\ LoggerOK
  /\ \A i, j \in 1..Len(log) : log[i] = log[j] /\ log[i] \notin Unreadable => i = j
  /\ \A t \in timed : t.day >= today - RollupDays => Has(log, t)

LEMMA NobodyLogs == NoLogger.step \notin {"prune", "append"}
BY Zenon DEF NoLogger

LEMMA LinesHave == \A entry \in LogLines : entry.id \in Nat /\ entry.day \in Nat
<1>1. MaxNotes \in Nat /\ MaxDays \in Nat
  BY RecordsAssumption
<1>. QED  BY <1>1 DEF LogLines, Timing, Unreadable, TornLine, GluedLine

LEMMA TimingsStart == RecordsInit => TimingsInv
<1>. SUFFICES ASSUME RecordsInit PROVE TimingsInv
  OBVIOUS
<1>0. log = <<>> /\ timed = {} /\ today = 0 /\ logger = NoLogger
  BY Zenon DEF RecordsInit
<1>1. log = <<>> /\ timed = {} /\ today = 0 /\ logger = NoLogger /\ 0 \in 0..MaxDays
  BY <1>0, RecordsAssumption
<1>2. log \in Seq(LogLines) /\ \A i \in 1..Len(log) : FALSE
  BY <1>1
<1>. QED  BY <1>1, <1>2 DEF TimingsInv, LoggerOK

LEMMA DayEndsKeeps == ASSUME TimingsInv, DayEnds PROVE TimingsInv'
<1>1. today' = today + 1 /\ today < MaxDays /\ UNCHANGED <<log, pruned, logger, timed>>
  BY DEF DayEnds
<1>2. MaxDays \in Nat /\ RollupDays \in Nat /\ today \in Nat /\ today' \in 0..MaxDays
  BY <1>1, RecordsAssumption DEF TimingsInv
<1>3. LoggerOK'
  <2>. SUFFICES ASSUME logger # NoLogger PROVE logger.timing.day <= today + 1
    BY <1>1 DEF LoggerOK, TimingsInv
  <2>1. logger.timing \in LogLines /\ logger.timing.day <= today
    BY DEF TimingsInv, LoggerOK, Logging, LogLines
  <2>. QED  BY <1>2, <2>1, LinesHave
<1>4. ASSUME NEW t \in timed, t.day >= today' - RollupDays PROVE Has(log, t)
  <2>1. t \in LogLines
    BY DEF TimingsInv, LogLines
  <2>2. t.day >= today - RollupDays
    BY <1>1, <1>2, <1>4, <2>1, LinesHave
  <2>. QED  BY <2>2 DEF TimingsInv
<1>. QED  BY <1>1, <1>2, <1>3, <1>4 DEF TimingsInv, Has

LEMMA AddTimingKeeps == ASSUME TimingsInv, NEW p \in Recorders, AddTiming(p) PROVE TimingsInv'
<1>1. PICK day \in {today, today - 1} \cap Nat, id \in 1..MaxNotes :
        /\ \A t \in timed \cup ToSet(log) : t.id < id
        /\ logger' = [who |-> p, step |-> IF day # pruned[p] THEN "prune" ELSE "append",
                      timing |-> [id |-> id, day |-> day]]
  BY Zenon DEF AddTiming
<1>2. UNCHANGED <<log, timed, today>>
  BY DEF AddTiming
<1>3. today \in Nat /\ today <= MaxDays /\ MaxDays \in Nat
  BY RecordsAssumption DEF TimingsInv
<1>4. [id |-> id, day |-> day] \in Timing /\ day <= today
  BY <1>1, <1>3 DEF Timing
<1>5. logger' \in Logging /\ logger'.timing.day = day /\ logger'.timing.id = id
  BY <1>1, <1>4 DEF Logging
<1>6. \A i \in 1..Len(log) : log[i].id < id
  BY <1>1 DEF ToSet, TimingsInv
<1>. QED  BY <1>2, <1>4, <1>5, <1>6 DEF TimingsInv, LoggerOK, Has

\* What is cut is a torn entry, or older than all that are to be kept today.
LEMMA PruneLogKeeps == ASSUME TimingsInv, NEW p \in Recorders, PruneLog(p) PROVE TimingsInv'
<1>1. logger.step = "prune" /\ UNCHANGED <<pruned, timed, today>>
  BY DEF PruneLog
<1>2. logger # NoLogger
  BY <1>1, NobodyLogs, Zenon
<1>3. /\ logger \in Logging /\ logger.timing.day <= today /\ logger.timing \in LogLines
      /\ \A i \in 1..Len(log) : log[i].id < logger.timing.id
  BY <1>2 DEF TimingsInv, LoggerOK, Logging, LogLines
<1>4. CASE logger' = NoLogger /\ UNCHANGED log
  BY <1>1, <1>4 DEF TimingsInv, LoggerOK, Has
<1>5. ASSUME log' = Keeping(log, {entry \in ToSet(log) : StillKept(entry)}), logger' = [logger EXCEPT !.step = "append"]
      PROVE  TimingsInv'
  <2>. DEFINE S == {entry \in ToSet(log) : StillKept(entry)}
  <2>1. log \in Seq(LogLines) /\ \A i, j \in 1..Len(log) : log[i] = log[j] /\ log[i] \notin Unreadable => i = j
    BY DEF TimingsInv
  <2>2. \A entry \in S : entry \notin Unreadable
    BY DEF StillKept
  <2>3. ASSUME NEW t \in timed, t.day >= today - RollupDays PROVE t \in S
    <3>1. Has(log, t) /\ t \in Timing
      BY <2>3 DEF TimingsInv
    <3>2. t \notin Unreadable
      BY <3>1 DEF Timing, Unreadable, TornLine, GluedLine
    <3>3. t.day >= logger.timing.day - RollupDays
      <4>1. t \in LogLines /\ today \in Nat /\ RollupDays \in Nat
        BY <3>1, RecordsAssumption DEF TimingsInv, LogLines
      <4>. QED  BY <1>3, <2>3, <4>1, LinesHave
    <3>4. t \in ToSet(log)
      BY <2>1, <3>1 DEF Has, ToSet
    <3>. QED  BY <3>2, <3>3, <3>4 DEF StillKept
  <2>. HIDE DEF S
  <2>4. log' = Keeping(log, S)
    BY <1>5 DEF S
  <2>5. log' \in Seq(LogLines)
    BY <2>1, <2>4, KeepingKeeps
  <2>6. \A i, j \in 1..Len(log) : log[i] = log[j] /\ log[i] \in S => i = j
    BY <2>1, <2>2
  <2>7. Distinct(log')
    BY <2>1, <2>4, <2>6, KeptDistinct
  <2>8. /\ \A i \in 1..Len(log') : Has(log, log'[i])
        /\ \A x \in S : Has(log, x) => Has(log', x)
    BY <2>1, <2>4, KeptHas
  <2>9. \A t \in timed : t.day >= today - RollupDays => Has(log', t)
    BY <2>3, <2>8 DEF TimingsInv
  <2>10. logger' \in Logging /\ logger'.timing = logger.timing
    BY <1>3, <1>5 DEF Logging
  <2>11. \A i \in 1..Len(log') : log'[i].id < logger.timing.id
    BY <1>3, <2>8 DEF Has
  <2>12. LoggerOK'
    BY <1>1, <1>3, <2>10, <2>11 DEF LoggerOK
  <2>. QED  BY <1>1, <2>5, <2>7, <2>9, <2>12 DEF TimingsInv, Distinct, Has
<1>. QED  BY <1>4, <1>5 DEF PruneLog

\* A entry that is appended is read by itself, or nothing of it is.
LEMMA AppendedIs ==
  ASSUME log \in Seq(LogLines), NEW entry \in LogLines, log' = Append(log, entry)
  PROVE  /\ log' \in Seq(LogLines) /\ Len(log') = Len(log) + 1 /\ log'[Len(log) + 1] = entry
         /\ \A i \in 1..Len(log) : log'[i] = log[i] /\ i \in 1..Len(log')
         /\ \A i \in 1..Len(log') : i \in 1..Len(log) \/ i = Len(log) + 1
         /\ \A t : Has(log, t) => Has(log', t)
<1>1. Len(log) \in Nat
  OBVIOUS
<1>2. /\ log' \in Seq(LogLines) /\ Len(log') = Len(log) + 1 /\ log'[Len(log) + 1] = entry
      /\ \A i \in 1..Len(log) : log'[i] = log[i]
  BY AppendProperties
<1>3. \A i \in 1..Len(log) : i \in 1..Len(log')
  BY <1>1, <1>2
<1>4. \A i \in 1..Len(log') : i \in 1..Len(log) \/ i = Len(log) + 1
  BY <1>1, <1>2
<1>5. \A t : Has(log, t) => Has(log', t)
  BY <1>2, <1>3 DEF Has
<1>. QED  BY <1>2, <1>3, <1>4, <1>5

LEMMA AppendTimingKeeps == ASSUME TimingsInv, NEW p \in Recorders, AppendTiming(p) PROVE TimingsInv'
<1>1. logger.step = "append" /\ logger' = NoLogger /\ UNCHANGED <<pruned, today>>
  BY DEF AppendTiming
<1>2. logger # NoLogger
  BY <1>1, NobodyLogs, Zenon
<1>3. logger.timing \in Timing /\ \A i \in 1..Len(log) : log[i].id < logger.timing.id
  BY <1>2 DEF TimingsInv, LoggerOK, Logging
<1>4. ASSUME log # <<>>, Last(log) = TornLine, log' = [log EXCEPT ![Len(log)] = GluedLine], timed' = timed PROVE TimingsInv'
  <2>1. log \in Seq(LogLines) /\ Len(log) \in Nat /\ Len(log) \in 1..Len(log) /\ log[Len(log)] = TornLine
    BY <1>4 DEF TimingsInv, Last
  <2>2. GluedLine \in LogLines /\ TornLine \in Unreadable /\ GluedLine \in Unreadable
    BY DEF LogLines, Unreadable
  <2>3. /\ log' \in Seq(LogLines) /\ Len(log') = Len(log) /\ log'[Len(log)] = GluedLine
        /\ \A i \in 1..Len(log) : i # Len(log) => log'[i] = log[i]
    BY <1>4, <2>1, <2>2
  <2>4. ASSUME NEW i \in 1..Len(log'), NEW j \in 1..Len(log'), log'[i] = log'[j], log'[i] \notin Unreadable PROVE i = j
    BY <2>2, <2>3, <2>4 DEF TimingsInv
  <2>5. ASSUME NEW t \in timed, Has(log, t) PROVE Has(log', t)
    <3>1. PICK i \in 1..Len(log) : log[i] = t
      BY <2>5 DEF Has
    <3>2. t \in Timing /\ TornLine \notin Timing
      <4>1. 0 \notin 1..MaxNotes
        BY RecordsAssumption
      <4>. QED  BY <4>1 DEF TimingsInv, Timing, TornLine
    <3>3. log'[i] = t
      BY <2>1, <2>3, <3>1, <3>2
    <3>. QED  BY <2>3, <3>3 DEF Has
  <2>6. \A t \in timed' : t.day >= today' - RollupDays => Has(log, t)'
    BY <1>1, <1>4, <2>5 DEF TimingsInv, Has
  <2>. QED  BY <1>1, <1>4, <2>3, <2>4, <2>6 DEF TimingsInv, LoggerOK
<1>5. ASSUME log' = Append(log, logger.timing), timed' = timed \cup {logger.timing} PROVE TimingsInv'
  <2>0. logger.timing \in LogLines /\ log \in Seq(LogLines) /\ \A i \in 1..Len(log) : log[i] # logger.timing
    <3>1. logger.timing \in LogLines /\ log \in Seq(LogLines)
      BY <1>3 DEF TimingsInv, LogLines
    <3>. QED  BY <1>3, <3>1, LinesHave
  <2>1. /\ log' \in Seq(LogLines) /\ Len(log') = Len(log) + 1 /\ log'[Len(log) + 1] = logger.timing
        /\ \A i \in 1..Len(log) : log'[i] = log[i] /\ i \in 1..Len(log')
        /\ \A i \in 1..Len(log') : i \in 1..Len(log) \/ i = Len(log) + 1
        /\ \A t : Has(log, t) => Has(log', t)
    BY <1>5, <2>0, AppendedIs
  <2>2. ASSUME NEW i \in 1..Len(log'), NEW j \in 1..Len(log'), log'[i] = log'[j], log'[i] \notin Unreadable PROVE i = j
    <3>1. CASE i \in 1..Len(log) /\ j \in 1..Len(log)
      BY <2>1, <2>2, <3>1 DEF TimingsInv
    <3>. QED  BY <2>0, <2>1, <2>2, <3>1
  <2>3. Has(log', logger.timing)
    <3>1. Len(log) + 1 \in 1..Len(log')
      BY <2>0, <2>1
    <3>. QED  BY <2>1, <3>1 DEF Has
  <2>4. \A t \in timed' : t.day >= today - RollupDays => Has(log', t)
    BY <1>5, <2>1, <2>3 DEF TimingsInv
  <2>5. timed' \subseteq Timing
    BY <1>3, <1>5 DEF TimingsInv
  <2>6. \A t \in timed' : t.day >= today' - RollupDays => Has(log, t)'
    BY <1>1, <2>4 DEF Has
  <2>. QED  BY <1>1, <2>1, <2>2, <2>5, <2>6 DEF TimingsInv, LoggerOK
<1>. QED  BY <1>4, <1>5 DEF AppendTiming

LEMMA LoggerEndsKeeps == ASSUME TimingsInv, NEW p \in Recorders, LoggerEnds(p) PROVE TimingsInv'
<1>1. /\ logger' = IF logger.who = p THEN NoLogger ELSE logger
      /\ UNCHANGED <<timed, today>>
  BY DEF LoggerEnds
<1>2. CASE UNCHANGED log
  BY <1>1, <1>2 DEF TimingsInv, LoggerOK, Has
<1>3. ASSUME logger.who = p, log' = Append(log, TornLine) PROVE TimingsInv'
  <2>0. TornLine \in LogLines /\ log \in Seq(LogLines)
    BY DEF TimingsInv, LogLines, Unreadable
  <2>1. /\ log' \in Seq(LogLines) /\ Len(log') = Len(log) + 1 /\ log'[Len(log) + 1] = TornLine
        /\ \A i \in 1..Len(log) : log'[i] = log[i] /\ i \in 1..Len(log')
        /\ \A i \in 1..Len(log') : i \in 1..Len(log) \/ i = Len(log) + 1
        /\ \A t : Has(log, t) => Has(log', t)
    BY <1>3, <2>0, AppendedIs
  <2>2. ASSUME NEW i \in 1..Len(log'), NEW j \in 1..Len(log'), log'[i] = log'[j], log'[i] \notin Unreadable PROVE i = j
    <3>1. i \in 1..Len(log) /\ j \in 1..Len(log)
      BY <2>1, <2>2 DEF Unreadable
    <3>. QED  BY <2>1, <2>2, <3>1 DEF TimingsInv
  <2>3. \A t \in timed' : t.day >= today' - RollupDays => Has(log, t)'
    BY <1>1, <2>1 DEF TimingsInv, Has
  <2>. QED  BY <1>1, <1>3, <2>1, <2>2, <2>3 DEF TimingsInv, LoggerOK
<1>. QED  BY <1>2, <1>3 DEF LoggerEnds

LEMMA TimingsStep == TimingsInv /\ [TimingsNext]_timingvars => TimingsInv'
<1>. SUFFICES ASSUME TimingsInv, [TimingsNext]_timingvars PROVE TimingsInv'
  OBVIOUS
<1>1. CASE UNCHANGED timingvars
  <2>1. UNCHANGED <<log, logger, timed, today>>
    BY <1>1 DEF timingvars
  <2>. QED  BY <2>1 DEF TimingsInv, LoggerOK, Has
<1>. QED  BY <1>1, DayEndsKeeps, AddTimingKeeps, PruneLogKeeps, AppendTimingKeeps, LoggerEndsKeeps DEF TimingsNext

LEMMA TimingsAreTrue == TimingsInv => TimingsAreKept
BY DEF TimingsInv, TimingsAreKept, ToSet, Has

-----------------------------------------------------------------------------
\* Samples

SampleSteps == {"", "waiting", "sampling"}
AskingOK == asking \in [SampleAskers -> [step : SampleSteps, force : BOOLEAN]]
MeasuresOne ==
  \A a, b \in SampleAskers : asking[a].step = "sampling" =>
    /\ asking[b].step = "sampling" => a = b
    /\ asking[a].force \/ ~IsFresh
SamplesOK == AskingOK /\ instant \in 0..MaxInstants /\ sample \in {Never} \cup 0..MaxInstants /\ MeasuresOne

LEMMA SampleStepsAre ==
  /\ {"", "waiting", "sampling"} \subseteq SampleSteps
  /\ "" # "waiting" /\ "" # "sampling" /\ "waiting" # "sampling"
BY Zenon DEF SampleSteps

\* Who asks is told apart by step and by whether it insists.
LEMMA AskedOf ==
  ASSUME AskingOK, NEW a \in SampleAskers, NEW to \in SampleSteps, NEW force \in BOOLEAN,
         asking' = [asking EXCEPT ![a] = [step |-> to, force |-> force]]
         \/ asking' = [asking EXCEPT ![a].step = to]
  PROVE  AskingOK' /\ asking'[a].step = to /\ \A b \in SampleAskers : b # a => asking'[b] = asking[b]
BY DEF AskingOK

\* One measures at a time, and what is not fresh does not become so by waiting.
LEMMA StaysStale ==
  ASSUME SamplesOK, sample' = sample, instant' \in {instant, instant + 1}, ~IsFresh
  PROVE  ~IsFresh'
<1>1. instant \in Nat /\ SampleTtl \in Nat /\ (sample = Never \/ sample \in Nat)
  BY RecordsAssumption DEF SamplesOK
<1>2. CASE sample = Never
  BY <1>2 DEF IsFresh
<1>3. CASE sample # Never
  <2>1. sample \in Nat /\ ~(instant - sample < SampleTtl)
    BY <1>1, <1>3 DEF IsFresh
  <2>. DEFINE later == instant'
  <2>2. later \in Nat /\ later >= instant
    BY <1>1
  <2>. HIDE DEF later
  <2>3. ~(later - sample < SampleTtl)
    BY <1>1, <2>1, <2>2
  <2>. QED  BY <2>3 DEF IsFresh, later
<1>. QED  BY <1>2, <1>3

\* Who measures is the one whose sample is stored.
LEMMA SamplesStep ==
  SamplesOK /\ [SamplesNext]_samplevars =>
    /\ SamplesOK'
    /\ \A a \in SampleAskers : asking[a].step = "sampling" /\ asking'[a].step = "" /\ ~asking[a].force => ~IsFresh
<1>. SUFFICES ASSUME SamplesOK, [SamplesNext]_samplevars PROVE SamplesOK'
  BY DEF SamplesOK, MeasuresOne
<1>0. AskingOK /\ MaxInstants \in Nat /\ instant \in Nat
  BY RecordsAssumption DEF SamplesOK
<1>1. CASE InstantPasses \/ UNCHANGED samplevars
  <2>1. UNCHANGED <<asking, sample>> /\ instant' \in {instant, instant + 1} /\ instant' \in 0..MaxInstants
    BY <1>0, <1>1 DEF InstantPasses, samplevars, SamplesOK
  <2>2. MeasuresOne'
    BY <2>1, StaysStale DEF SamplesOK, MeasuresOne
  <2>. QED  BY <1>0, <2>1, <2>2 DEF SamplesOK, AskingOK
<1>2. ASSUME NEW a \in SampleAskers, AskSample(a) \/ GetTheLock(a) \/ StoreSample(a) PROVE SamplesOK'
  <2>1. CASE AskSample(a)
    <3>1. PICK force \in BOOLEAN : asking' = [asking EXCEPT ![a] = [step |-> "waiting", force |-> force]]
      BY <2>1, Zenon DEF AskSample
    <3>2. UNCHANGED <<sample, instant>>
      BY <2>1, Zenon DEF AskSample
    <3>3. AskingOK' /\ asking'[a].step = "waiting" /\ \A b \in SampleAskers : b # a => asking'[b] = asking[b]
      BY <1>0, <3>1, AskedOf, SampleStepsAre
    <3>4. MeasuresOne'
      BY <3>2, <3>3, StaysStale, SampleStepsAre DEF SamplesOK, MeasuresOne
    <3>. QED  BY <3>2, <3>3, <3>4 DEF SamplesOK
  <2>2. CASE GetTheLock(a)
    <3>1. PICK to \in SampleSteps : asking' = [asking EXCEPT ![a].step = to] /\ (to = "sampling" => StillWanted(a))
      BY <2>2, SampleStepsAre, Zenon DEF GetTheLock
    <3>2. AskingOK' /\ asking'[a].step = to /\ \A b \in SampleAskers : b # a => asking'[b] = asking[b]
      BY <1>0, <3>1, AskedOf, TRUE \in BOOLEAN
    <3>3. asking'[a].step = "sampling" => asking'[a].force \/ ~IsFresh
      <4>1. asking'[a].force = asking[a].force
        BY <1>0, <3>1 DEF AskingOK
      <4>. QED  BY <3>1, <3>2, <4>1 DEF StillWanted
    <3>4. UNCHANGED <<sample, instant>>
      BY <2>2, Zenon DEF GetTheLock
    <3>5. \A b \in SampleAskers : asking[b].step # "sampling"
      BY <2>2, Zenon DEF GetTheLock
    <3>6. MeasuresOne'
      BY <3>2, <3>3, <3>4, <3>5, StaysStale DEF MeasuresOne
    <3>. QED  BY <3>2, <3>4, <3>6 DEF SamplesOK
  <2>3. CASE StoreSample(a)
    <3>1. asking' = [asking EXCEPT ![a].step = ""] /\ sample' = instant /\ UNCHANGED instant
      BY <2>3, Zenon DEF StoreSample
    <3>2. "" \in SampleSteps
      BY SampleStepsAre
    <3>3. AskingOK' /\ asking'[a].step = "" /\ \A b \in SampleAskers : b # a => asking'[b] = asking[b]
      BY <1>0, <3>1, <3>2, AskedOf, TRUE \in BOOLEAN, Zenon
    <3>4. asking[a].step = "sampling"
      BY <2>3, Zenon DEF StoreSample
    <3>5. \A b \in SampleAskers : asking'[b].step # "sampling"
      BY <3>3, <3>4, SampleStepsAre DEF SamplesOK, MeasuresOne
    <3>6. MeasuresOne'
      BY <3>5 DEF MeasuresOne
    <3>. QED  BY <3>1, <3>3, <3>6 DEF SamplesOK
  <2>. QED  BY <1>2, <2>1, <2>2, <2>3
<1>. QED  BY <1>1, <1>2 DEF SamplesNext

LEMMA StepOf == \A to, force : [step |-> to, force |-> force].step = to
OBVIOUS

LEMMA SamplesStart == RecordsInit => SamplesOK
<1>1. RecordsInit => asking = [a \in SampleAskers |-> [step |-> "", force |-> FALSE]] /\ sample = Never /\ instant = 0
  BY Zenon DEF RecordsInit
<1>2. [step |-> "", force |-> FALSE] \in [step : SampleSteps, force : BOOLEAN]
  BY SampleStepsAre, Zenon
<1>3. RecordsInit => asking \in [SampleAskers -> [step : SampleSteps, force : BOOLEAN]]
  BY <1>1, <1>2, Zenon
<1>4. 0 \in 0..MaxInstants
  BY RecordsAssumption
<1>5. ASSUME RecordsInit PROVE MeasuresOne
  <2>1. ASSUME NEW a \in SampleAskers PROVE asking[a].step = ""
    <3>1. asking[a] = [step |-> "", force |-> FALSE]
      BY <1>1, <1>5, Zenon
    <3>. QED  BY <3>1, StepOf, Zenon
  <2>. QED  BY <2>1, SampleStepsAre, Zenon DEF MeasuresOne
<1>. QED  BY <1>1, <1>3, <1>4, <1>5, Zenon DEF AskingOK, SamplesOK

-----------------------------------------------------------------------------
RecordsInv == FailuresInv /\ TimingsInv /\ SamplesOK

LEMMA RecordsStart == RecordsInit => RecordsInv
BY FailuresStart, TimingsStart, SamplesStart DEF RecordsInv

LEMMA RecordsWellTyped == RecordsInv => RecordsTypeOK
<1>. SUFFICES ASSUME RecordsInv PROVE RecordsTypeOK
  OBVIOUS
<1>1. \A p \in Recorders : ring[p] = Down \/ ring[p] \in Seq(1..MaxNotes)
  BY DEF RecordsInv, FailuresInv, RingOK, Up, Notes
<1>2. noted \in 0..MaxNotes /\ file \in Seq(1..MaxNotes) /\ Len(file) <= KeptFailures
  BY DEF RecordsInv, FailuresInv, FileOK, Notes
<1>3. ToSet(log) \subseteq Timing \cup Unreadable /\ timed \subseteq Timing
  BY DEF RecordsInv, TimingsInv, ToSet, LogLines
<1>4. sample \in {Never} \cup 0..MaxInstants
  BY DEF RecordsInv, SamplesOK
<1>5. asking \in [SampleAskers -> [step : {"", "waiting", "sampling"}, force : BOOLEAN]]
  BY Zenon DEF RecordsInv, SamplesOK, AskingOK, SampleSteps
<1>. QED  BY <1>1, <1>2, <1>3, <1>4, <1>5, Zenon DEF RecordsTypeOK

-----------------------------------------------------------------------------
\* All of it: what is proved of a part holds of TurnsSpec, where the others rest.

PartsStep ==
  /\ [Next]_vars /\ [ContextNext]_contextvars /\ [FollowUpsNext]_followvars /\ [NamingNext]_namingvars
  /\ [FormsNext]_formvars /\ [FailuresNext]_failurevars /\ [TimingsNext]_timingvars /\ [SamplesNext]_samplevars

LEMMA EachPartSteps == [TurnsNext]_turnvars => PartsStep
<1>1. CASE UNCHANGED turnvars
  BY <1>1 DEF turnvars, recordvars, PartsStep
<1>2. CASE InPart("approvals", Next)
  BY <1>2 DEF InPart, PartsStep
<1>3. CASE InPart("context", ContextNext)
  BY <1>3 DEF InPart, PartsStep
<1>4. CASE InPart("replies", FollowUpsNext)
  BY <1>4 DEF InPart, PartsStep
<1>5. CASE InPart("naming", NamingNext)
  BY <1>5 DEF InPart, PartsStep
<1>6. CASE InPart("forms", FormsNext)
  BY <1>6 DEF InPart, PartsStep
<1>7. CASE InPart("failures", FailuresNext)
  BY <1>7 DEF InPart, PartsStep
<1>8. CASE InPart("timings", TimingsNext)
  BY <1>8 DEF InPart, PartsStep
<1>9. CASE InPart("samples", SamplesNext)
  BY <1>9 DEF InPart, PartsStep
<1>. QED  BY <1>1, <1>2, <1>3, <1>4, <1>5, <1>6, <1>7, <1>8, <1>9 DEF TurnsNext

TurnsInv == IInv /\ ContextInv /\ FollowUpsInv /\ NamingInv /\ FormsOK /\ RecordsInv

LEMMA RecordsKeep == RecordsInv /\ PartsStep => RecordsInv'
BY FailuresStep, TimingsStep, SamplesStep DEF RecordsInv, PartsStep

LEMMA TurnsHold == TurnsSpec => []TurnsInv
<1>1. TurnsInit => TurnsInv
  BY InitInv, ContextStarts, FollowUpsStart, NamingStarts, FormsStart, FormsWellTyped, RecordsStart DEF TurnsInit, TurnsInv
<1>2. TurnsInv /\ [TurnsNext]_turnvars => TurnsInv'
  <2>. SUFFICES ASSUME TurnsInv, PartsStep PROVE TurnsInv'
    BY EachPartSteps
  <2>1. IInv'
    BY NextInv DEF TurnsInv, PartsStep
  <2>2. ContextInv'
    BY ContextStep DEF TurnsInv, PartsStep
  <2>3. FollowUpsInv'
    BY FollowUpsStep DEF TurnsInv, PartsStep
  <2>4. NamingInv'
    BY NamingStep DEF TurnsInv, PartsStep
  <2>5. FormsOK'
    BY FormsKept DEF TurnsInv, PartsStep
  <2>6. RecordsInv'
    BY RecordsKeep DEF TurnsInv
  <2>. QED  BY <2>1, <2>2, <2>3, <2>4, <2>5, <2>6 DEF TurnsInv
<1>. QED  BY <1>1, <1>2, PTL DEF TurnsSpec

\* The types of all parts: cards and turns, contexts, questions and answers, forms, records.
THEOREM TurnsWellTyped == TurnsSpec => []TurnsTypeOK
<1>1. IInv => TypeOK
  BY DEF IInv
<1>2. TurnsInv => TurnsTypeOK
  BY <1>1, ContextWellTyped, FollowUpsWellTyped, NamingWellTyped, FormsWellTyped, RecordsWellTyped
  DEF TurnsInv, TurnsTypeOK
<1>. QED  BY <1>2, TurnsHold, PTL

\* A summary tells of every turn of its part, one thread writes it, and a model is told what was
\* said: of any conversations, budgets and sizes (context.py).
THEOREM ContextsTellTheConversation == TurnsSpec => []ContextTellsTheConversation
<1>1. TurnsInv => ContextTellsTheConversation
  BY ContextTells DEF TurnsInv
<1>. QED  BY <1>1, TurnsHold, PTL

\* A short reply is taken for what it answers, over any number of turns (orchestrator._follow_up).
THEOREM ShortRepliesAreUnderstood == TurnsSpec => []RepliesAreUnderstood
<1>1. TurnsInv => RepliesAreUnderstood
  BY DEF TurnsInv, FollowUpsInv
<1>. QED  BY <1>1, TurnsHold, PTL

\* A command, and the answer to "Which one?" that names one, acts on one reminder that bears its
\* words, the one that rings first; the answer by its place in the list on the one that stood
\* there, which still bears what was asked about; a number on the one of that number, listed or
\* not (orchestrator._find_reminder, _follow_up).
THEOREM NamingIsRight == TurnsSpec => TheRightOneIsNamed
<1>1. TurnsInv /\ [TurnsNext]_turnvars =>
        [\A named \in [id : {0}, words : Sayings] : ActsAsNamed(named)]_namingvars
  BY ActsAsItIsNamed DEF TurnsInv
<1>2. TurnsInv /\ [TurnsNext]_turnvars =>
        [\A n \in Numbers : AnswersAs(n)]_namingvars
  BY AnswersWhatWasAsked DEF TurnsInv
<1>3. TurnsSpec => ActsOnTheNamed
  BY <1>1, TurnsHold, PTL DEF TurnsSpec, ActsOnTheNamed, ActsAsNamed
<1>4. TurnsSpec => AnswersTheQuestion
  BY <1>2, TurnsHold, PTL DEF TurnsSpec, AnswersTheQuestion, AnswersAs
<1>. QED  BY <1>3, <1>4 DEF TheRightOneIsNamed

\* What the assistant writes down of itself: failures that outlive their process, timings that are
\* kept once, samples that are shared, for any number of processes (failures.py, tracing.py, metrics.py).
THEOREM RecordsAreKeptTrue == TurnsSpec => RecordsAreTrue
<1>1. TurnsInv => FailuresOutliveTheProcess
  BY FailuresAreTrue DEF TurnsInv, RecordsInv
<1>2. TurnsInv => TimingsAreKept
  BY TimingsAreTrue DEF TurnsInv, RecordsInv
<1>3. TurnsInv /\ [TurnsNext]_turnvars =>
        [\A a \in SampleAskers : asking[a].step = "sampling" /\ asking'[a].step = "" /\ ~asking[a].force
           => ~IsFresh]_recordvars
  BY EachPartSteps, SamplesStep DEF TurnsInv, RecordsInv, PartsStep
<1>4. TurnsSpec => [][FailuresOutliveTheProcess']_failurevars
  BY <1>1, TurnsHold, PTL
<1>5. TurnsSpec => [][TimingsAreKept']_timingvars
  BY <1>2, TurnsHold, PTL
<1>6. TurnsSpec => SamplesAreShared
  BY <1>3, TurnsHold, PTL DEF TurnsSpec, SamplesAreShared
<1>. QED  BY <1>4, <1>5, <1>6 DEF RecordsAreTrue
=============================================================================
