---------------------------- MODULE GoogleSignIn ----------------------------
(***************************************************************************)
(* Signing in with Google and linking an account to it (google_oidc.py and *)
(* webui._google_post, _google_get).  A window starts a flow and keeps its *)
(* proof; the system browser opens the launch link once, comes back with a *)
(* state that is claimed once, and the code is exchanged with no lock held;*)
(* the window then asks until the flow is ready.  Everything that touches  *)
(* an account happens under the account file's lock, so it is one step     *)
(* here, but for a link's change and the end of the sessions it must end,  *)
(* between which the server may stop.                                      *)
(***************************************************************************)
EXTENDS Naturals, FiniteSets, FiniteSetsExt

CONSTANTS
  Windows,      \* browser windows, each with its cookies
  People,       \* accounts, all with a password
  Identities,   \* Google's subjects
  Nobody,       \* no account, no identity, no window
  MaxFlows,     \* bound: flows kept, or still exchanging, at once
  Capacity,     \* flows kept at once
  MaxExchanges, \* codes exchanged at once
  MaxVersion    \* bound: changes of accounts

ASSUME GoogleAssumption ==
  /\ MaxFlows \in Nat /\ Capacity \in Nat /\ MaxExchanges \in Nat
  /\ MaxVersion \in Nat
  /\ Nobody \notin People \cup Identities \cup Windows
  /\ {"password", "none"} \cap Identities = {}

VARIABLES
  person,   \* each account: its identity, whether it is disabled, its version
  session,  \* each window's session: whose, by what, its number
  flow,     \* every flow
  cut       \* accounts whose link changed when the server stopped before their sessions ended

googlevars == <<person, session, flow, cut>>

Flows == 1..MaxFlows
\* Which session a flow was started with: a session gets a number with its
\* first flow, and tokens are only compared with those that flows keep.
Numbers == 0..MaxFlows
Person == [sub: Identities \cup {Nobody}, disabled: BOOLEAN, version: Nat]
Session == [of: People \cup {Nobody}, by: Identities \cup {"password", "none"}, number: Numbers]
\* A flow that was pruned, cancelled or taken is not kept; a callback that is
\* exchanging its code still holds it.
Flow == [kept: BOOLEAN, status: {"none", "waiting", "exchanging", "ready", "failed"},
         launch: BOOLEAN, state: BOOLEAN, window: Windows \cup {Nobody}, session: Numbers,
         account: People \cup {Nobody}, version: Nat, purpose: {"signin", "link"},
         result: Identities \cup {Nobody}]

GoogleTypeOK ==
  /\ person \in [People -> Person]
  /\ session \in [Windows -> Session]
  /\ flow \in [Flows -> Flow]
  /\ cut \subseteq People

NoSession == [of |-> Nobody, by |-> "none", number |-> 0]
NoFlow == [kept |-> FALSE, status |-> "none", launch |-> FALSE, state |-> FALSE, window |-> Nobody,
           session |-> 0, account |-> Nobody, version |-> 0, purpose |-> "signin", result |-> Nobody]
\* What is left of a flow that is not kept: its callback may be exchanging.
Dropped(f) == [NoFlow EXCEPT !.status = IF flow[f].status = "exchanging" THEN "exchanging" ELSE "none"]

GoogleInit ==
  /\ person = [a \in People |-> [sub |-> Nobody, disabled |-> FALSE, version |-> 0]]
  /\ session = [w \in Windows |-> NoSession]
  /\ flow = [f \in Flows |-> NoFlow]
  /\ cut = {}
-----------------------------------------------------------------------------
MayChange == MapThenSumSet(LAMBDA a : person[a].version, People) < MaxVersion

Kept == {f \in Flows : flow[f].kept}
Exchanging == {f \in Flows : flow[f].status = "exchanging"}

\* account is None for a window that is signed out.
VersionOf(w) == IF session[w].of = Nobody THEN 0 ELSE person[session[w].of].version

\* The number of the window's session, or one that no flow has.
NumberFor(w) ==
  IF session[w].of = Nobody \/ session[w].number # 0 THEN session[w].number
  ELSE CHOOSE n \in Numbers \ {0} : \A f \in Flows : flow[f].session # n

\* revoke_account, then _start_session: a new number, the window's old session ends.
SessionStarts(w, a, by, revoked) ==
  session' = [v \in Windows |->
    IF v = w THEN [of |-> a, by |-> by, number |-> 0]
    ELSE IF revoked /\ session[v].of = a THEN NoSession ELSE session[v]]

PasswordSignIn(w, a) ==
  /\ ~person[a].disabled
  /\ SessionStarts(w, a, "password", FALSE)
  /\ UNCHANGED <<person, flow, cut>>

SignOutHere(w) ==
  /\ session[w].of # Nobody
  /\ session' = [session EXCEPT ![w] = NoSession]
  /\ UNCHANGED <<person, flow, cut>>

\* A role, password or state set elsewhere; to disable an account ends its sessions.
AccountChanges(a, disabled) ==
  /\ MayChange
  /\ person' = [person EXCEPT ![a] =
                  [sub |-> person[a].sub, disabled |-> disabled, version |-> person[a].version + 1]]
  /\ session' = [w \in Windows |-> IF disabled /\ session[w].of = a THEN NoSession ELSE session[w]]
  /\ UNCHANGED <<flow, cut>>

\* POST /auth/google/start: to link, after the password, an account that has
\* no identity yet; to sign in, from a window that is signed out.
StartFlow(w, purpose) ==
  /\ Cardinality(Kept) < Capacity
  /\ IF purpose = "link"
     THEN session[w].of # Nobody /\ person[session[w].of].sub = Nobody
     ELSE session[w].of = Nobody
  /\ \E f \in Flows :
       /\ flow[f] = NoFlow /\ \A g \in 1..(f - 1) : flow[g] # NoFlow
       /\ flow' = [flow EXCEPT ![f] =
            [kept |-> TRUE, status |-> "waiting", launch |-> TRUE, state |-> FALSE, window |-> w,
             session |-> NumberFor(w), account |-> session[w].of, version |-> VersionOf(w),
             purpose |-> purpose, result |-> Nobody]]
  /\ session' = [session EXCEPT ![w].number = NumberFor(w)]
  /\ UNCHANGED <<person, cut>>

\* GET /auth/google/launch: the ticket works once.
Launch(f) ==
  /\ flow[f].kept /\ flow[f].launch
  /\ flow' = [flow EXCEPT ![f].launch = FALSE, ![f].state = TRUE]
  /\ UNCHANGED <<person, session, cut>>

\* GET /auth/google/callback: the state is claimed before the code is
\* exchanged; without a code, or without a free exchange, the flow fails.
Callback(f, code) ==
  /\ flow[f].kept /\ flow[f].state
  /\ flow' = [flow EXCEPT ![f].state = FALSE,
                ![f].status = IF code /\ Cardinality(Exchanging) < MaxExchanges THEN "exchanging" ELSE "failed"]
  /\ UNCHANGED <<person, session, cut>>

\* Google answers, or does not, whether the flow is still kept or not.
ExchangeEnds(f, s) ==
  /\ flow[f].status = "exchanging"
  /\ flow' = [flow EXCEPT ![f] =
       IF ~flow[f].kept THEN NoFlow
       ELSE [flow[f] EXCEPT !.result = s, !.status = IF s = Nobody THEN "failed" ELSE "ready"]]
  /\ UNCHANGED <<person, session, cut>>

\* Pruned after TTL, or cancelled by the window that has its proof.
FlowGoes(f) ==
  /\ flow[f].kept
  /\ flow' = [flow EXCEPT ![f] = Dropped(f)]
  /\ UNCHANGED <<person, session, cut>>

SameWindow(f) ==
  LET w == flow[f].window IN
    /\ flow[f].session = session[w].number
    /\ flow[f].account = session[w].of
    /\ flow[f].version = VersionOf(w)

\* complete: what the window gets for an answer that ends its flow with an error.
CompleteRefused(f) ==
  /\ flow[f].kept
  /\ ~SameWindow(f) \/ flow[f].status \in {"failed", "ready"}
  /\ flow' = [flow EXCEPT ![f] = Dropped(f)]
  /\ UNCHANGED <<person, session, cut>>

Ready(f) == flow[f].kept /\ flow[f].status = "ready" /\ SameWindow(f)

\* find_by_google_sub, but for the account itself.
LinkedTo(s, a) == {b \in People \ {a} : person[b].sub = s}

CompleteLink(f) ==
  /\ Ready(f) /\ flow[f].purpose = "link"
  /\ LinkedTo(flow[f].result, flow[f].account) = {}
  /\ LET a == flow[f].account IN
       /\ MayChange
       /\ person' = [person EXCEPT ![a] =
            [sub |-> flow[f].result, disabled |-> person[a].disabled, version |-> person[a].version + 1]]
       /\ SessionStarts(flow[f].window, a, flow[f].result, TRUE)
       /\ cut' = cut \ {a}
  /\ flow' = [flow EXCEPT ![f] = Dropped(f)]

CompleteSignIn(f) ==
  /\ Ready(f) /\ flow[f].purpose = "signin"
  /\ \E a \in People :
       /\ person[a].sub = flow[f].result /\ ~person[a].disabled
       /\ SessionStarts(flow[f].window, a, flow[f].result, FALSE)
  /\ flow' = [flow EXCEPT ![f] = Dropped(f)]
  /\ UNCHANGED <<person, cut>>

Unlinked(a) == [sub |-> Nobody, disabled |-> person[a].disabled, version |-> person[a].version + 1]

\* Mutant of Unlink: the sessions that Google opened go on.
UnlinkOnly(w) ==
  LET a == session[w].of IN
    /\ a # Nobody /\ MayChange
    /\ person' = [person EXCEPT ![a] = Unlinked(a)]
    /\ SessionStarts(w, a, "password", FALSE)
    /\ cut' = cut \ {a}
    /\ UNCHANGED flow

\* POST /auth/google/unlink, after the password.
Unlink(w) ==
  LET a == session[w].of IN
    /\ a # Nobody /\ MayChange
    /\ person' = [person EXCEPT ![a] = Unlinked(a)]
    /\ SessionStarts(w, a, "password", TRUE)
    /\ cut' = cut \ {a}
    /\ UNCHANGED flow

\* The account file is written and the server stops, or the session file
\* cannot be written: link and unlink leave the epoch alone, so the sessions stay.
UnlinkCutShort(w) ==
  LET a == session[w].of IN
    /\ a # Nobody /\ MayChange
    /\ person' = [person EXCEPT ![a] = Unlinked(a)]
    /\ cut' = cut \cup {a}
    /\ UNCHANGED <<session, flow>>

\* Flows are kept in memory; sessions are on disk.
ServerRestarts ==
  /\ Kept # {}
  /\ flow' = [f \in Flows |-> NoFlow]
  /\ UNCHANGED <<person, session, cut>>

GoogleNext ==
  \/ ServerRestarts
  \/ \E a \in People : \E disabled \in BOOLEAN : AccountChanges(a, disabled)
  \/ \E w \in Windows :
       \/ SignOutHere(w) \/ Unlink(w) \/ UnlinkCutShort(w)
       \/ \E a \in People : PasswordSignIn(w, a)
       \/ \E purpose \in {"signin", "link"} : StartFlow(w, purpose)
  \/ \E f \in Flows :
       \/ Launch(f) \/ \E code \in BOOLEAN : Callback(f, code)
       \/ \E s \in Identities \cup {Nobody} : ExchangeEnds(f, s)
       \/ FlowGoes(f) \/ CompleteRefused(f) \/ CompleteLink(f) \/ CompleteSignIn(f)

GoogleSpec == GoogleInit /\ [][GoogleNext]_googlevars
-----------------------------------------------------------------------------
\* A Google identity belongs to one account, whatever links are on their way
\* in other windows meanwhile.
OneAccountPerIdentity ==
  \A a, b \in People : person[a].sub = person[b].sub /\ person[a].sub # Nobody => a = b

\* Who came in with a Google identity stays in only while the account is
\* linked to that identity; only a server that stops between the two writes of
\* a link's change leaves such a session.
LinkOutlivesItsSessions ==
  \A w \in Windows : session[w].by \in Identities =>
    person[session[w].of].sub = session[w].by \/ session[w].of \in cut

\* An identity lets its holder into the one account it is linked to, and for
\* no longer than it is.
GoogleLinksHold == OneAccountPerIdentity /\ LinkOutlivesItsSessions
=============================================================================
