---------------------------- MODULE SignInProofs ----------------------------
(***************************************************************************)
(* What TLAPS proves of SignIn, for any number of accounts, sessions,      *)
(* requests and command lines: the types, that an accepted session is one  *)
(* whose holder proved the account's present credentials, that a request   *)
(* gets in only on such credentials, that set-up makes one owner, that the *)
(* web app keeps a developer, and that who changes a password stays signed *)
(* in.                                                                     *)
(***************************************************************************)
EXTENDS SignIn, TLAPS

\* x holds credentials of account a checked at this epoch.  Epochs only grow,
\* so it is behind the account, or level with it and its proof still current.
Tracks(a, epoch, x) ==
  accounts[a].state # "deleted" =>
    /\ epoch <= accounts[a].epoch
    /\ epoch = accounts[a].epoch => x \in proved

\* An account some session or request refers to exists or existed.
Known(a) == a \in Accounts /\ accounts[a].state # "unused"

SessionOK(s) ==
  sessions[s].state # "unused" =>
    /\ Known(sessions[s].account)
    /\ sessions[s].state = "live" => Tracks(sessions[s].account, sessions[s].epoch, s)

\* The request r carries a session of the account it acts for.
Carries(r) ==
  /\ r.token \in Tokens /\ Known(r.account)
  /\ sessions[r.token].state # "unused"
  /\ sessions[r.token].account = r.account

\* What holds of the request r that p is in the middle of.
RequestOK(p, r) ==
  /\ r.step \in {"revoke old", "create", "rebind"} => Known(r.account) /\ Tracks(r.account, r.epoch, p)
  /\ r.step \in {"account", "admitted", "rebind"} => Carries(r)
  /\ r.step = "account" => Tracks(r.account, r.epoch, r.token)
  /\ r.step = "write" /\ r.op # "create" =>
       /\ r.target \in Accounts
       /\ r.account = r.target => Carries(r)
  /\ r.step \in {"rebind", "revoke"} => r.target \in Accounts

\* The inductive invariant: AcceptedIsCurrent is its conjunct on the sessions,
\* which holds only because the requests that will create or rebind a session
\* carry an epoch that is itself no fresher than their proof.
IInv ==
  /\ TypeOK
  /\ \A s \in Tokens : SessionOK(s)
  /\ \A p \in Actors : RequestOK(p, request[p])

-----------------------------------------------------------------------------

LEMMA IdleIsARequest == Idle \in Request /\ \A p \in Actors : RequestOK(p, Idle)
BY SignInAssumption DEF Idle, Request, RequestOK, Steps, AdminOps

\* A step that only moves one request forward keeps the invariant if the
\* request it leaves is itself well formed.
LEMMA OnlyTheRequest ==
  ASSUME IInv, NEW p \in Actors, NEW r \in Request, RequestOK(p, r), Goto(p, r),
         UNCHANGED <<accounts, sessions, proved>>
  PROVE  IInv'
<1>1. TypeOK'
  BY DEF IInv, TypeOK, Goto
<1>2. \A s \in Tokens : SessionOK(s)'
  BY DEF IInv, SessionOK, Known, Tracks
<1>3. ASSUME NEW q \in Actors PROVE RequestOK(q, request[q])'
  <2>1. CASE q = p
    <3>1. request'[q] = r
      BY <2>1 DEF IInv, TypeOK, Goto
    <3>. QED  BY <2>1, <3>1 DEF RequestOK, Carries, Known, Tracks
  <2>2. CASE q # p
    <3>1. request'[q] = request[q]
      BY <2>2 DEF IInv, TypeOK, Goto
    <3>. QED  BY <3>1 DEF IInv, RequestOK, Carries, Known, Tracks
  <2>. QED  BY <2>1, <2>2
<1>. QED  BY <1>1, <1>2, <1>3 DEF IInv

LEMMA InitInv == Init => IInv
<1>. SUFFICES ASSUME Init PROVE IInv
  OBVIOUS
<1>1. TypeOK
  BY IdleIsARequest DEF Init, TypeOK, Account, Session, Roles
<1>2. \A s \in Tokens : SessionOK(s)
  BY DEF Init, SessionOK
<1>3. \A p \in Actors : RequestOK(p, request[p])
  BY IdleIsARequest DEF Init
<1>. QED  BY <1>1, <1>2, <1>3 DEF IInv

-----------------------------------------------------------------------------
(* The steps that move one request and write nothing.                      *)

LEMMA SetUpInv ==
  ASSUME IInv, NEW c \in Clients, NEW cookie \in Tokens \cup {None}, SetUp(c, cookie)
  PROVE  IInv'
<1> DEFINE r == [Idle EXCEPT !.step = "set up", !.token = cookie]
<1>1. r \in Request /\ RequestOK(c, r)
  BY SignInAssumption DEF Idle, Request, RequestOK, Steps, AdminOps
<1>. QED  BY <1>1, OnlyTheRequest DEF SetUp, Actors

LEMMA ResolveInv ==
  ASSUME IInv, NEW c \in Clients, NEW s \in Tokens,
         NEW op \in {"command", "logout", "password", "admin"}, Resolve(c, s, op)
  PROVE  IInv'
<1> DEFINE r == [Idle EXCEPT !.step = "account", !.op = op, !.token = s,
                             !.account = sessions[s].account, !.epoch = sessions[s].epoch]
<1>1. sessions[s] \in Session /\ SessionOK(s) /\ sessions[s].state = "live"
  BY DEF IInv, TypeOK, Resolve
<1>2. r \in Request /\ RequestOK(c, r)
  BY <1>1, SignInAssumption
     DEF Idle, Request, RequestOK, Carries, Steps, AdminOps, Session, SessionOK, Known, Tracks
<1>. QED  BY <1>2, OnlyTheRequest DEF Resolve, Actors

LEMMA AdmitInv ==
  ASSUME IInv, NEW c \in Clients, Admit(c)
  PROVE  IInv'
<1> DEFINE r == [request[c] EXCEPT !.step = "admitted", !.epoch = 0]
<1>1. request[c] \in Request /\ RequestOK(c, request[c])
  BY DEF IInv, TypeOK, Actors
<1>2. r \in Request /\ RequestOK(c, r)
  BY <1>1 DEF Admit, Request, RequestOK, Carries, Steps
<1>. QED  BY <1>2, OnlyTheRequest DEF Admit, Actors

LEMMA NextCommandInv ==
  ASSUME IInv, NEW c \in Clients, NextCommand(c)
  PROVE  IInv'
<1> DEFINE s == request[c].token
           r == IF sessions[s].state = "live"
                THEN [request[c] EXCEPT !.step = "account", !.account = sessions[s].account,
                                        !.epoch = sessions[s].epoch]
                ELSE Idle
<1>1. request[c] \in Request /\ RequestOK(c, request[c])
  BY DEF IInv, TypeOK, Actors
<1>2. s \in Tokens
  BY <1>1 DEF NextCommand, RequestOK, Carries
<1>3. sessions[s] \in Session /\ SessionOK(s)
  BY <1>2 DEF IInv, TypeOK
<1>4. r \in Request /\ RequestOK(c, r)
  <2>1. CASE sessions[s].state = "live"
    BY <1>1, <1>2, <1>3, <2>1 DEF Request, RequestOK, Carries, Steps, Session, SessionOK, Known, Tracks
  <2>2. CASE sessions[s].state # "live"
    BY <2>2, IdleIsARequest DEF Actors
  <2>. QED  BY <2>1, <2>2
<1>. QED  BY <1>4, OnlyTheRequest DEF NextCommand, Actors

LEMMA AuthenticateInv ==
  ASSUME IInv, NEW c \in Clients, AuthenticateOwn(c) \/ AuthenticateAdmin(c)
  PROVE  IInv'
<1>1. request[c] \in Request /\ RequestOK(c, request[c]) /\ request[c].step = "admitted"
  BY DEF IInv, TypeOK, Actors, AuthenticateOwn, AuthenticateAdmin
<1>2. CASE AuthenticateOwn(c)
  <2> DEFINE r == [request[c] EXCEPT !.step = "write", !.target = request[c].account]
  <2>1. r \in Request /\ RequestOK(c, r)
    BY <1>1 DEF Request, RequestOK, Carries, Known, Steps
  <2>. QED  BY <1>2, <2>1, OnlyTheRequest DEF AuthenticateOwn, Actors
<1>3. CASE AuthenticateAdmin(c)
  <2> DEFINE r == [request[c] EXCEPT !.step = "find", !.token = None]
  <2>1. r \in Request /\ RequestOK(c, r)
    BY <1>1 DEF Request, RequestOK, Steps
  <2>. QED  BY <1>3, <2>1, OnlyTheRequest DEF AuthenticateAdmin, Actors
<1>. QED  BY <1>2, <1>3

LEMMA FindTargetInv ==
  ASSUME IInv, NEW c \in Clients, NEW op \in AdminOps, NEW t \in Accounts \cup {None},
         FindTarget(c, op, t)
  PROVE  IInv'
<1> DEFINE r == [request[c] EXCEPT !.step = "write", !.op = op, !.target = t]
<1>1. request[c] \in Request /\ (op # "create" => t \in Accounts /\ t # request[c].account)
  BY DEF IInv, TypeOK, Actors, FindTarget
<1>2. r \in Request /\ RequestOK(c, r)
  BY <1>1 DEF Request, RequestOK, Steps
<1>. QED  BY <1>2, OnlyTheRequest DEF FindTarget, Actors

LEMMA CommandInv ==
  ASSUME IInv, NEW p \in Terminals, NEW op \in AdminOps, NEW t \in Accounts \cup {None},
         Command(p, op, t)
  PROVE  IInv'
<1> DEFINE r == [Idle EXCEPT !.step = "write", !.op = op, !.target = t]
<1>1. r \in Request /\ RequestOK(p, r)
  BY SignInAssumption DEF Command, Idle, Request, RequestOK, Steps, AdminOps
<1>. QED  BY <1>1, OnlyTheRequest DEF Command, Actors

\* The steps that only end a request.
LEMMA EndInv ==
  ASSUME IInv, NEW p \in Actors, Goto(p, Idle), UNCHANGED <<accounts, sessions, proved>>
  PROVE  IInv'
BY IdleIsARequest, OnlyTheRequest

-----------------------------------------------------------------------------
(* The steps that write the session file.                                  *)

\* A step that leaves the accounts alone, loses no proof but p's own, and
\* gives no token to another account.
LEMMA OnlyTheSessions ==
  ASSUME IInv, NEW p \in Actors, NEW r \in Request, Goto(p, r),
         accounts' = accounts,
         sessions' \in [Tokens -> Session],
         proved' \subseteq Tokens \cup Actors, proved \ {p} \subseteq proved',
         \A s \in Tokens : sessions[s].state # "unused" =>
           sessions'[s].state # "unused" /\ sessions'[s].account = sessions[s].account,
         \A s \in Tokens : SessionOK(s)',
         RequestOK(p, request[p])'
  PROVE  IInv'
<1>1. TypeOK'
  BY DEF IInv, TypeOK, Goto
<1>2. ASSUME NEW q \in Actors PROVE RequestOK(q, request[q])'
  <2>1. CASE q = p
    BY <2>1 DEF IInv, TypeOK, Goto
  <2>2. CASE q # p
    <3>1. request'[q] = request[q] /\ RequestOK(q, request[q])
      BY <2>2 DEF IInv, TypeOK, Goto
    <3>2. p \notin Tokens
      BY SignInAssumption DEF Actors
    <3>. QED  BY <2>2, <3>1, <3>2 DEF RequestOK, Carries, Known, Tracks
  <2>. QED  BY <2>1, <2>2
<1>. QED  BY <1>1, <1>2 DEF IInv

LEMMA LoginInv ==
  ASSUME IInv, NEW c \in Clients, NEW a \in Accounts, NEW cookie \in Tokens \cup {None},
         Login(c, a, cookie)
  PROVE  IInv'
<1> DEFINE r == [Idle EXCEPT !.step = "revoke old", !.account = a,
                             !.epoch = accounts[a].epoch, !.token = cookie]
<1>1. accounts[a] \in Account
  BY DEF IInv, TypeOK
<1>2. r \in Request
  BY <1>1, SignInAssumption DEF Idle, Request, Steps, Account
<1>3. RequestOK(c, request[c])'
  <2>1. request'[c] = r
    BY DEF Login, Goto, IInv, TypeOK, Actors
  <2>2. Known(a)' /\ Tracks(a, accounts[a].epoch, c)'
    BY <1>1 DEF Login, Known, Tracks, Account
  <2>. QED  BY <2>1, <2>2 DEF Login, Idle, RequestOK
<1>4. \A s \in Tokens : SessionOK(s)'
  BY DEF Login, IInv, SessionOK, Known, Tracks
<1>. QED  BY <1>2, <1>3, <1>4, OnlyTheSessions DEF Login, IInv, TypeOK, Actors

\* Ending sessions forgets none of them: each stays with its account.
LEMMA EndedKeeps ==
  ASSUME TypeOK, NEW S
  PROVE  /\ Ended(S) \in [Tokens -> Session]
         /\ \A s \in Tokens :
              /\ Ended(S)[s].account = sessions[s].account
              /\ Ended(S)[s].epoch = sessions[s].epoch
              /\ Ended(S)[s].state = "unused" <=> sessions[s].state = "unused"
              /\ Ended(S)[s].state = "live" => sessions[s].state = "live"
BY DEF TypeOK, Ended, Session

LEMMA EndSessionsInv ==
  ASSUME IInv, NEW p \in Actors, NEW r \in Request, Goto(p, r), NEW S,
         sessions' = Ended(S), UNCHANGED <<accounts, proved>>, RequestOK(p, request[p])'
  PROVE  IInv'
<1>1. TypeOK
  BY DEF IInv
<1>2. /\ sessions' \in [Tokens -> Session]
      /\ \A s \in Tokens :
           /\ sessions'[s].account = sessions[s].account
           /\ sessions'[s].epoch = sessions[s].epoch
           /\ sessions'[s].state = "unused" <=> sessions[s].state = "unused"
           /\ sessions'[s].state = "live" => sessions[s].state = "live"
  BY <1>1, EndedKeeps, Zenon
<1>3. \A s \in Tokens : SessionOK(s)'
  BY <1>2 DEF IInv, SessionOK, Known, Tracks
<1>. QED  BY <1>2, <1>3, OnlyTheSessions DEF IInv, TypeOK

LEMMA RevokeOldInv ==
  ASSUME IInv, NEW c \in Clients, RevokeOld(c)
  PROVE  IInv'
<1> DEFINE r == [request[c] EXCEPT !.step = "create", !.token = None]
<1>1. request[c] \in Request /\ RequestOK(c, request[c])
  BY DEF IInv, TypeOK, Actors
<1>2. r \in Request
  BY <1>1 DEF Request, Steps
<1>3. RequestOK(c, request[c])'
  BY <1>1 DEF RevokeOld, Goto, IInv, TypeOK, Actors, Request, RequestOK, Known, Tracks
<1>. QED  BY <1>2, <1>3, EndSessionsInv DEF RevokeOld, Actors

LEMMA LogoutInv ==
  ASSUME IInv, NEW c \in Clients, Logout(c)
  PROVE  IInv'
<1>1. Idle \in Request /\ RequestOK(c, request[c])'
  BY IdleIsARequest DEF Logout, Goto, IInv, TypeOK, Actors, Idle, RequestOK
<1>. QED  BY <1>1, EndSessionsInv DEF Logout, Actors

LEMMA RevokeAccountInv ==
  ASSUME IInv, NEW p \in Actors, RevokeAccount(p)
  PROVE  IInv'
<1>1. Idle \in Request /\ RequestOK(p, request[p])'
  BY IdleIsARequest DEF RevokeAccount, Goto, IInv, TypeOK, Actors, Idle, RequestOK
<1>. QED  BY <1>1, EndSessionsInv DEF RevokeAccount

LEMMA CreateSessionInv ==
  ASSUME IInv, NEW c \in Clients, NEW s \in Tokens, CreateSession(c, s)
  PROVE  IInv'
<1>1. request[c] \in Request /\ RequestOK(c, request[c])
  BY DEF IInv, TypeOK, Actors
<1>2. Known(request[c].account) /\ Tracks(request[c].account, request[c].epoch, c)
  BY <1>1 DEF CreateSession, RequestOK
<1>3. sessions' \in [Tokens -> Session]
  BY <1>1, <1>2 DEF CreateSession, IInv, TypeOK, Session, Request, Known
<1>4. c \notin Tokens
  BY SignInAssumption
<1>5. ASSUME NEW x \in Tokens PROVE SessionOK(x)'
  <2>1. CASE x = s
    BY <1>2, <2>1 DEF CreateSession, IInv, TypeOK, SessionOK, Known, Tracks
  <2>2. CASE x # s
    BY <1>4, <2>2 DEF CreateSession, IInv, TypeOK, SessionOK, Known, Tracks
  <2>. QED  BY <2>1, <2>2
<1>6. Idle \in Request /\ RequestOK(c, request[c])'
  BY IdleIsARequest DEF CreateSession, Goto, IInv, TypeOK, Actors, Idle, RequestOK
<1>7. \A x \in Tokens : sessions[x].state # "unused" =>
        sessions'[x].state # "unused" /\ sessions'[x].account = sessions[x].account
  BY DEF CreateSession, IInv, TypeOK
<1>. QED  BY <1>3, <1>5, <1>6, <1>7, OnlyTheSessions DEF CreateSession, IInv, TypeOK, Actors

LEMMA RebindInv ==
  ASSUME IInv, NEW c \in Clients, Rebind(c)
  PROVE  IInv'
<1> DEFINE s == request[c].token
           r == [request[c] EXCEPT !.step = "revoke", !.epoch = 0]
<1>1. request[c] \in Request /\ RequestOK(c, request[c]) /\ request[c].step = "rebind"
  BY DEF IInv, TypeOK, Actors, Rebind
<1>2. /\ s \in Tokens /\ request[c].target \in Accounts
      /\ sessions[s].state # "unused" /\ sessions[s].account = request[c].account
      /\ Known(request[c].account)
      /\ Tracks(request[c].account, request[c].epoch, c)
  BY <1>1 DEF RequestOK, Carries
<1>3. r \in Request
  BY <1>1 DEF Request, Steps
<1>4. RequestOK(c, request[c])'
  BY <1>1, <1>2 DEF RequestOK, Rebind, Goto, IInv, TypeOK, Actors, Request
<1>5. c \notin Tokens
  BY SignInAssumption
<1>6. sessions' \in [Tokens -> Session]
  BY <1>1, <1>2 DEF Rebind, IInv, TypeOK, Session, Request
<1>7. ASSUME NEW x \in Tokens PROVE SessionOK(x)'
  <2>1. CASE x = s
    BY <1>1, <1>2, <1>5, <2>1 DEF Rebind, IInv, TypeOK, Session, SessionOK, Known, Tracks
  <2>2. CASE x # s
    BY <1>5, <2>2 DEF Rebind, IInv, TypeOK, SessionOK, Known, Tracks
  <2>. QED  BY <2>1, <2>2
<1>8. \A x \in Tokens : sessions[x].state # "unused" =>
        sessions'[x].state # "unused" /\ sessions'[x].account = sessions[x].account
  BY <1>2 DEF Rebind, IInv, TypeOK, Session
<1>9. proved' \subseteq Tokens \cup Actors /\ proved \ {c} \subseteq proved'
  BY <1>2 DEF Rebind, IInv, TypeOK
<1>. QED  BY <1>3, <1>4, <1>6, <1>7, <1>8, <1>9, OnlyTheSessions DEF Rebind, Actors

LEMMA ExpireInv ==
  ASSUME IInv, NEW s \in Tokens, Expire(s)
  PROVE  IInv'
<1>1. TypeOK
  BY DEF IInv
<1>2. /\ sessions' \in [Tokens -> Session]
      /\ \A x \in Tokens :
           /\ sessions'[x].account = sessions[x].account
           /\ sessions'[x].epoch = sessions[x].epoch
           /\ sessions'[x].state = "unused" <=> sessions[x].state = "unused"
           /\ sessions'[x].state = "live" => sessions[x].state = "live"
  <2>1. sessions' = Ended({s})
    BY DEF Expire
  <2>. QED  BY <1>1, <2>1, EndedKeeps, Zenon
<1>3. TypeOK'
  BY <1>2 DEF Expire, IInv, TypeOK
<1>4. \A x \in Tokens : SessionOK(x)'
  BY <1>2 DEF Expire, IInv, SessionOK, Known, Tracks
<1>5. \A p \in Actors : RequestOK(p, request[p])'
  BY <1>2 DEF Expire, IInv, RequestOK, Carries, Known, Tracks
<1>. QED  BY <1>3, <1>4, <1>5 DEF IInv

LEMMA ServerStopsInv ==
  ASSUME IInv, ServerStops
  PROVE  IInv'
<1>1. TypeOK'
  BY IdleIsARequest DEF ServerStops, IInv, TypeOK
<1>2. \A c \in Clients : c \notin Tokens /\ c \notin Terminals
  BY SignInAssumption
<1>3. \A s \in Tokens : SessionOK(s)'
  BY <1>2 DEF ServerStops, IInv, SessionOK, Known, Tracks
<1>4. ASSUME NEW p \in Actors PROVE RequestOK(p, request[p])'
  <2>1. CASE p \in Clients
    <3>1. request'[p] = Idle
      BY <2>1 DEF ServerStops
    <3>. QED  BY <3>1 DEF Idle, RequestOK
  <2>2. CASE p \notin Clients
    <3>1. request'[p] = request[p] /\ RequestOK(p, request[p])
      BY <2>2 DEF ServerStops, IInv
    <3>. QED  BY <1>2, <2>2, <3>1 DEF ServerStops, RequestOK, Carries, Known, Tracks
  <2>. QED  BY <2>1, <2>2
<1>. QED  BY <1>1, <1>3, <1>4 DEF IInv

-----------------------------------------------------------------------------
(* The steps that write the account file.                                  *)

\* A step that writes the accounts and leaves the sessions alone.  Only t
\* changes; either its epoch stays and no proof is lost, or its epoch moves
\* on, or it is deleted, and the proofs of its credentials go.
LEMMA OnlyTheAccounts ==
  ASSUME IInv, NEW p \in Actors, NEW r \in Request, Goto(p, r),
         NEW t \in Accounts,
         accounts' \in [Accounts -> Account], sessions' = sessions,
         proved' \subseteq Tokens \cup Actors,
         \A a \in Accounts \ {t} : accounts'[a] = accounts[a],
         accounts[t].state # "unused" => accounts'[t].state # "unused",
         \/ /\ proved \subseteq proved'
            /\ accounts[t].state # "unused" => accounts'[t].epoch = accounts[t].epoch
            /\ accounts[t].state = "deleted" => accounts'[t].state = "deleted"
         \/ /\ proved \ Outdated(t) \subseteq proved'
            /\ \/ accounts'[t].state = "deleted"
               \/ accounts'[t].epoch > accounts[t].epoch /\ accounts[t].state # "deleted",
         RequestOK(p, request[p])'
  PROVE  IInv'
<1>1. TypeOK'
  BY DEF IInv, TypeOK, Goto
<1>2. \A a \in Accounts : accounts[a] \in Account
  BY DEF IInv, TypeOK
<1>3. ASSUME NEW a \in Accounts, Known(a)
      PROVE  Known(a)'
  BY <1>3 DEF Known
<1>4. ASSUME NEW a \in Accounts, Known(a), NEW e \in Nat, NEW x, Tracks(a, e, x),
             x \in Outdated(t) => a = t
      PROVE  /\ accounts'[a].state # "deleted" =>
                  /\ e <= accounts'[a].epoch
                  /\ e = accounts'[a].epoch => x \in proved'
  <2>1. CASE a = t
    BY <1>2, <1>4, <2>1 DEF Known, Tracks, Account
  <2>2. CASE a # t
    BY <1>4, <2>2 DEF Tracks
  <2>. QED  BY <2>1, <2>2
<1>5. ASSUME NEW s \in Tokens PROVE SessionOK(s)'
  <2>1. SUFFICES ASSUME sessions[s].state # "unused"
        PROVE  /\ Known(sessions[s].account)'
               /\ sessions[s].state = "live" => Tracks(sessions[s].account, sessions[s].epoch, s)'
    BY DEF SessionOK
  <2>2. Known(sessions[s].account) /\ sessions[s].account \in Accounts /\ sessions[s].epoch \in Nat
    BY <2>1 DEF IInv, TypeOK, Session, SessionOK, Known
  <2>3. Known(sessions[s].account)'
    BY <1>3, <2>2
  <2>4. s \in Outdated(t) => sessions[s].account = t
    BY SignInAssumption DEF Outdated, Actors
  <2>5. CASE sessions[s].state = "live"
    <3>1. Tracks(sessions[s].account, sessions[s].epoch, s)
      BY <2>1, <2>5 DEF IInv, SessionOK
    <3>2. Tracks(sessions[s].account, sessions[s].epoch, s)'
      BY <1>4, <2>2, <2>4, <3>1 DEF Tracks
    <3>. QED  BY <2>3, <3>2
  <2>. QED  BY <2>3, <2>5
<1>6. ASSUME NEW q \in Actors PROVE RequestOK(q, request[q])'
  <2>1. CASE q = p
    BY <2>1
  <2>2. CASE q # p
    <3>1. request'[q] = request[q] /\ RequestOK(q, request[q]) /\ request[q] \in Request
      BY <2>2 DEF IInv, TypeOK, Goto
    <3>2. q \in Outdated(t) => request[q].account = t
      BY SignInAssumption DEF Outdated, Actors
    <3>3. Carries(request[q]) => Carries(request[q])'
      BY <1>3, <3>1 DEF Carries, Known
    <3>4. request[q].step \in {"revoke old", "create", "rebind"} =>
            (Known(request[q].account) /\ Tracks(request[q].account, request[q].epoch, q))'
      BY <1>3, <1>4, <3>1, <3>2 DEF RequestOK, Request, Known, Tracks
    <3>5. request[q].step = "account" =>
            Tracks(request[q].account, request[q].epoch, request[q].token)'
      <4>1. SUFFICES ASSUME request[q].step = "account"
            PROVE  Tracks(request[q].account, request[q].epoch, request[q].token)'
        OBVIOUS
      <4>2. Carries(request[q]) /\ Tracks(request[q].account, request[q].epoch, request[q].token)
        BY <3>1, <4>1 DEF RequestOK
      <4>3. request[q].token \in Outdated(t) => request[q].account = t
        BY <4>2, SignInAssumption DEF Carries, Outdated, Actors
      <4>. QED  BY <1>4, <3>1, <4>2, <4>3 DEF Carries, Known, Tracks, Request
    <3>. QED  BY <3>1, <3>3, <3>4, <3>5 DEF RequestOK
  <2>. QED  BY <2>1, <2>2
<1>. QED  BY <1>1, <1>5, <1>6 DEF IInv

LEMMA BootstrapInv ==
  ASSUME IInv, NEW c \in Clients, NEW a \in Accounts, Bootstrap(c, a)
  PROVE  IInv'
<1> DEFINE r == [request[c] EXCEPT !.step = "revoke old", !.account = a, !.epoch = 0]
<1>1. request[c] \in Request /\ c \in Actors
  BY DEF IInv, TypeOK, Actors
<1>2. r \in Request
  BY <1>1 DEF Request, Steps
<1>3. accounts' \in [Accounts -> Account] /\ accounts'[a].state = "enabled" /\ accounts'[a].epoch = 0
  BY DEF Bootstrap, IInv, TypeOK, Account, Roles
<1>4. RequestOK(c, request[c])'
  <2>1. request'[c] = r
    BY <1>1 DEF Bootstrap, Goto, IInv, TypeOK
  <2>2. Known(a)' /\ Tracks(a, 0, c)'
    <3>1. c \in proved'
      BY DEF Bootstrap
    <3>. QED  BY <1>3, <3>1 DEF Known, Tracks
  <2>3. r.step = "revoke old" /\ r.account = a /\ r.epoch = 0
    BY <1>1 DEF Request
  <2> HIDE DEF r
  <2>. QED  BY <2>1, <2>2, <2>3 DEF RequestOK, Known, Tracks
<1>5. \A b \in Accounts \ {a} : accounts'[b] = accounts[b]
  BY DEF Bootstrap, IInv, TypeOK
<1>6. proved' \subseteq Tokens \cup Actors /\ proved \subseteq proved' /\ accounts[a].state = "unused"
  BY <1>1 DEF Bootstrap, IInv, TypeOK
<1>7. Goto(c, r) /\ sessions' = sessions
  BY DEF Bootstrap
<1> HIDE DEF r
<1>. QED  BY <1>1, <1>2, <1>3, <1>4, <1>5, <1>6, <1>7, OnlyTheAccounts

LEMMA CreateInv ==
  ASSUME IInv, NEW p \in Actors, NEW a \in Accounts, NEW role \in Roles, Create(p, a, role)
  PROVE  IInv'
<1>1. accounts' \in [Accounts -> Account] /\ accounts'[a].state = "enabled"
  BY DEF Create, IInv, TypeOK, Account
<1>2. \A b \in Accounts \ {a} : accounts'[b] = accounts[b]
  BY DEF Create, IInv, TypeOK
<1>3. RequestOK(p, request[p])' /\ Idle \in Request
  BY IdleIsARequest DEF Create, Goto, IInv, TypeOK, Idle, RequestOK
<1>4. proved' \subseteq Tokens \cup Actors /\ accounts[a].state = "unused"
  BY DEF Create, IInv, TypeOK
<1>. QED  BY <1>1, <1>2, <1>3, <1>4, OnlyTheAccounts DEF Create

LEMMA SetPasswordInv ==
  ASSUME IInv, NEW p \in Actors, SetPassword(p)
  PROVE  IInv'
<1>1. request[p] \in Request /\ RequestOK(p, request[p])
  BY DEF IInv, TypeOK
<1>2. PICK t \in Accounts : t = request[p].target
  BY <1>1 DEF SetPassword, Writing, RequestOK
<1>3. accounts[t] \in Account /\ Present(t)
  BY <1>2 DEF SetPassword, Writing, IInv, TypeOK
<1>4. PICK e \in Nat : e = accounts[t].epoch + 1
  BY <1>3 DEF Account
<1>5. /\ accounts' = [accounts EXCEPT ![t].epoch = e]
      /\ proved' = (proved \ Outdated(t)) \cup (IF request[p].account = t THEN {p} ELSE {})
      /\ sessions' = sessions
  BY <1>2, <1>4 DEF SetPassword
<1>6. accounts' \in [Accounts -> Account] /\ accounts'[t].epoch = e
      /\ accounts'[t].state = accounts[t].state
  BY <1>3, <1>4, <1>5 DEF IInv, TypeOK, Account
<1>7. \A b \in Accounts \ {t} : accounts'[b] = accounts[b]
  BY <1>5 DEF IInv, TypeOK
<1>8. proved' \subseteq Tokens \cup Actors /\ proved \ Outdated(t) \subseteq proved'
  BY <1>5 DEF IInv, TypeOK
<1>9. accounts'[t].epoch > accounts[t].epoch /\ accounts[t].state \notin {"unused", "deleted"}
  BY <1>3, <1>4, <1>6 DEF Present, Account
<1>10. CASE request[p].account = t
  <2> DEFINE r == [request[p] EXCEPT !.step = "rebind", !.epoch = e]
  <2>1. Goto(p, r)
    BY <1>2, <1>4, <1>10 DEF SetPassword
  <2>2. r \in Request
    BY <1>1 DEF Request, Steps
  <2>3. request'[p] = r
    BY <2>1 DEF Goto, IInv, TypeOK
  <2>4. /\ r.step = "rebind" /\ r.account = t /\ r.epoch = e /\ r.target = t
        /\ r.token = request[p].token
    BY <1>1, <1>2, <1>10 DEF Request
  <2>5. Carries(request[p])
    BY <1>1, <1>2, <1>10 DEF SetPassword, Writing, RequestOK
  <2> HIDE DEF r
  <2>6. RequestOK(p, request[p])'
    BY <1>4, <1>5, <1>6, <1>9, <1>10, <2>3, <2>4, <2>5 DEF RequestOK, Carries, Known, Tracks
  <2>. QED
    BY <1>5, <1>6, <1>7, <1>8, <1>9, <2>1, <2>2, <2>6, OnlyTheAccounts
<1>11. CASE request[p].account # t
  <2> DEFINE r == [request[p] EXCEPT !.step = "revoke"]
  <2>1. Goto(p, r)
    <3>1. Goto(p, [request[p] EXCEPT !.step = "revoke", !.epoch = @])
      BY <1>2, <1>11 DEF SetPassword
    <3>2. r = [request[p] EXCEPT !.step = "revoke", !.epoch = @]
      BY <1>1 DEF Request
    <3>. QED  BY <3>1, <3>2
  <2>2. r \in Request
    BY <1>1 DEF Request, Steps
  <2>3. request'[p] = r
    BY <2>1 DEF Goto, IInv, TypeOK
  <2>4. r.step = "revoke" /\ r.target = t
    BY <1>1, <1>2 DEF Request
  <2> HIDE DEF r
  <2>5. RequestOK(p, request[p])'
    BY <2>3, <2>4 DEF RequestOK
  <2>. QED
    BY <1>5, <1>6, <1>7, <1>8, <1>9, <2>1, <2>2, <2>5, OnlyTheAccounts
<1>. QED  BY <1>10, <1>11

LEMMA SetRoleInv ==
  ASSUME IInv, NEW p \in Actors, NEW role \in Roles, SetRole(p, role)
  PROVE  IInv'
<1> DEFINE t == request[p].target
<1>1. t \in Accounts
  BY DEF SetRole, Writing, IInv, RequestOK
<1>2. accounts' \in [Accounts -> Account] /\ accounts'[t].state = accounts[t].state
      /\ accounts'[t].epoch = accounts[t].epoch
  BY <1>1 DEF SetRole, Rerolled, IInv, TypeOK, Account
<1>3. \A b \in Accounts \ {t} : accounts'[b] = accounts[b]
  BY DEF SetRole, Rerolled, IInv, TypeOK
<1>4. RequestOK(p, request[p])' /\ Idle \in Request /\ proved' \subseteq Tokens \cup Actors
  BY IdleIsARequest DEF SetRole, Goto, IInv, TypeOK, Idle, RequestOK
<1>. QED  BY <1>1, <1>2, <1>3, <1>4, OnlyTheAccounts DEF SetRole

LEMMA EnableInv ==
  ASSUME IInv, NEW p \in Actors, Enable(p)
  PROVE  IInv'
<1> DEFINE t == request[p].target
<1>1. t \in Accounts /\ Present(t)
  BY DEF Enable, Writing, IInv, RequestOK
<1>2. accounts' \in [Accounts -> Account] /\ accounts'[t].state = "enabled"
      /\ accounts'[t].epoch = accounts[t].epoch /\ accounts[t].state # "deleted"
  BY <1>1 DEF Enable, Present, IInv, TypeOK, Account
<1>3. \A b \in Accounts \ {t} : accounts'[b] = accounts[b]
  BY DEF Enable, IInv, TypeOK
<1>4. RequestOK(p, request[p])' /\ Idle \in Request /\ proved' \subseteq Tokens \cup Actors
  BY IdleIsARequest DEF Enable, Goto, IInv, TypeOK, Idle, RequestOK
<1>. QED  BY <1>1, <1>2, <1>3, <1>4, OnlyTheAccounts DEF Enable

LEMMA DisableOrDeleteInv ==
  ASSUME IInv, NEW p \in Actors, Disable(p) \/ Delete(p)
  PROVE  IInv'
<1> DEFINE t == request[p].target
           r == [request[p] EXCEPT !.step = "revoke"]
<1>1. request[p] \in Request /\ t \in Accounts /\ Present(t)
  BY DEF Disable, Delete, Writing, IInv, TypeOK, RequestOK
<1>2. r \in Request
  BY <1>1 DEF Request, Steps
<1>3. /\ accounts' \in [Accounts -> Account]
      /\ accounts'[t].state \in {"disabled", "deleted"}
      /\ \/ accounts'[t].state = "deleted"
         \/ accounts'[t].epoch > accounts[t].epoch /\ accounts[t].state # "deleted"
  <2>1. CASE Disable(p)
    BY <1>1, <2>1 DEF Disable, Disabled, Present, IInv, TypeOK, Account
  <2>2. CASE Delete(p)
    BY <1>1, <2>2 DEF Delete, Deleted, IInv, TypeOK, Account, Roles
  <2>. QED  BY <2>1, <2>2
<1>4. \A b \in Accounts \ {t} : accounts'[b] = accounts[b]
  BY DEF Disable, Disabled, Delete, Deleted, IInv, TypeOK
<1>5. RequestOK(p, request[p])'
  <2>1. request'[p] = r
    BY DEF Disable, Delete, Goto, IInv, TypeOK
  <2>. QED  BY <1>1, <2>1 DEF Request, RequestOK
<1>6. /\ Goto(p, r) /\ sessions' = sessions
      /\ proved' \subseteq Tokens \cup Actors /\ proved \ Outdated(t) \subseteq proved'
  BY DEF Disable, Delete, IInv, TypeOK
<1> HIDE DEF t, r
<1>. QED  BY <1>1, <1>2, <1>3, <1>4, <1>5, <1>6, OnlyTheAccounts

-----------------------------------------------------------------------------
LEMMA NextInv == IInv /\ [Next]_vars => IInv'
<1>. SUFFICES ASSUME IInv, [Next]_vars PROVE IInv'
  OBVIOUS
<1>1. ASSUME NEW c \in Clients, SignInStep(c) PROVE IInv'
  BY <1>1, LoginInv, RevokeOldInv, CreateSessionInv, SetUpInv, BootstrapInv, EndInv
     DEF SignInStep, AlreadySetUp, Actors
<1>2. ASSUME NEW c \in Clients, RequestStep(c) PROVE IInv'
  <2>1. CASE Refuse(c) \/ Answer(c)
    BY <2>1, EndInv DEF Refuse, Answer, Actors
  <2>. QED
    BY <1>2, <2>1, ResolveInv, AdmitInv, NextCommandInv, LogoutInv, AuthenticateInv,
       FindTargetInv, RebindInv
       DEF RequestStep
<1>3. ASSUME NEW p \in Actors, WriteStep(p) PROVE IInv'
  <2>1. CASE NoSuchAccount(p) \/ LastDeveloper(p)
    BY <2>1, EndInv DEF NoSuchAccount, LastDeveloper
  <2>. QED
    BY <1>3, <2>1, CreateInv, SetPasswordInv, SetRoleInv, DisableOrDeleteInv, EnableInv,
       RevokeAccountInv
       DEF WriteStep
<1>4. ASSUME NEW p \in Terminals, CommandStops(p) PROVE IInv'
  BY <1>4, EndInv DEF CommandStops, Actors
<1>5. CASE UNCHANGED vars
  <2>1. TypeOK'
    BY <1>5 DEF IInv, TypeOK, vars
  <2>2. \A s \in Tokens : SessionOK(s)'
    BY <1>5 DEF IInv, SessionOK, Known, Tracks, vars
  <2>3. \A p \in Actors : RequestOK(p, request[p])'
    BY <1>5 DEF IInv, RequestOK, Carries, Known, Tracks, vars
  <2>. QED  BY <2>1, <2>2, <2>3 DEF IInv
<1>. QED
  BY <1>1, <1>2, <1>3, <1>4, <1>5, CommandInv, ExpireInv, ServerStopsInv DEF Next

THEOREM Invariance == Spec => []IInv
BY InitInv, NextInv, PTL DEF Spec

\* Every variable keeps its type: accounts, sessions and requests hold the
\* records the files and the handlers hold.
THEOREM TypeCorrect == Spec => []TypeOK
<1>1. IInv => TypeOK
  BY DEF IInv
<1>. QED  BY <1>1, Invariance, PTL

\* A session is accepted only on the credentials its account has now
\* (_account_for_session, set_password, set_disabled).
THEOREM AcceptedSessionsAreCurrent == Spec => []AcceptedIsCurrent
<1>1. IInv => AcceptedIsCurrent
  BY DEF IInv, AcceptedIsCurrent, Accepted, Current, SessionOK, Tracks
<1>. QED  BY <1>1, Invariance, PTL

-----------------------------------------------------------------------------
\* The accounts that are there and were made by setting the app up.
Owners == {a \in Accounts : Present(a) /\ accounts[a].owner}

\* Setting up finds no account at all, so it leaves the one it makes.
LEMMA BootstrapMakesOneOwner ==
  ASSUME TypeOK, NEW c, NEW a \in Accounts, Bootstrap(c, a)
  PROVE  OneOwner'
<1>1. \A b \in Accounts : b # a => accounts'[b] = accounts[b] /\ ~Present(b)
  BY DEF TypeOK, Bootstrap, SignInOn
<1>. QED  BY <1>1 DEF OneOwner, Present

\* No other write makes an owner, or brings back one that is gone.
LEMMA WritesMakeNoOwner ==
  ASSUME TypeOK, NEW p \in Actors, WriteStep(p)
  PROVE  Owners' \subseteq Owners
<1>1. \A b \in Accounts : accounts[b] \in Account
  BY DEF TypeOK
<1>2. request[p] \in Request
  BY DEF TypeOK
<1>3. ASSUME NEW a \in Accounts, NEW role \in Roles, Create(p, a, role) PROVE Owners' \subseteq Owners
  <2>1. ~accounts'[a].owner /\ \A b \in Accounts : b # a => accounts'[b] = accounts[b]
    BY <1>3 DEF TypeOK, Create
  <2>. QED  BY <2>1 DEF Owners, Present
<1>4. ASSUME SetPassword(p) PROVE Owners' \subseteq Owners
  <2>1. \A b \in Accounts : accounts'[b].state = accounts[b].state /\ accounts'[b].owner = accounts[b].owner
    BY <1>1, <1>4 DEF TypeOK, SetPassword, Account
  <2>. QED  BY <2>1 DEF Owners, Present
<1>5. ASSUME NEW role \in Roles, SetRole(p, role) PROVE Owners' \subseteq Owners
  <2>1. \A b \in Accounts : accounts'[b].state = accounts[b].state /\ accounts'[b].owner = accounts[b].owner
    BY <1>1, <1>5 DEF TypeOK, SetRole, Rerolled, Account
  <2>. QED  BY <2>1 DEF Owners, Present
<1>6. ASSUME Disable(p) \/ Enable(p) PROVE Owners' \subseteq Owners
  <2> DEFINE t == request[p].target
  <2>1. Present(t) /\ \A b \in Accounts : accounts'[b].owner = accounts[b].owner
    BY <1>1, <1>6 DEF TypeOK, Disable, Disabled, Enable, Writing, Account
  <2>2. \A b \in Accounts : b # t => accounts'[b] = accounts[b]
    BY <1>6 DEF TypeOK, Disable, Disabled, Enable
  <2>. QED  BY <2>1, <2>2 DEF Owners, Present
<1>7. ASSUME Delete(p) PROVE Owners' \subseteq Owners
  <2> DEFINE t == request[p].target
  <2>1. \A b \in Accounts : IF b = t THEN ~accounts'[b].owner ELSE accounts'[b] = accounts[b]
    BY <1>7 DEF TypeOK, Delete, Deleted
  <2>. QED  BY <2>1 DEF Owners, Present
<1>8. ASSUME NoSuchAccount(p) \/ LastDeveloper(p) \/ RevokeAccount(p) PROVE accounts' = accounts
  BY <1>8 DEF NoSuchAccount, LastDeveloper, RevokeAccount
<1>. QED
  BY <1>3, <1>4, <1>5, <1>6, <1>7, <1>8 DEF WriteStep, Owners, Present

\* The requests that set the app up at the same time make one owner between
\* them (AccountStore.create with first=True, under the file's lock).
THEOREM OnlyOneOwner == Spec => []OneOwner
<1>1. Init => OneOwner
  BY DEF Init, OneOwner, Present
<1>2. TypeOK /\ OneOwner /\ [Next]_vars => OneOwner'
  <2>. SUFFICES ASSUME TypeOK, OneOwner, [Next]_vars PROVE OneOwner'
    OBVIOUS
  <2>1. Owners' \subseteq Owners => OneOwner'
    BY DEF OneOwner, Owners
  <2>2. accounts' = accounts => OneOwner'
    BY <2>1 DEF Owners, Present
  <2>3. ASSUME NEW c \in Clients, SignInStep(c) PROVE OneOwner'
    <3>1. CASE \E a \in Accounts : Bootstrap(c, a)
      BY <3>1, BootstrapMakesOneOwner
    <3>. QED
      BY <2>2, <2>3, <3>1 DEF SignInStep, Login, RevokeOld, CreateSession, SetUp, AlreadySetUp
  <2>4. ASSUME NEW c \in Clients, RequestStep(c) PROVE OneOwner'
    BY <2>2, <2>4 DEF RequestStep, Resolve, Admit, Refuse, NextCommand, Answer, Logout,
                      AuthenticateOwn, AuthenticateAdmin, FindTarget, Rebind
  <2>5. ASSUME NEW p \in Actors, WriteStep(p) PROVE OneOwner'
    BY <2>1, <2>5, WritesMakeNoOwner
  <2>. QED
    BY <2>2, <2>3, <2>4, <2>5 DEF Next, Command, Expire, ServerStops, CommandStops, vars
<1>. QED  BY <1>1, <1>2, TypeCorrect, PTL DEF Spec

-----------------------------------------------------------------------------
\* Every write but the three that ask _keep_a_developer leaves the developers
\* there are.
LEMMA OtherWritesKeepDevelopers ==
  ASSUME TypeOK, NEW p \in Actors, WriteStep(p),
         \A role \in Roles : ~SetRole(p, role), ~Disable(p), ~Delete(p)
  PROVE  Developers \subseteq Developers'
<1>1. \A b \in Accounts : accounts[b] \in Account
  BY DEF TypeOK
<1>2. request[p] \in Request
  BY DEF TypeOK
<1>3. ASSUME NEW a \in Accounts, NEW role \in Roles, Create(p, a, role)
      PROVE  Developers \subseteq Developers'
  <2>1. a \notin Developers /\ \A b \in Accounts : b # a => accounts'[b] = accounts[b]
    BY <1>3 DEF TypeOK, Create, Developers, DevelopersIn
  <2>. QED  BY <2>1 DEF Developers, DevelopersIn
<1>4. ASSUME SetPassword(p) PROVE Developers \subseteq Developers'
  <2>1. \A b \in Accounts : accounts'[b].state = accounts[b].state /\ accounts'[b].role = accounts[b].role
    BY <1>1, <1>4 DEF TypeOK, SetPassword, Account
  <2>. QED  BY <2>1 DEF Developers, DevelopersIn
<1>5. ASSUME Enable(p) PROVE Developers \subseteq Developers'
  <2>1. \A b \in Accounts : /\ accounts'[b].role = accounts[b].role
                            /\ accounts'[b].state \in {accounts[b].state, "enabled"}
    BY <1>1, <1>5 DEF TypeOK, Enable, Account
  <2>. QED  BY <2>1 DEF Developers, DevelopersIn
<1>6. ASSUME NoSuchAccount(p) \/ LastDeveloper(p) \/ RevokeAccount(p) PROVE accounts' = accounts
  BY <1>6 DEF NoSuchAccount, LastDeveloper, RevokeAccount
<1>. QED
  BY <1>3, <1>4, <1>5, <1>6 DEF WriteStep, Developers, DevelopersIn

\* A step that takes the last developer away is one of those three, and it is
\* the command line's, which moves on with it.
LEMMA OnlyTerminalsLoseDevelopers ==
  ASSUME TypeOK, NEW p \in Actors, WriteStep(p), Developers # {}, Developers' = {}
  PROVE  p \in Terminals /\ request'[p] # request[p]
<1>1. request[p] \in Request /\ request \in [Actors -> Request]
  BY DEF TypeOK
<1>2. PICK role \in Roles : SetRole(p, role) \/ Disable(p) \/ Delete(p)
  BY OtherWritesKeepDevelopers DEF Roles
<1>3. ASSUME NEW file, accounts' = file, KeepsADeveloper(p, file) PROVE p \in Terminals
  BY <1>3 DEF KeepsADeveloper, Developers
<1>4. p \in Terminals
  BY <1>2, <1>3 DEF SetRole, Disable, Delete
<1>5. \E r \in Request : Goto(p, r) /\ r.step # "write" /\ request[p].step = "write"
  <2>1. CASE SetRole(p, role)
    BY <2>1, IdleIsARequest DEF SetRole, Writing, Idle
  <2>2. CASE Disable(p) \/ Delete(p)
    <3> DEFINE r == [request[p] EXCEPT !.step = "revoke"]
    <3>1. r \in Request /\ r.step = "revoke"
      BY <1>1 DEF Request, Steps
    <3>2. Goto(p, r) /\ request[p].step = "write"
      BY <2>2 DEF Disable, Delete, Writing
    <3>. QED  BY <3>1, <3>2
  <2>. QED  BY <1>2, <2>1, <2>2
<1>. QED  BY <1>1, <1>4, <1>5 DEF Goto

\* Two developers who demote, disable or delete each other through the web app
\* do not both succeed (_keep_a_developer, on the list about to be written).
THEOREM TheWebAppKeepsADeveloper == Spec => WebKeepsADeveloper
<1>1. TypeOK /\ [Next]_vars =>
        [Developers # {} /\ Developers' = {} => \E p \in Terminals : request'[p] # request[p]]_vars
  <2>. SUFFICES ASSUME TypeOK, Next, Developers # {}, Developers' = {}
                PROVE  \E p \in Terminals : request'[p] # request[p]
    BY DEF vars
  <2>1. accounts' # accounts
    BY DEF Developers, DevelopersIn
  <2>2. ASSUME NEW c \in Clients, SignInStep(c) PROVE FALSE
    <3>1. PICK a \in Accounts : Bootstrap(c, a)
      BY <2>1, <2>2 DEF SignInStep, Login, RevokeOld, CreateSession, SetUp, AlreadySetUp
    <3>2. a \in Developers'
      BY <3>1 DEF Bootstrap, TypeOK, Developers, DevelopersIn
    <3>. QED  BY <3>2
  <2>3. ASSUME NEW c \in Clients, RequestStep(c) PROVE FALSE
    BY <2>1, <2>3 DEF RequestStep, Resolve, Admit, Refuse, NextCommand, Answer, Logout,
                      AuthenticateOwn, AuthenticateAdmin, FindTarget, Rebind
  <2>4. \E p \in Actors : WriteStep(p)
    BY <2>1, <2>2, <2>3 DEF Next, Command, Expire, ServerStops, CommandStops
  <2>. QED  BY <2>4, OnlyTerminalsLoseDevelopers
<1>. QED  BY <1>1, TypeCorrect, PTL DEF Spec, WebKeepsADeveloper

-----------------------------------------------------------------------------
\* Of all the steps, only Admit takes a request from the account it read to
\* the handler behind the gate.
LEMMA OnlyAdmitEnters ==
  ASSUME IInv, Next, NEW c \in Clients,
         request[c].step = "account", request'[c].step = "admitted"
  PROVE  Admit(c)
<1>. USE DEF Idle
<1>1. request \in [Actors -> Request] /\ c \in Actors
  BY DEF IInv, TypeOK, Actors
<1>2. request'[c] # request[c] /\ request'[c] # Idle
  OBVIOUS
<1>3. ASSUME NEW p \in Actors, NEW r, Goto(p, r)
      PROVE  p = c /\ r.step = "admitted"
  BY <1>1, <1>2, <1>3 DEF Goto
<1>4. ASSUME NEW p \in Clients, SignInStep(p) PROVE FALSE
  <2>1. request[p] \in Request /\ p \in Actors
    BY <1>1 DEF Actors
  <2>2. ASSUME NEW a, NEW cookie, Login(p, a, cookie) PROVE FALSE
    BY <1>3, <2>1, <2>2 DEF Login, Request
  <2>3. ASSUME RevokeOld(p) PROVE FALSE
    BY <1>3, <2>1, <2>3 DEF RevokeOld, Request
  <2>4. ASSUME NEW s, CreateSession(p, s) PROVE FALSE
    BY <1>3, <2>1, <2>4 DEF CreateSession, Request
  <2>5. ASSUME NEW cookie, SetUp(p, cookie) PROVE FALSE
    BY <1>3, <2>1, <2>5 DEF SetUp, Request
  <2>6. ASSUME NEW a, Bootstrap(p, a) PROVE FALSE
    BY <1>3, <2>1, <2>6 DEF Bootstrap, Request
  <2>7. ASSUME AlreadySetUp(p) PROVE FALSE
    BY <1>3, <2>1, <2>7 DEF AlreadySetUp, Request
  <2>. QED  BY <1>4, <2>2, <2>3, <2>4, <2>5, <2>6, <2>7 DEF SignInStep
<1>5. ASSUME NEW p \in Clients, RequestStep(p) PROVE Admit(c)
  <2>1. request[p] \in Request /\ p \in Actors
    BY <1>1 DEF Actors
  <2>2. ASSUME NEW s, NEW op, Resolve(p, s, op) PROVE FALSE
    BY <1>3, <2>1, <2>2 DEF Resolve, Request
  <2>3. ASSUME Admit(p) PROVE Admit(c)
    BY <1>3, <2>1, <2>3 DEF Admit, Request
  <2>4. ASSUME Refuse(p) PROVE FALSE
    BY <1>3, <2>1, <2>4 DEF Refuse, Request
  <2>5. ASSUME NextCommand(p) PROVE FALSE
    BY <1>3, <2>1, <2>5 DEF NextCommand, Request
  <2>6. ASSUME Answer(p) PROVE FALSE
    BY <1>3, <2>1, <2>6 DEF Answer, Request
  <2>7. ASSUME Logout(p) PROVE FALSE
    BY <1>3, <2>1, <2>7 DEF Logout, Request
  <2>8. ASSUME AuthenticateOwn(p) PROVE FALSE
    BY <1>3, <2>1, <2>8 DEF AuthenticateOwn, Request
  <2>9. ASSUME AuthenticateAdmin(p) PROVE FALSE
    BY <1>3, <2>1, <2>9 DEF AuthenticateAdmin, Request
  <2>10. ASSUME NEW op, NEW t, FindTarget(p, op, t) PROVE FALSE
    BY <1>3, <2>1, <2>10 DEF FindTarget, Request
  <2>11. ASSUME Rebind(p) PROVE FALSE
    BY <1>3, <2>1, <2>11 DEF Rebind, Request
  <2>. QED
    BY <1>5, <2>2, <2>3, <2>4, <2>5, <2>6, <2>7, <2>8, <2>9, <2>10, <2>11 DEF RequestStep
<1>6. ASSUME NEW p \in Actors, WriteStep(p) PROVE FALSE
  <2>1. request[p] \in Request
    BY <1>1
  <2>2. ASSUME NoSuchAccount(p) PROVE FALSE
    BY <1>3, <2>1, <2>2 DEF NoSuchAccount, Request
  <2>3. ASSUME NEW a, NEW role, Create(p, a, role) PROVE FALSE
    BY <1>3, <2>1, <2>3 DEF Create, Request
  <2>4. ASSUME SetPassword(p) PROVE FALSE
    <3> DEFINE own == request[p].account = request[p].target
               r == [request[p] EXCEPT
                       !.step = IF own THEN "rebind" ELSE "revoke",
                       !.epoch = IF own THEN accounts[request[p].target].epoch + 1 ELSE @]
    <3>1. Goto(p, r)
      BY <2>4 DEF SetPassword
    <3>2. r.step \in {"rebind", "revoke"}
      BY <2>1 DEF Request
    <3> HIDE DEF r
    <3>. QED  BY <1>3, <3>1, <3>2
  <2>5. ASSUME NEW role, SetRole(p, role) PROVE FALSE
    BY <1>3, <2>1, <2>5 DEF SetRole, Request
  <2>6. ASSUME Disable(p) PROVE FALSE
    BY <1>3, <2>1, <2>6 DEF Disable, Request
  <2>7. ASSUME Enable(p) PROVE FALSE
    BY <1>3, <2>1, <2>7 DEF Enable, Request
  <2>8. ASSUME Delete(p) PROVE FALSE
    BY <1>3, <2>1, <2>8 DEF Delete, Request
  <2>9. ASSUME LastDeveloper(p) PROVE FALSE
    BY <1>3, <2>1, <2>9 DEF LastDeveloper, Request
  <2>10. ASSUME RevokeAccount(p) PROVE FALSE
    BY <1>3, <2>1, <2>10 DEF RevokeAccount, Request
  <2>. QED
    BY <1>6, <2>2, <2>3, <2>4, <2>5, <2>6, <2>7, <2>8, <2>9, <2>10 DEF WriteStep
<1>7. ASSUME NEW p \in Terminals, NEW op, NEW t, Command(p, op, t) \/ CommandStops(p) PROVE FALSE
  BY <1>1, <1>3, <1>7 DEF Command, CommandStops, Actors
<1>8. ~(\E s \in Tokens : Expire(s)) /\ ~ServerStops
  BY <1>1, <1>2 DEF Expire, ServerStops
<1>. QED  BY <1>4, <1>5, <1>6, <1>7, <1>8 DEF Next

\* A request that read its session before the account changed does not get
\* in after it (_account_for_session reads the two files one after the other).
THEOREM AdmittedRequestsAreCurrent == Spec => AdmittedIsCurrent
<1>1. IInv /\ [Next]_vars =>
        [\A c \in Clients :
           request[c].step = "account" /\ request'[c].step = "admitted"
             => request[c].token \in proved]_vars
  <2>. SUFFICES ASSUME IInv, Next, NEW c \in Clients,
                       request[c].step = "account", request'[c].step = "admitted"
                PROVE  request[c].token \in proved
    BY DEF vars
  <2>1. Admit(c)
    BY OnlyAdmitEnters
  <2>2. RequestOK(c, request[c]) /\ request[c] \in Request
    BY DEF IInv, TypeOK, Actors
  <2>. QED
    BY <2>1, <2>2 DEF Admit, MayEnter, Current, RequestOK, Tracks, Carries, Known
<1>. QED  BY <1>1, Invariance, PTL DEF Spec, AdmittedIsCurrent

-----------------------------------------------------------------------------
(* The device that changes its password.                                   *)

\* A request that has its password written and whose proof is still current
\* carries the epoch its account has.
Fresh(p) ==
  request[p].step = "rebind" /\ p \in proved /\ accounts[request[p].account].state # "deleted"
    => request[p].epoch = accounts[request[p].account].epoch

\* What a step does to a request, it does in that request's name.
LEMMA EachMovesItsOwn ==
  ASSUME TypeOK, Next, NEW c \in Actors, request'[c] # request[c]
  PROVE  \/ c \in Clients /\ (SignInStep(c) \/ RequestStep(c))
         \/ WriteStep(c)
         \/ \E op \in AdminOps, t \in Accounts \cup {None} : Command(c, op, t)
         \/ request'[c] = Idle
<1>1. request \in [Actors -> Request]
  BY DEF TypeOK
<1>2. ASSUME NEW p, NEW r, Goto(p, r) PROVE p = c
  BY <1>1, <1>2 DEF Goto
<1>3. ASSUME NEW p \in Clients, SignInStep(p) PROVE p = c
  BY <1>2, <1>3 DEF SignInStep, Login, RevokeOld, CreateSession, SetUp, Bootstrap, AlreadySetUp
<1>4. ASSUME NEW p \in Clients, RequestStep(p) PROVE p = c
  BY <1>2, <1>4 DEF RequestStep, Resolve, Admit, Refuse, NextCommand, Answer, Logout,
                    AuthenticateOwn, AuthenticateAdmin, FindTarget, Rebind
<1>5. ASSUME NEW p \in Actors, WriteStep(p) PROVE p = c
  BY <1>2, <1>5 DEF WriteStep, NoSuchAccount, Create, SetPassword, SetRole, Disable, Enable,
                    Delete, LastDeveloper, RevokeAccount
<1>6. ASSUME NEW p \in Terminals, NEW op \in AdminOps, NEW t \in Accounts \cup {None}, Command(p, op, t)
      PROVE  p = c
  BY <1>2, <1>6 DEF Command
<1>7. ASSUME NEW p \in Terminals, CommandStops(p) PROVE request'[c] = Idle
  BY <1>1, <1>2, <1>7 DEF CommandStops, Goto
<1>8. ServerStops => request'[c] = Idle
  BY <1>1 DEF ServerStops
<1>9. ~(\E s \in Tokens : Expire(s))
  BY DEF Expire
<1>. QED  BY <1>3, <1>4, <1>5, <1>6, <1>7, <1>8, <1>9 DEF Next

\* Only a password that was written leads to a rebinding, and a rebinding
\* only to the revocation behind it.
LEMMA OnlyPasswordsRebind ==
  ASSUME TypeOK, Next, NEW c \in Actors, request'[c] # request[c], request'[c] # Idle,
         request[c].step = "rebind" \/ request'[c].step = "rebind"
  PROVE  SetPassword(c) \/ (c \in Clients /\ Rebind(c))
<1>1. request \in [Actors -> Request] /\ request[c] \in Request
  BY DEF TypeOK
<1>2. ASSUME NEW r, Goto(c, r) PROVE request'[c] = r
  BY <1>1, <1>2 DEF Goto
<1>3. Idle.step = "idle"
  BY DEF Idle
<1>4. ASSUME SignInStep(c) PROVE FALSE
  <2>1. ASSUME NEW a, NEW cookie, Login(c, a, cookie) PROVE FALSE
    <3>1. request[c] = Idle /\ request'[c].step = "revoke old"
      BY <1>2, <2>1 DEF Login, Idle
    <3>. QED  BY <1>3, <3>1
  <2>2. ASSUME RevokeOld(c) PROVE FALSE
    BY <1>1, <1>2, <2>2 DEF RevokeOld, Request
  <2>3. ASSUME NEW cookie, SetUp(c, cookie) PROVE FALSE
    <3>1. request[c] = Idle /\ request'[c].step = "set up"
      BY <1>2, <2>3 DEF SetUp, Idle
    <3>. QED  BY <1>3, <3>1
  <2>4. ASSUME NEW a, Bootstrap(c, a) PROVE FALSE
    BY <1>1, <1>2, <2>4 DEF Bootstrap, Request
  <2>5. ASSUME NEW s, CreateSession(c, s) \/ AlreadySetUp(c) PROVE FALSE
    BY <1>2, <2>5 DEF CreateSession, AlreadySetUp
  <2>. QED  BY <1>4, <2>1, <2>2, <2>3, <2>4, <2>5 DEF SignInStep
<1>5. ASSUME RequestStep(c) PROVE Rebind(c)
  <2>1. ASSUME NEW s, NEW op, Resolve(c, s, op) PROVE FALSE
    <3>1. request[c] = Idle /\ request'[c].step = "account"
      BY <1>2, <2>1 DEF Resolve, Idle
    <3>. QED  BY <1>3, <3>1
  <2>2. ASSUME Admit(c) PROVE FALSE
    BY <1>1, <1>2, <2>2 DEF Admit, Request
  <2>3. ASSUME NextCommand(c) PROVE FALSE
    <3>1. request[c].step = "admitted" /\ request'[c].step \in {"account", "idle"}
      BY <1>1, <1>2, <1>3, <2>3 DEF NextCommand, Request
    <3>. QED  BY <3>1
  <2>4. ASSUME Refuse(c) \/ Answer(c) \/ Logout(c) PROVE FALSE
    BY <1>2, <2>4 DEF Refuse, Answer, Logout
  <2>5. ASSUME AuthenticateOwn(c) \/ AuthenticateAdmin(c) PROVE FALSE
    <3>1. request[c].step = "admitted" /\ request'[c].step \in {"write", "find"}
      BY <1>1, <1>2, <2>5 DEF AuthenticateOwn, AuthenticateAdmin, Request
    <3>. QED  BY <3>1
  <2>6. ASSUME NEW op, NEW t, FindTarget(c, op, t) PROVE FALSE
    BY <1>1, <1>2, <2>6 DEF FindTarget, Request
  <2>. QED  BY <1>5, <2>1, <2>2, <2>3, <2>4, <2>5, <2>6 DEF RequestStep
<1>6. ASSUME WriteStep(c) PROVE SetPassword(c)
  <2>1. ASSUME NEW a, NEW role,
               NoSuchAccount(c) \/ Create(c, a, role) \/ SetRole(c, role) \/ Enable(c)
                 \/ LastDeveloper(c) \/ RevokeAccount(c)
        PROVE  FALSE
    BY <1>2, <2>1 DEF NoSuchAccount, Create, SetRole, Enable, LastDeveloper, RevokeAccount
  <2>2. ASSUME Disable(c) \/ Delete(c) PROVE FALSE
    <3>1. request[c].step = "write" /\ request'[c].step = "revoke"
      BY <1>1, <1>2, <2>2 DEF Disable, Delete, Writing, Request
    <3>. QED  BY <3>1
  <2>. QED  BY <1>6, <2>1, <2>2 DEF WriteStep
<1>7. ASSUME NEW op, NEW t, Command(c, op, t) PROVE FALSE
  <2>1. request[c] = Idle /\ request'[c].step = "write"
    BY <1>2, <1>7 DEF Command, Idle
  <2>. QED  BY <1>3, <2>1
<1>8. \/ c \in Clients /\ (SignInStep(c) \/ RequestStep(c))
      \/ WriteStep(c)
      \/ \E op \in AdminOps, t \in Accounts \cup {None} : Command(c, op, t)
  BY EachMovesItsOwn
<1>. QED  BY <1>4, <1>5, <1>6, <1>7, <1>8

\* A request gains a proof only by a step of its own.
LEMMA ProofsAreOnesOwn ==
  ASSUME IInv, Next, NEW c \in Actors, c \in proved', c \notin proved
  PROVE  request'[c] # request[c]
<1>1. request \in [Actors -> Request] /\ c \notin Tokens /\ c \notin proved
  BY SignInAssumption DEF IInv, TypeOK, Actors
<1>2. Idle.step = "idle"
  BY DEF Idle
<1>3. ASSUME NEW p \in Clients, SignInStep(p) PROVE request'[c] # request[c]
  <2>1. ASSUME NEW a, NEW cookie, Login(p, a, cookie) PROVE request'[c] # request[c]
    <3>1. c = p /\ request[c] = Idle /\ request'[c].step = "revoke old"
      BY <1>1, <2>1 DEF Login, Goto, Idle
    <3>. QED  BY <1>2, <3>1
  <2>2. ASSUME NEW a, Bootstrap(p, a) PROVE request'[c] # request[c]
    <3>1. c = p /\ request[c].step = "set up" /\ request'[c].step = "revoke old"
      BY <1>1, <2>2 DEF Bootstrap, Goto, Request
    <3>. QED  BY <3>1
  <2>3. ASSUME NEW s \in Tokens, CreateSession(p, s) PROVE FALSE
    BY <1>1, <2>3 DEF CreateSession
  <2>4. ASSUME NEW cookie, RevokeOld(p) \/ SetUp(p, cookie) \/ AlreadySetUp(p) PROVE FALSE
    BY <1>1, <2>4 DEF RevokeOld, SetUp, AlreadySetUp
  <2>. QED  BY <1>3, <2>1, <2>2, <2>3, <2>4 DEF SignInStep
<1>4. ASSUME NEW p \in Clients, RequestStep(p) PROVE FALSE
  <2>1. ASSUME Rebind(p) PROVE FALSE
    <3>1. request[p].token \in Tokens
      BY <2>1 DEF Rebind, IInv, RequestOK, Carries, Actors
    <3>. QED  BY <1>1, <2>1, <3>1 DEF Rebind
  <2>. QED
    BY <1>1, <1>4, <2>1 DEF RequestStep, Resolve, Admit, Refuse, NextCommand, Answer, Logout,
                            AuthenticateOwn, AuthenticateAdmin, FindTarget
<1>5. ASSUME NEW p \in Actors, WriteStep(p) PROVE request'[c] # request[c]
  <2>1. ASSUME SetPassword(p) PROVE request'[c] # request[c]
    <3> DEFINE r == [request[p] EXCEPT
                       !.step = IF request[p].account = request[p].target THEN "rebind" ELSE "revoke",
                       !.epoch = IF request[p].account = request[p].target
                                 THEN accounts[request[p].target].epoch + 1 ELSE @]
    <3>1. c = p /\ Goto(p, r) /\ request[p].step = "write"
      BY <1>1, <2>1 DEF SetPassword, Writing
    <3>2. r.step \in {"rebind", "revoke"}
      BY <1>1 DEF Request
    <3> HIDE DEF r
    <3>3. request'[c] = r
      BY <1>1, <3>1 DEF Goto
    <3>. QED  BY <3>1, <3>2, <3>3
  <2>. QED
    BY <1>1, <1>5, <2>1 DEF WriteStep, NoSuchAccount, Create, SetRole, Disable, Enable, Delete,
                            LastDeveloper, RevokeAccount
<1>. QED
  BY <1>1, <1>3, <1>4, <1>5 DEF Next, Command, Expire, ServerStops, CommandStops

\* The account of a request that rebinds keeps its epoch, or it is deleted, or
\* its proofs are outdated by whoever else changed it.
LEMMA EpochsOutdate ==
  ASSUME IInv, Next, NEW c \in Actors, request[c].step = "rebind"
  PROVE  LET a == request[c].account IN
         /\ accounts[a].state = "deleted" => accounts'[a].state = "deleted"
         /\ \/ accounts'[a].state = "deleted"
            \/ accounts'[a].epoch = accounts[a].epoch
            \/ c \notin proved'
<1> DEFINE a == request[c].account
<1>1. TypeOK /\ request[c] \in Request /\ a \in Accounts /\ accounts[a] \in Account /\ accounts[a].state # "unused"
  BY DEF IInv, TypeOK, RequestOK, Known
<1> HIDE DEF a
<1>2. SUFFICES /\ accounts[a].state = "deleted" => accounts'[a].state = "deleted"
               /\ \/ accounts'[a].state = "deleted"
                  \/ accounts'[a].epoch = accounts[a].epoch
                  \/ c \notin proved'
  BY DEF a
<1>3. accounts' = accounts \/ accounts'[a] = accounts[a] =>
        /\ accounts[a].state = "deleted" => accounts'[a].state = "deleted"
        /\ accounts'[a].epoch = accounts[a].epoch
  OBVIOUS
<1>4. ASSUME NEW p \in Clients, NEW b \in Accounts, Bootstrap(p, b) PROVE accounts'[a] = accounts[a]
  BY <1>1, <1>4 DEF Bootstrap, TypeOK
<1>5. ASSUME NEW p \in Actors, NEW b \in Accounts, NEW role \in Roles, Create(p, b, role)
      PROVE  accounts'[a] = accounts[a]
  BY <1>1, <1>5 DEF Create, TypeOK
<1>6. ASSUME NEW p \in Actors, NEW role \in Roles, SetRole(p, role)
      PROVE  accounts'[a].state = accounts[a].state /\ accounts'[a].epoch = accounts[a].epoch
  BY <1>1, <1>6 DEF SetRole, Rerolled, TypeOK, Account
<1>7. ASSUME NEW p \in Actors, Enable(p)
      PROVE  /\ accounts[a].state = "deleted" => accounts'[a].state = "deleted"
             /\ accounts'[a].epoch = accounts[a].epoch
  <2>1. CASE request[p].target = a
    BY <1>1, <1>7, <2>1 DEF Enable, Writing, Present, TypeOK, Account
  <2>2. CASE request[p].target # a
    BY <1>1, <1>7, <2>2 DEF Enable, TypeOK
  <2>. QED  BY <2>1, <2>2
<1>8. ASSUME NEW p \in Actors, SetPassword(p) \/ Disable(p) \/ Delete(p)
      PROVE  /\ accounts[a].state = "deleted" => accounts'[a].state = "deleted"
             /\ accounts'[a].epoch = accounts[a].epoch \/ c \notin proved'
  <2> DEFINE t == request[p].target
  <2>1. request[p].step = "write" /\ Present(t) /\ p # c
    BY <1>8 DEF SetPassword, Disable, Delete, Writing
  <2>2. CASE t = a
    <3>1. accounts[a].state # "deleted"
      BY <2>1, <2>2 DEF Present
    <3>2. c \in Outdated(t)
      BY <2>2 DEF Outdated, a
    <3>3. c \notin proved'
      BY <1>8, <2>1, <3>2 DEF SetPassword, Disable, Delete
    <3>. QED  BY <3>1, <3>3
  <2>3. CASE t # a
    <3>1. accounts'[a] = accounts[a]
      BY <1>1, <1>8, <2>3 DEF SetPassword, Disable, Disabled, Delete, Deleted, TypeOK
    <3>. QED  BY <3>1
  <2>. QED  BY <2>2, <2>3
<1>9. ASSUME NEW p \in Clients, SignInStep(p) \/ RequestStep(p), \A b \in Accounts : ~Bootstrap(p, b)
      PROVE  accounts' = accounts
  BY <1>9 DEF SignInStep, Login, RevokeOld, CreateSession, SetUp, AlreadySetUp, RequestStep, Resolve,
              Admit, Refuse, NextCommand, Answer, Logout, AuthenticateOwn, AuthenticateAdmin,
              FindTarget, Rebind
<1>10. ASSUME NEW p \in Actors, NoSuchAccount(p) \/ LastDeveloper(p) \/ RevokeAccount(p)
       PROVE  accounts' = accounts
  BY <1>10 DEF NoSuchAccount, LastDeveloper, RevokeAccount
<1>11. ASSUME NEW p \in Actors, WriteStep(p)
       PROVE  /\ accounts[a].state = "deleted" => accounts'[a].state = "deleted"
              /\ accounts'[a].epoch = accounts[a].epoch \/ c \notin proved'
  BY <1>3, <1>5, <1>6, <1>7, <1>8, <1>10, <1>11 DEF WriteStep
<1>12. ASSUME NEW p \in Clients, SignInStep(p) \/ RequestStep(p)
       PROVE  accounts' = accounts \/ accounts'[a] = accounts[a]
  BY <1>4, <1>9, <1>12
<1>. QED
  BY <1>3, <1>11, <1>12 DEF Next, Command, Expire, ServerStops, CommandStops

\* A password is written at the epoch the request goes on with.
LEMMA PasswordsAreFresh ==
  ASSUME IInv, NEW c \in Actors, SetPassword(c)
  PROVE  Fresh(c)'
<1> DEFINE t == request[c].target
           own == request[c].account = t
           e == accounts[t].epoch + 1
           r == [request[c] EXCEPT !.step = IF own THEN "rebind" ELSE "revoke",
                                   !.epoch = IF own THEN e ELSE @]
<1>1. request \in [Actors -> Request] /\ request[c] \in Request /\ accounts \in [Accounts -> Account]
  BY DEF IInv, TypeOK
<1>2. Goto(c, r) /\ accounts' = [accounts EXCEPT ![t].epoch = e]
  BY DEF SetPassword
<1>3. t \in Accounts
  BY <1>1 DEF SetPassword, Writing, Request
<1>4. accounts'[t].epoch = e
  BY <1>1, <1>2, <1>3 DEF Account
<1>5. r.account = request[c].account /\ (own => r.epoch = e) /\ (~own => r.step = "revoke")
  BY <1>1 DEF Request
<1> HIDE DEF r, e
<1>6. request'[c] = r
  BY <1>1, <1>2 DEF Goto
<1>. QED  BY <1>4, <1>5, <1>6 DEF Fresh

LEMMA FreshSteps ==
  ASSUME IInv, [Next]_vars, NEW c \in Actors, Fresh(c)
  PROVE  Fresh(c)'
<1>1. CASE UNCHANGED vars
  BY <1>1 DEF vars, Fresh
<1>2. CASE Next /\ request'[c] = request[c]
  <2>1. SUFFICES ASSUME request[c].step = "rebind", c \in proved',
                        accounts'[request[c].account].state # "deleted"
                 PROVE  request[c].epoch = accounts'[request[c].account].epoch
    BY <1>2 DEF Fresh
  <2>2. c \in proved
    BY <1>2, <2>1, ProofsAreOnesOwn
  <2>3. /\ accounts[request[c].account].state # "deleted"
        /\ accounts'[request[c].account].epoch = accounts[request[c].account].epoch
    BY <1>2, <2>1, EpochsOutdate
  <2>. QED  BY <2>1, <2>2, <2>3 DEF Fresh
<1>3. CASE Next /\ request'[c] # request[c]
  <2>1. SUFFICES ASSUME request'[c].step = "rebind" PROVE Fresh(c)'
    BY DEF Fresh
  <2>2. request'[c] # Idle /\ TypeOK
    BY <2>1 DEF Idle, IInv
  <2>3. SetPassword(c) \/ Rebind(c)
    BY <1>3, <2>1, <2>2, OnlyPasswordsRebind
  <2>4. ~Rebind(c)
    BY <2>1, <2>2 DEF Rebind, Goto, TypeOK, Request
  <2>. QED  BY <2>3, <2>4, PasswordsAreFresh
<1>. QED  BY <1>1, <1>2, <1>3

\* The session a request rebinds is accepted, where its account is enabled.
LEMMA RebindsAccepted ==
  ASSUME IInv, NEW c \in Clients, Fresh(c), Rebind(c), c \in proved,
         sessions[request[c].token].state = "live",
         accounts[request[c].account].state = "enabled"
  PROVE  Accepted(request[c].token)'
<1> DEFINE s == request[c].token
           a == request[c].account
<1>1. /\ request[c] \in Request /\ request[c].step = "rebind" /\ RequestOK(c, request[c])
      /\ sessions \in [Tokens -> Session]
  BY DEF IInv, TypeOK, Actors, Rebind
<1>2. s \in Tokens /\ sessions[s].account = a /\ sessions[s] \in Session
  BY <1>1 DEF RequestOK, Carries
<1>3. sessions' = [sessions EXCEPT ![s].epoch = request[c].epoch] /\ accounts' = accounts
  BY DEF Rebind
<1>4. sessions'[s].state = "live" /\ sessions'[s].account = a /\ sessions'[s].epoch = request[c].epoch
  BY <1>1, <1>2, <1>3 DEF Session
<1>5. request[c].epoch = accounts[a].epoch
  BY <1>1 DEF Fresh
<1>6. s' = request'[c].token
  OBVIOUS
<1>7. request'[c].token = s
  BY <1>1 DEF Rebind, Goto, IInv, TypeOK, Actors, Request
<1>. QED  BY <1>3, <1>4, <1>5, <1>7 DEF Accepted, Current

\* The device that changes its password stays signed in (the rebind of
\* _change_password, after set_password moved the epoch).
THEOREM ChangersStaySignedIn == Spec => RebindKeepsTheChanger
<1> DEFINE FInv == \A p \in Actors : Fresh(p)
<1>1. Init => FInv
  <2>1. Idle.step # "rebind"
    BY DEF Idle
  <2>. QED  BY <2>1 DEF Init, Fresh
<1>2. IInv /\ FInv /\ [Next]_vars => FInv'
  BY FreshSteps
<1>3. IInv /\ FInv /\ [Next]_vars =>
        [\A c \in Clients :
           LET r == request[c] IN
           /\ r.step = "rebind" /\ request'[c].step = "revoke" /\ c \in proved
           /\ sessions[r.token].state = "live" /\ accounts[r.account].state = "enabled"
           => Accepted(r.token)']_vars
  <2>. SUFFICES ASSUME IInv, FInv, Next, NEW c \in Clients,
                       request[c].step = "rebind", request'[c].step = "revoke", c \in proved,
                       sessions[request[c].token].state = "live",
                       accounts[request[c].account].state = "enabled"
                PROVE  Accepted(request[c].token)'
    BY DEF vars
  <2>1. c \in Actors /\ TypeOK /\ request'[c] # request[c] /\ request'[c] # Idle
    BY DEF Actors, IInv, Idle
  <2>2. Rebind(c)
    BY <2>1, OnlyPasswordsRebind DEF SetPassword, Writing
  <2>. QED  BY <2>1, <2>2, RebindsAccepted
<1>. QED  BY <1>1, <1>2, <1>3, Invariance, PTL DEF Spec, RebindKeepsTheChanger

=============================================================================
