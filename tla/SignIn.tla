------------------------------- MODULE SignIn -------------------------------
(***************************************************************************)
(* Accounts, sessions and the requests that change them, as the web app    *)
(* (webui.py), the account file (accounts.py) and the session file         *)
(* (sessions.py) implement them.                                           *)
(*                                                                         *)
(* The server gives every request a thread of its own, and the command     *)
(* line is another process.  Each call of AccountStore or SessionStore is  *)
(* atomic (a per-file lock, held across processes), and nothing is held    *)
(* between two calls: a password hash takes half a second there.  So a     *)
(* handler is a sequence of steps, one per call, and steps of different    *)
(* handlers interleave.                                                    *)
(*                                                                         *)
(* An account stands for its id and its username.  Passwords do not appear:*)
(* a client that authenticates is one that knew the password stored at     *)
(* that moment, and `proved' remembers whose proof is still current.       *)
(***************************************************************************)
EXTENDS Naturals

CONSTANTS
  Accounts,   \* account ids: random, never used twice
  Tokens,     \* session tokens: random, never used twice
  Clients,    \* request threads of the web server
  Terminals,  \* processes running `python -m laptop_agent.accounts`
  None,       \* neither an account nor a token
  MaxEpoch    \* bound: credential changes per account

ASSUME SignInAssumption ==
  /\ None \notin Accounts \cup Tokens
  /\ Clients \cap Terminals = {}
  /\ Tokens \cap (Clients \cup Terminals) = {}
  /\ MaxEpoch \in Nat

VARIABLES
  accounts,   \* accounts.json
  sessions,   \* sessions.json: the record behind each token
  request,    \* what each thread or process is in the middle of
  proved      \* history: the sessions and requests whose holder proved, or
              \* set, the credentials its account has now

vars == <<accounts, sessions, request, proved>>

Actors == Clients \cup Terminals
Roles == {"dev", "personal"}

Account == [state: {"unused", "enabled", "disabled", "deleted"},
            role: Roles, owner: BOOLEAN, epoch: Nat]
Session == [state: {"unused", "live", "ended"},
            account: Accounts \cup {None}, epoch: Nat]
Steps == {"idle", "set up", "revoke old", "create", "account", "admitted",
          "find", "write", "rebind", "revoke"}
AdminOps == {"password", "role", "disable", "enable", "delete", "create"}
Request == [step: Steps, op: {"none", "command", "logout", "admin"} \cup AdminOps,
            account: Accounts \cup {None}, epoch: Nat,
            token: Tokens \cup {None}, target: Accounts \cup {None}]

TypeOK ==
  /\ accounts \in [Accounts -> Account]
  /\ sessions \in [Tokens -> Session]
  /\ request \in [Actors -> Request]
  /\ proved \subseteq Tokens \cup Actors

Idle == [step |-> "idle", op |-> "none", account |-> None, epoch |-> 0,
         token |-> None, target |-> None]

Init ==
  /\ accounts = [a \in Accounts |-> [state |-> "unused", role |-> "personal",
                                     owner |-> FALSE, epoch |-> 0]]
  /\ sessions = [s \in Tokens |-> [state |-> "unused", account |-> None, epoch |-> 0]]
  /\ request = [p \in Actors |-> Idle]
  /\ proved = {}

-----------------------------------------------------------------------------
(* What the stores and the request gate answer.                            *)

Present(a) == accounts[a].state \in {"enabled", "disabled"}

SignInOn == \E a \in Accounts : Present(a)

DevelopersIn(file) == {a \in Accounts : file[a].state = "enabled" /\ file[a].role = "dev"}

Developers == DevelopersIn(accounts)

\* Mutant of Current: the epoch is stored and never compared.
EnabledIsCurrent(a, epoch) == accounts[a].state = "enabled"

\* The account still answers for credentials of this epoch.
Current(a, epoch) == accounts[a].state = "enabled" /\ accounts[a].epoch = epoch

Accepted(s) ==
  /\ sessions[s].state = "live"
  /\ Current(sessions[s].account, sessions[s].epoch)

\* The session file without the sessions of S.
Ended(S) == [s \in Tokens |-> IF s \in S /\ sessions[s].state = "live"
                              THEN [sessions[s] EXCEPT !.state = "ended"]
                              ELSE sessions[s]]

\* Whose proof of a's credentials is lost when those change.
Outdated(a) == {s \in Tokens : sessions[s].account = a}
                 \cup {p \in Actors : request[p].account = a}

Goto(p, r) == request' = [request EXCEPT ![p] = r]

-----------------------------------------------------------------------------
(* Signing in.                                                             *)

\* authenticate: the record is read, the hash runs without the lock, and the
\* record as it was read is what the sign-in continues with.
Login(c, a, cookie) ==
  /\ request[c] = Idle
  /\ accounts[a].state = "enabled"
  /\ Goto(c, [Idle EXCEPT !.step = "revoke old", !.account = a,
                          !.epoch = accounts[a].epoch, !.token = cookie])
  /\ proved' = proved \cup {c}
  /\ UNCHANGED <<accounts, sessions>>

\* Whatever this browser held before is ended...
RevokeOld(c) ==
  /\ request[c].step = "revoke old"
  /\ sessions' = Ended({request[c].token})
  /\ Goto(c, [request[c] EXCEPT !.step = "create", !.token = None])
  /\ UNCHANGED <<accounts, proved>>

\* ... and a new session starts, at the epoch the credentials were checked.
CreateSession(c, s) ==
  /\ request[c].step = "create"
  /\ sessions[s].state = "unused"
  /\ sessions' = [sessions EXCEPT ![s] = [state |-> "live", account |-> request[c].account,
                                          epoch |-> request[c].epoch]]
  /\ proved' = IF c \in proved THEN (proved \ {c}) \cup {s} ELSE proved
  /\ Goto(c, Idle)
  /\ UNCHANGED accounts

\* The gate of /auth/bootstrap: open while there is no account, and to a
\* session after that.
SetUp(c, cookie) ==
  /\ request[c] = Idle
  /\ SignInOn => cookie # None /\ Accepted(cookie)
  /\ Goto(c, [Idle EXCEPT !.step = "set up", !.token = cookie])
  /\ UNCHANGED <<accounts, sessions, proved>>

\* Mutant of Bootstrap: set-up decided at the gate, not under the file's lock.
BootstrapWhenAsked(c, a) ==
  /\ request[c].step = "set up"
  /\ accounts[a].state = "unused"
  /\ accounts' = [accounts EXCEPT ![a] = [state |-> "enabled", role |-> "dev",
                                          owner |-> TRUE, epoch |-> 0]]
  /\ Goto(c, [request[c] EXCEPT !.step = "revoke old", !.account = a, !.epoch = 0])
  /\ proved' = proved \cup {c}
  /\ UNCHANGED sessions

Bootstrap(c, a) ==
  /\ request[c].step = "set up"
  /\ ~SignInOn
  /\ accounts[a].state = "unused"
  /\ accounts' = [accounts EXCEPT ![a] = [state |-> "enabled", role |-> "dev",
                                          owner |-> TRUE, epoch |-> 0]]
  /\ Goto(c, [request[c] EXCEPT !.step = "revoke old", !.account = a, !.epoch = 0])
  /\ proved' = proved \cup {c}
  /\ UNCHANGED sessions

AlreadySetUp(c) ==
  /\ request[c].step = "set up"
  /\ SignInOn
  /\ Goto(c, Idle)
  /\ UNCHANGED <<accounts, sessions, proved>>

-----------------------------------------------------------------------------
(* A request that carries a session: _account_for_session reads the        *)
(* session, then the account.                                              *)

Resolve(c, s, op) ==
  /\ request[c] = Idle
  /\ op \in {"command", "logout", "password", "admin"}
  /\ sessions[s].state = "live"
  /\ Goto(c, [Idle EXCEPT !.step = "account", !.op = op, !.token = s,
                          !.account = sessions[s].account, !.epoch = sessions[s].epoch])
  /\ UNCHANGED <<accounts, sessions, proved>>

\* Mutant of MayEnter: the epoch the session was read with is forgotten.
EnabledMayEnter(r) ==
  /\ accounts[r.account].state = "enabled"
  /\ r.op = "admin" => accounts[r.account].role = "dev"

\* The gate: the account is enabled, the epoch is the session's, and
\* managing accounts takes a developer.
MayEnter(r) ==
  /\ Current(r.account, r.epoch)
  /\ r.op = "admin" => accounts[r.account].role = "dev"

Admit(c) ==
  /\ request[c].step = "account"
  /\ MayEnter(request[c])
  /\ Goto(c, [request[c] EXCEPT !.step = "admitted", !.epoch = 0])
  /\ UNCHANGED <<accounts, sessions, proved>>

Refuse(c) ==
  /\ request[c].step = "account"
  /\ ~MayEnter(request[c])
  /\ Goto(c, Idle)
  /\ UNCHANGED <<accounts, sessions, proved>>

\* ensure_signed_in: work that is running asks again before every command.
NextCommand(c) ==
  /\ request[c].step = "admitted" /\ request[c].op = "command"
  /\ LET s == request[c].token IN
     Goto(c, IF sessions[s].state = "live"
             THEN [request[c] EXCEPT !.step = "account", !.account = sessions[s].account,
                                     !.epoch = sessions[s].epoch]
             ELSE Idle)
  /\ UNCHANGED <<accounts, sessions, proved>>

\* The answer is sent: the work is done, a wait or a wrong password ends the
\* request, or the account it names is not there or is its own.
Answer(c) ==
  /\ request[c].step \in {"admitted", "find"} /\ request[c].op # "logout"
  /\ Goto(c, Idle)
  /\ UNCHANGED <<accounts, sessions, proved>>

Logout(c) ==
  /\ request[c].step = "admitted" /\ request[c].op = "logout"
  /\ sessions' = Ended({request[c].token})
  /\ Goto(c, Idle)
  /\ UNCHANGED <<accounts, proved>>

-----------------------------------------------------------------------------
(* Changing an account: the password is asked for again, the target found, *)
(* the account file written under its lock, the sessions ended after it.   *)

\* _change_password: the account's own password, checked against the file.
AuthenticateOwn(c) ==
  /\ request[c].step = "admitted" /\ request[c].op = "password"
  /\ accounts[request[c].account].state = "enabled"
  /\ Goto(c, [request[c] EXCEPT !.step = "write", !.target = request[c].account])
  /\ UNCHANGED <<accounts, sessions, proved>>

\* _manage_account: the developer's own password...
AuthenticateAdmin(c) ==
  /\ request[c].step = "admitted" /\ request[c].op = "admin"
  /\ accounts[request[c].account].state = "enabled"
  /\ Goto(c, [request[c] EXCEPT !.step = "find", !.token = None])
  /\ UNCHANGED <<accounts, sessions, proved>>

\* ... then somebody else's account.
FindTarget(c, op, t) ==
  /\ request[c].step = "find"
  /\ op \in AdminOps
  /\ IF op = "create" THEN t = None
     ELSE t # None /\ Present(t) /\ t # request[c].account
  /\ Goto(c, [request[c] EXCEPT !.step = "write", !.op = op, !.target = t])
  /\ UNCHANGED <<accounts, sessions, proved>>

\* The command line asks for no password and takes any account.
Command(p, op, t) ==
  /\ request[p] = Idle
  /\ op \in AdminOps
  /\ IF op = "create" THEN t = None ELSE t # None /\ Present(t)
  /\ Goto(p, [Idle EXCEPT !.step = "write", !.op = op, !.target = t])
  /\ UNCHANGED <<accounts, sessions, proved>>

\* p is about to write op to an account that is still there.
Writing(p, op) ==
  /\ request[p].step = "write" /\ request[p].op = op
  /\ request[p].target # None /\ Present(request[p].target)

NoSuchAccount(p) ==
  /\ request[p].step = "write" /\ request[p].op # "create"
  /\ ~Present(request[p].target)
  /\ Goto(p, Idle)
  /\ UNCHANGED <<accounts, sessions, proved>>

Create(p, a, role) ==
  /\ request[p].step = "write" /\ request[p].op = "create"
  /\ accounts[a].state = "unused"
  /\ accounts' = [accounts EXCEPT ![a] = [state |-> "enabled", role |-> role,
                                          owner |-> FALSE, epoch |-> 0]]
  /\ Goto(p, Idle)
  /\ UNCHANGED <<sessions, proved>>

\* The new hash moves the epoch on.  A client changing its own password goes
\* on to rebind its session to the epoch this write returned.
SetPassword(p) ==
  LET t == request[p].target
      own == request[p].account = t
      epoch == accounts[t].epoch + 1
  IN /\ Writing(p, "password")
     /\ epoch <= MaxEpoch
     /\ accounts' = [accounts EXCEPT ![t].epoch = epoch]
     /\ proved' = (proved \ Outdated(t)) \cup (IF own THEN {p} ELSE {})
     /\ Goto(p, [request[p] EXCEPT !.step = IF own THEN "rebind" ELSE "revoke",
                                   !.epoch = IF own THEN epoch ELSE @])
     /\ UNCHANGED sessions

\* Mutant of Rebind: the session keeps the epoch it was signed in with.
KeepSession(c) ==
  /\ request[c].step = "rebind"
  /\ Goto(c, [request[c] EXCEPT !.step = "revoke", !.epoch = 0])
  /\ UNCHANGED <<accounts, sessions, proved>>

Rebind(c) ==
  /\ request[c].step = "rebind"
  /\ LET s == request[c].token IN
     IF sessions[s].state = "live"
     THEN /\ sessions' = [sessions EXCEPT ![s].epoch = request[c].epoch]
          /\ proved' = IF c \in proved THEN (proved \ {c}) \cup {s} ELSE proved
     ELSE /\ proved' = proved \ {c}
          /\ UNCHANGED sessions
  /\ Goto(c, [request[c] EXCEPT !.step = "revoke", !.epoch = 0])
  /\ UNCHANGED accounts

\* What the file would hold after each change of t.
Rerolled(t, role) == [accounts EXCEPT ![t].role = role]
\* Mutants of Disabled: the epoch stays, or moves the wrong way.
DisabledAtTheSameEpoch(t) == [accounts EXCEPT ![t].state = "disabled"]
DisabledAtThePreviousEpoch(t) == [accounts EXCEPT ![t].state = "disabled", ![t].epoch = @ - 1]
Disabled(t) == [accounts EXCEPT ![t].state = "disabled", ![t].epoch = @ + 1]
Deleted(t) == [accounts EXCEPT ![t] = [state |-> "deleted", role |-> "personal",
                                      owner |-> FALSE, epoch |-> 0]]

\* Mutant of KeepsADeveloper: decided on the list read before the change.
KeptADeveloper(p, after) == p \in Terminals \/ Developers # {}

\* _keep_a_developer, decided on the list about to be written: the web app
\* asks for it, the command line does not.
KeepsADeveloper(p, after) == p \in Terminals \/ DevelopersIn(after) # {}

SetRole(p, role) ==
  LET after == Rerolled(request[p].target, role) IN
  /\ Writing(p, "role")
  /\ KeepsADeveloper(p, after)
  /\ accounts' = after
  /\ Goto(p, Idle)
  /\ UNCHANGED <<sessions, proved>>

Disable(p) ==
  LET t == request[p].target IN
  /\ Writing(p, "disable")
  /\ KeepsADeveloper(p, Disabled(t))
  /\ accounts[t].epoch < MaxEpoch
  /\ accounts' = Disabled(t)
  /\ proved' = proved \ Outdated(t)
  /\ Goto(p, [request[p] EXCEPT !.step = "revoke"])
  /\ UNCHANGED sessions

Enable(p) ==
  /\ Writing(p, "enable")
  /\ accounts' = [accounts EXCEPT ![request[p].target].state = "enabled"]
  /\ Goto(p, Idle)
  /\ UNCHANGED <<sessions, proved>>

Delete(p) ==
  LET t == request[p].target IN
  /\ Writing(p, "delete")
  /\ KeepsADeveloper(p, Deleted(t))
  /\ accounts' = Deleted(t)
  /\ proved' = proved \ Outdated(t)
  /\ Goto(p, [request[p] EXCEPT !.step = "revoke"])
  /\ UNCHANGED sessions

\* The change would leave no developer, and nothing is written.
LastDeveloper(p) ==
  LET t == request[p].target IN
  /\ \/ Writing(p, "role") /\ \E role \in Roles : ~KeepsADeveloper(p, Rerolled(t, role))
     \/ Writing(p, "disable") /\ ~KeepsADeveloper(p, Disabled(t))
     \/ Writing(p, "delete") /\ ~KeepsADeveloper(p, Deleted(t))
  /\ Goto(p, Idle)
  /\ UNCHANGED <<accounts, sessions, proved>>

\* revoke_account, keeping the session that changed its own password.
RevokeAccount(p) ==
  LET r == request[p]
      kept == IF r.account = r.target THEN {r.token} ELSE {}
  IN /\ r.step = "revoke"
     /\ sessions' = Ended({s \in Tokens : sessions[s].account = r.target} \ kept)
     /\ Goto(p, Idle)
     /\ UNCHANGED <<accounts, proved>>

-----------------------------------------------------------------------------
(* Time and failure.                                                       *)

\* Idle for seven days or thirty days old: resolve and _save drop it.
Expire(s) ==
  /\ sessions[s].state = "live"
  /\ sessions' = Ended({s})
  /\ UNCHANGED <<accounts, request, proved>>

\* The server stops between two calls, and every request with it.
ServerStops ==
  /\ \E c \in Clients : request[c] # Idle
  /\ request' = [p \in Actors |-> IF p \in Clients THEN Idle ELSE request[p]]
  /\ proved' = proved \ Clients
  /\ UNCHANGED <<accounts, sessions>>

\* A command is interrupted between its two writes.
CommandStops(p) ==
  /\ request[p] # Idle
  /\ Goto(p, Idle)
  /\ UNCHANGED <<accounts, sessions, proved>>

-----------------------------------------------------------------------------
SignInStep(c) ==
  \/ \E a \in Accounts, cookie \in Tokens \cup {None} : Login(c, a, cookie)
  \/ RevokeOld(c)
  \/ \E s \in Tokens : CreateSession(c, s)
  \/ \E cookie \in Tokens \cup {None} : SetUp(c, cookie)
  \/ \E a \in Accounts : Bootstrap(c, a)
  \/ AlreadySetUp(c)

RequestStep(c) ==
  \/ \E s \in Tokens, op \in {"command", "logout", "password", "admin"} : Resolve(c, s, op)
  \/ Admit(c)
  \/ Refuse(c)
  \/ NextCommand(c)
  \/ Answer(c)
  \/ Logout(c)
  \/ AuthenticateOwn(c)
  \/ AuthenticateAdmin(c)
  \/ \E op \in AdminOps, t \in Accounts \cup {None} : FindTarget(c, op, t)
  \/ Rebind(c)

WriteStep(p) ==
  \/ NoSuchAccount(p)
  \/ \E a \in Accounts, role \in Roles : Create(p, a, role)
  \/ SetPassword(p)
  \/ \E role \in Roles : SetRole(p, role)
  \/ Disable(p)
  \/ Enable(p)
  \/ Delete(p)
  \/ LastDeveloper(p)
  \/ RevokeAccount(p)

Next ==
  \/ \E c \in Clients : SignInStep(c) \/ RequestStep(c)
  \/ \E p \in Actors : WriteStep(p)
  \/ \E p \in Terminals, op \in AdminOps, t \in Accounts \cup {None} : Command(p, op, t)
  \/ \E s \in Tokens : Expire(s)
  \/ ServerStops
  \/ \E p \in Terminals : CommandStops(p)

Spec == Init /\ [][Next]_vars

-----------------------------------------------------------------------------
(* Properties.                                                             *)

\* A session the app accepts is one whose holder proved the credentials its
\* account has now, or set them: never one signed in under a password since
\* replaced, before a disable since undone, or whose sign-in was checked
\* before the change and finished after it (set_password, _account_for_session).
AcceptedIsCurrent == \A s \in Tokens : Accepted(s) => s \in proved

\* The session is read before the account, and either may change in between:
\* a request still gets in only on credentials that are current as it does.
AdmittedIsCurrent ==
  [][\A c \in Clients :
       request[c].step = "account" /\ request'[c].step = "admitted"
         => request[c].token \in proved]_vars

\* The device that changes its password stays signed in: rebinding its session
\* gets it accepted, unless the account was changed again since the write.
RebindKeepsTheChanger ==
  [][\A c \in Clients :
       LET r == request[c] IN
       /\ r.step = "rebind" /\ request'[c].step = "revoke" /\ c \in proved
       /\ sessions[r.token].state = "live" /\ accounts[r.account].state = "enabled"
       => Accepted(r.token)']_vars

\* Set-up makes one owner, however many requests raced for it (create(first=True)).
OneOwner ==
  \A a, b \in Accounts :
    Present(a) /\ Present(b) /\ accounts[a].owner /\ accounts[b].owner => a = b

\* Only the command line can leave the app without an enabled developer: two
\* developers demoting, disabling or deleting each other through the web app
\* do not both succeed.
WebKeepsADeveloper ==
  [][Developers # {} /\ Developers' = {} => \E p \in Terminals : request'[p] # request[p]]_vars

\* "enabling it again brings back no session, however late" (accounts.py:290).
EnableBringsBackNothing ==
  [][\A a \in Accounts :
       accounts[a].state = "disabled" /\ accounts'[a].state = "enabled"
         => \A s \in Tokens : sessions[s].account = a => ~Accepted(s)']_vars

=============================================================================
