----------------------------- MODULE MailTokens -----------------------------
(***************************************************************************)
(* The mailbox tokens (token_vault.py) and the commands that get, renew,   *)
(* use and forget them (tools/email.py).  Each command waits for its card  *)
(* and for the provider, with the vault free for the others meanwhile.     *)
(*                                                                         *)
(* A grant is what the user gave for one authorization code: a renewed     *)
(* token is the same grant.  An older version of the app left copies of    *)
(* the vault beside it.  Which mail is read or sent is left out.           *)
(***************************************************************************)
EXTENDS Naturals, FiniteSets

CONSTANTS
  MailTurns,   \* turns that give mail commands
  Providers,
  MaxGrants,   \* bound: grants made, beside the one each provider may begin with
  MaxDamages   \* bound: how often the vault is damaged

ASSUME MailTokensAssumption == MaxGrants \in Nat /\ MaxDamages \in Nat

VARIABLES
  vault,      \* the token stored for each provider
  unreadable, \* the vault's bytes do not parse
  bak,        \* the tokens in token-vault.json.bak
  corrupt,    \* the tokens in the copies named .corrupt-<hash>
  mail,       \* the mail command of each turn
  grants,     \* grants made
  damages,
  forgotten,  \* ghost: tokens the user was told are removed
  renewing,   \* ghost: those of them that a refresh had read before
  misused     \* ghost: forgotten tokens that a command then loaded

mailvars == <<vault, unreadable, bak, corrupt, mail, grants, damages, forgotten, renewing, misused>>

Token == Providers \X (0..MaxGrants)
NoToken == <<>>
\* To use the mailbox is to search it, to leave a draft in it or to send from it.
MailOps == {"exchange", "refresh", "forget", "use"}
NoMail == [step |-> "idle"]
Mail == [step : {"asking", "approved", "answered", "forgetting"}, op : MailOps,
         provider : Providers, token : Token \cup {NoToken}]

MailTokensTypeOK ==
  /\ vault \in [Providers -> Token \cup {NoToken}] /\ unreadable \in BOOLEAN
  /\ \A copies \in {bak, corrupt, forgotten, renewing, misused} : copies \subseteq Token
  /\ mail \in [MailTurns -> Mail \cup {NoMail}] /\ grants \in 0..MaxGrants /\ damages \in 0..MaxDamages

\* What the copies of the vault may hold: the token each provider began with.
Firsts == {<<p, 0>> : p \in Providers}

MailTokensInit ==
  /\ \E stored \in SUBSET Providers : vault = [p \in Providers |-> IF p \in stored THEN <<p, 0>> ELSE NoToken]
  /\ unreadable = FALSE
  /\ bak \in {{}, Firsts} /\ corrupt \in {{}, Firsts}
  /\ mail = [t \in MailTurns |-> NoMail] /\ grants = 0 /\ damages = 0
  /\ forgotten = {} /\ renewing = {} /\ misused = {}
-----------------------------------------------------------------------------
MailAt(t, s, ops) == mail[t].step = s /\ mail[t].op \in ops
MailGoes(t, s, token) == mail' = [mail EXCEPT ![t].step = s, ![t].token = token]
MailEnds(t) == mail' = [mail EXCEPT ![t] = NoMail]

\* synchronized: a vault that is being written is not read.
VaultFree == \A t \in MailTurns : mail[t].step # "forgetting"

\* load: a vault that cannot be read raises, and is never read from a copy.
LoadedToken(p) == IF unreadable THEN NoToken ELSE vault[p]

\* The providers and the configuration are checked, and a refresh reads the
\* token it will renew, before the card.
AskForMail(t, op, p) ==
  /\ mail[t] = NoMail
  /\ op = "refresh" => VaultFree /\ LoadedToken(p) # NoToken
  /\ mail' = [mail EXCEPT ![t] = [step |-> "asking", op |-> op, provider |-> p,
                                  token |-> IF op = "refresh" THEN LoadedToken(p) ELSE NoToken]]
  /\ UNCHANGED <<vault, unreadable, bak, corrupt, grants, damages, forgotten, renewing, misused>>

MailCardAnswered(t) ==
  /\ MailAt(t, "asking", MailOps)
  /\ MailGoes(t, "approved", mail[t].token) \/ MailEnds(t)
  /\ UNCHANGED <<vault, unreadable, bak, corrupt, grants, damages, forgotten, renewing, misused>>

\* The provider gives a token for the code, or one that replaces the old.
ProviderAnswers(t) ==
  /\ MailAt(t, "approved", {"exchange", "refresh"})
  /\ \/ MailEnds(t) /\ UNCHANGED grants
     \/ /\ MailAt(t, "approved", {"refresh"})
        /\ MailGoes(t, "answered", mail[t].token) /\ UNCHANGED grants
     \/ /\ MailAt(t, "approved", {"exchange"}) /\ grants < MaxGrants
        /\ grants' = grants + 1
        /\ MailGoes(t, "answered", <<mail[t].provider, grants + 1>>)
  /\ UNCHANGED <<vault, unreadable, bak, corrupt, damages, forgotten, renewing, misused>>

\* _readable, for store and forget: what cannot be read is replaced.
Kept == IF unreadable THEN [p \in Providers |-> NoToken] ELSE vault

\* _save keeps no backup, and removes the one it finds.
SaveVault(tokens) == vault' = tokens /\ unreadable' = FALSE /\ bak' = {}

StoreToken(t) ==
  /\ MailAt(t, "answered", {"exchange", "refresh"}) /\ VaultFree
  /\ \/ SaveVault([Kept EXCEPT ![mail[t].provider] = mail[t].token])
     \/ UNCHANGED <<vault, unreadable, bak>>  \* TokenVaultError, or the write fails
  /\ MailEnds(t)
  /\ UNCHANGED <<corrupt, grants, damages, forgotten, renewing, misused>>

\* forget, under the vault's lock: first the vault.
ForgetToken(t) ==
  /\ MailAt(t, "approved", {"forget"}) /\ VaultFree
  /\ \/ /\ IF unreadable \/ vault[mail[t].provider] # NoToken
           THEN SaveVault([Kept EXCEPT ![mail[t].provider] = NoToken])
           ELSE UNCHANGED <<vault, unreadable, bak>>
        /\ MailGoes(t, "forgetting", IF unreadable THEN NoToken ELSE vault[mail[t].provider])
     \/ UNCHANGED <<vault, unreadable, bak>> /\ MailEnds(t)  \* the write fails
  /\ UNCHANGED <<corrupt, grants, damages, forgotten, renewing, misused>>

BeingRenewed == {mail[t].token : t \in {u \in MailTurns : mail[u] # NoMail /\ mail[u].op = "refresh"}}

\* Then every copy beside it, whether or not the vault held a token.
RemoveCopies(t) == bak' = {} /\ corrupt' = {}

ForgetCopies(t) ==
  /\ MailAt(t, "forgetting", {"forget"})
  /\ \/ /\ RemoveCopies(t)
        /\ LET told == {k \in Token : k[1] = mail[t].provider /\ k[2] <= grants}
                       \ {mail[u].token : u \in {v \in MailTurns : MailAt(v, "answered", {"exchange"})}}
           IN /\ forgotten' = forgotten \cup told
              /\ renewing' = renewing \cup (told \cap BeingRenewed)
     \* A copy cannot be removed: forget raises, with those before it removed.
     \/ /\ bak' \in {bak, {}} /\ corrupt' \in {corrupt, {}}
        /\ UNCHANGED <<forgotten, renewing>>
  /\ MailEnds(t)
  /\ UNCHANGED <<vault, unreadable, grants, damages, misused>>

\* A command that uses the mailbox loads the token when its card is answered.
UseToken(t) ==
  /\ MailAt(t, "approved", {"use"}) /\ VaultFree
  /\ misused' = misused \cup ({LoadedToken(mail[t].provider)} \cap forgotten)
  /\ MailEnds(t)
  /\ UNCHANGED <<vault, unreadable, bak, corrupt, grants, damages, forgotten, renewing>>

\* The disk, an editor or a sync tool.
VaultIsDamaged ==
  /\ damages < MaxDamages /\ VaultFree
  /\ damages' = damages + 1 /\ unreadable' = TRUE
  /\ UNCHANGED <<vault, bak, corrupt, mail, grants, forgotten, renewing, misused>>

MailTokensNext ==
  \/ VaultIsDamaged
  \/ \E t \in MailTurns :
       \/ \E op \in MailOps, p \in Providers : AskForMail(t, op, p)
       \/ MailCardAnswered(t) \/ ProviderAnswers(t) \/ StoreToken(t)
       \/ ForgetToken(t) \/ ForgetCopies(t) \/ UseToken(t)

MailTokensSpec == MailTokensInit /\ [][MailTokensNext]_mailvars
-----------------------------------------------------------------------------
\* A token the user had removed is nowhere on the disk, readable or not, in the
\* vault or in a copy of it, and no command gets it; a refresh that had read it
\* before is the one thing that can bring it back.
ForgottenTokensAreGone ==
  LET left == {vault[p] : p \in Providers} \cup bak \cup corrupt \cup misused IN
  left \cap (forgotten \ renewing) = {}
=============================================================================
