------------------------------ MODULE MCSignIn ------------------------------
(***************************************************************************)
(* SignIn on a small instance.  Ids, tokens and threads are drawn from     *)
(* sets no code orders, so their names may be permuted.  Either all the    *)
(* web server's threads are at work, or one of them and the command line.  *)
(***************************************************************************)
EXTENDS SignIn, TLC

VARIABLE crew   \* who is at work in this behaviour

CrewInit == Init /\ crew \in {Clients} \cup {{c} \cup Terminals : c \in Clients}

\* Bound: beside a command, each account's credentials change once.
Short == crew \subseteq Clients \/ \A a \in Accounts : accounts'[a].epoch <= 1

CrewNext == Next /\ UNCHANGED crew /\ Short /\ \A p \in Actors \ crew : request'[p] = request[p]

CrewSpec == CrewInit /\ [][CrewNext]_<<vars, crew>>

Symmetry == Permutations(Accounts) \cup Permutations(Tokens) \cup Permutations(Clients)

=============================================================================
