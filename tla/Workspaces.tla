----------------------------- MODULE Workspaces -----------------------------
(***************************************************************************)
(* A new folder with files in it (workspace.py create): planned by a       *)
(* model, shown on a card, claimed by creating it, and filled file by      *)
(* file.  Several turns may create one of the same name at once, and the   *)
(* user may make one while a card is open and remove any at any time.      *)
(***************************************************************************)
EXTENDS Naturals

CONSTANTS
  Makers,     \* turns that create a folder; each wants the same name
  MaxFolders, \* the names _claim tries: <name>, <name>-2, ...
  PlannedFiles

ASSUME WorkspacesAssumption ==
  MaxFolders \in Nat /\ PlannedFiles \in Nat /\ {"user", "none"} \cap Makers = {}

VARIABLES
  maker,  \* where each turn is, and the folder it has
  folder, \* whose each folder is, and who wrote each file in it
  robbed  \* history: turns whose folder was removed while they fill it

wsvars == <<maker, folder, robbed>>

NameNumbers == 1..MaxFolders
NewFolder == [of: Makers \cup {"user", "none"}, files: [1..PlannedFiles -> Makers \cup {"none"}]]

WorkspacesTypeOK ==
  /\ maker \in [Makers -> [step: {"idle", "asking", "allowed", "filling"}, name: 0..MaxFolders, next: 1..(PlannedFiles + 1)]]
  /\ folder \in [NameNumbers -> NewFolder]
  /\ robbed \subseteq {m \in Makers : maker[m].step = "filling"}

NotMaking == [step |-> "idle", name |-> 0, next |-> 1]
NoFolder == [of |-> "none", files |-> [i \in 1..PlannedFiles |-> "none"]]

WorkspacesInit ==
  /\ maker = [m \in Makers |-> NotMaking]
  /\ folder = [n \in NameNumbers |-> NoFolder]
  /\ robbed = {}
-----------------------------------------------------------------------------
MakerAt(m, s) == maker[m].step = s
Taken(n) == folder[n].of # "none"
Fillers(n) == {m \in Makers : maker[m].step = "filling" /\ maker[m].name = n}

UserMakesFolder(n) ==
  /\ ~Taken(n)
  /\ folder' = [folder EXCEPT ![n] = [NoFolder EXCEPT !.of = "user"]]
  /\ UNCHANGED <<maker, robbed>>

UserRemovesFolder(n) ==
  /\ Taken(n)
  /\ folder' = [folder EXCEPT ![n] = NoFolder]
  /\ robbed' = robbed \cup Fillers(n)
  /\ UNCHANGED maker

\* The plan is made and is usable: the card shows it.
AskToCreate(m) ==
  /\ MakerAt(m, "idle")
  /\ maker' = [maker EXCEPT ![m] = [NotMaking EXCEPT !.step = "asking"]]
  /\ UNCHANGED <<folder, robbed>>

CreateAllowed(m) ==
  /\ MakerAt(m, "asking")
  /\ maker' = [maker EXCEPT ![m] = [NotMaking EXCEPT !.step = "allowed"]]
  /\ UNCHANGED <<folder, robbed>>

\* The first name of all that mkdir can create.
Claimable(n) == ~Taken(n) /\ \A k \in 1..(n - 1) : Taken(k)

\* _claim
Claim(m) ==
  /\ MakerAt(m, "allowed")
  /\ \E n \in NameNumbers :
       /\ Claimable(n)
       /\ folder' = [folder EXCEPT ![n] = [NoFolder EXCEPT !.of = m]]
       /\ maker' = [maker EXCEPT ![m] = [step |-> "filling", name |-> n, next |-> 1]]
  /\ UNCHANGED robbed

\* A folder that is not there any more is made again, and one that took its
\* place is written into: mkdir asks neither.
WriteFile(m) ==
  /\ MakerAt(m, "filling") /\ maker[m].next <= PlannedFiles
  /\ LET n == maker[m].name IN
     folder' = [folder EXCEPT ![n] = [of |-> IF Taken(n) THEN folder[n].of ELSE m,
                                      files |-> [folder[n].files EXCEPT ![maker[m].next] = m]]]
  /\ maker' = [maker EXCEPT ![m] = [maker[m] EXCEPT !.next = maker[m].next + 1]]
  /\ UNCHANGED robbed

Created(m) ==
  /\ MakerAt(m, "filling") /\ maker[m].next > PlannedFiles
  /\ maker' = [maker EXCEPT ![m] = NotMaking]
  /\ robbed' = robbed \ {m}
  /\ UNCHANGED folder

\* A write raises: rmtree takes the folder of this name away, whosever it is by
\* now, with all that is in it.
CreateFails(m) ==
  /\ MakerAt(m, "filling")
  /\ folder' = [folder EXCEPT ![maker[m].name] = NoFolder]
  /\ maker' = [maker EXCEPT ![m] = NotMaking]
  /\ robbed' = (robbed \cup Fillers(maker[m].name)) \ {m}

\* No name is free, the card is refused, rmtree fails or the process dies.
CreateStops(m) ==
  /\ ~MakerAt(m, "idle")
  /\ maker' = [maker EXCEPT ![m] = NotMaking]
  /\ robbed' = robbed \ {m}
  /\ UNCHANGED folder

WorkspacesNext ==
  \/ \E n \in NameNumbers : UserMakesFolder(n) \/ UserRemovesFolder(n)
  \/ \E m \in Makers :
       \/ AskToCreate(m) \/ CreateAllowed(m) \/ Claim(m) \/ WriteFile(m)
       \/ Created(m) \/ CreateFails(m) \/ CreateStops(m)

WorkspacesSpec == WorkspacesInit /\ [][WorkspacesNext]_wsvars
-----------------------------------------------------------------------------
\* The user's folder, one that came while the card was open too, is neither
\* written into nor removed with a creation that failed, and a folder that
\* one turn is filling is not touched by another.  Once a turn's folder was
\* removed while it fills it, what took its place is touched: that turn is left
\* out until it ends.
FoldersAreNotShared ==
  [][\A n \in NameNumbers, m \in Makers :
       folder'[n] # folder[n] /\ maker'[m] # maker[m] =>
         folder[n].of \in {m, "none"} \/ m \in robbed]_wsvars
=============================================================================
