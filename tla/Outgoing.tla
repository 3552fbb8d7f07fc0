------------------------------- MODULE Outgoing --------------------------------
(***************************************************************************)
(* What is done to the laptop, or leaves it, behind an approval card:      *)
(* mail (tools/email.py), forms (tools/browser.py), windows                *)
(* (tools/windows.py), and the screen, the processes and the power         *)
(* (tools/system.py).  Some of what is done is read before the card and    *)
(* some after it, the card waits for up to two minutes, and the world goes *)
(* on meanwhile.                                                           *)
(***************************************************************************)
EXTENDS Naturals, FiniteSets

CONSTANTS
  Acts,        \* calls of these tools, in threads of their own
  Wanted,      \* the kinds of calls that come together
  Panes,       \* windows of the desktop
  Pictures,    \* wallpapers
  Brightest,   \* the brightness is 0..Brightest
  MaxChanges   \* bound: what happens in the world meanwhile

ActKinds == {"send", "search-mail", "fill", "arrange", "wallpaper", "restore", "brighter", "end", "shut-down",
             "cancel", "copy"}
FieldNames == {"name", "email", "password"}
Surfaces == {"mail", "mailbox", "screen", "desktop", "program", "computer", "clipboard"}

\* A window is no field; "none" stands for no picture, and there is always another picture to set.
ASSUME OutgoingAssumption ==
  /\ Brightest \in Nat /\ MaxChanges \in Nat
  /\ Wanted \subseteq [Acts -> ActKinds]
  /\ Panes \cap (Surfaces \cup FieldNames) = {}
  /\ "none" \notin Pictures /\ \A p \in Pictures : \E q \in Pictures : q # p

VARIABLES
  act,      \* the calls
  world,    \* the laptop, the page of the form, the file to be attached
  previous, \* system.json: previous_wallpaper
  changes   \* bound: changes of the world

outgoingvars == <<act, world, previous, changes>>

\* An effect: on what, and what is made of it.
Effect == [on : Surfaces \cup Panes \cup FieldNames,
           is : Pictures \cup {"read", "typed", "placed", "ended", "off", "text", "level", "version"}, to : Nat]
Eff(o, i) == [on |-> o, is |-> i, to |-> 0]

ActSteps == {"new", "carded", "reading", "carded-again", "doing", "saving", "over"}
NewAct(k) == [kind |-> k, step |-> "new", shown |-> {}, todo |-> {}, did |-> {}, failed |-> {}, before |-> "none",
              told |-> "none"]

Act == [kind : ActKinds, step : ActSteps, shown : SUBSET Effect, todo : SUBSET Effect, did : SUBSET Effect,
        failed : SUBSET Effect, before : Pictures \cup {"none"},
        told : {"none", "done", "failed", "refused", "unexpected"}]
World == [panes : SUBSET Panes, fields : SUBSET FieldNames, level : 0..Brightest, wallpaper : Pictures,
          attachment : 0..MaxChanges, exists : BOOLEAN, runs : BOOLEAN, off : BOOLEAN]

OutgoingTypeOK ==
  /\ act \in [Acts -> Act] /\ world \in World
  /\ previous \in Pictures \cup {"none"} /\ changes \in 0..MaxChanges

OutgoingInit ==
  /\ \E kinds \in Wanted : act = [a \in Acts |-> NewAct(kinds[a])]
  /\ \E picture \in Pictures :
       world = [panes |-> Panes, fields |-> FieldNames, level |-> 0, wallpaper |-> picture, attachment |-> 0,
                exists |-> TRUE, runs |-> TRUE, off |-> FALSE]
  /\ previous = "none" /\ changes = 0

\* What others do: a window is closed or opened, the page shows other fields, the file that is to be
\* attached is written or deleted, a program starts or ends, the user sets brightness or wallpaper.
Meanwhile ==
  /\ changes < MaxChanges /\ changes' = changes + 1
  /\ \E new \in {[world EXCEPT !.panes = p] : p \in SUBSET Panes}
              \cup {[world EXCEPT !.fields = f] : f \in SUBSET FieldNames}
              \cup {[world EXCEPT !.level = l] : l \in 0..Brightest}
              \cup {[world EXCEPT !.wallpaper = p] : p \in Pictures}
              \cup {[world EXCEPT !.attachment = changes + 1], [world EXCEPT !.exists = ~world.exists],
                    [world EXCEPT !.runs = ~world.runs]} : world' = new
  /\ UNCHANGED <<act, previous>>

-----------------------------------------------------------------------------
\* The attachments, read into memory before the card that names them.
LoadAttachments == IF world.exists THEN {[Eff("mail", "version") EXCEPT !.to = world.attachment]} ELSE {}

\* The windows the names find, by their handles; one that finds none ends the call.
FoundPanes == IF world.panes = Panes THEN {Eff(p, "placed") : p \in Panes} ELSE {}

Brighter == {[Eff("screen", "level") EXCEPT !.to = IF world.level < Brightest THEN world.level + 1 ELSE Brightest]}
PutBack == IF previous = "none" THEN {} ELSE {Eff("desktop", previous)}
Running == IF world.runs THEN {Eff("program", "ended")} ELSE {}

\* What the first card of each kind says will be done; none, and the call fails before any card.
\* The profile's values are on the card of a form, and what is typed is a part of them.
Asks(a) ==
  CASE act[a].kind = "send" -> LoadAttachments
    [] act[a].kind = "search-mail" -> {Eff("mailbox", "read")}
    [] act[a].kind = "fill" -> {Eff(f, "typed") : f \in FieldNames}
    [] act[a].kind = "arrange" -> FoundPanes
    [] act[a].kind = "wallpaper" -> {Eff("desktop", CHOOSE p \in Pictures : p # world.wallpaper)}
    [] act[a].kind = "restore" -> PutBack
    [] act[a].kind = "brighter" -> Brighter
    [] act[a].kind = "end" -> Running
    [] act[a].kind = "shut-down" -> {Eff("computer", "off")}
    [] act[a].kind = "copy" -> {Eff("clipboard", "text")}
    [] OTHER -> {}

PutAct(a, r) == act' = [act EXCEPT ![a] = r]

Ask(a) ==
  /\ act[a].step = "new" /\ act[a].kind # "cancel"
  /\ PutAct(a, IF Asks(a) = {} THEN [act[a] EXCEPT !.step = "over", !.told = "failed"]
               ELSE [act[a] EXCEPT !.step = "carded", !.shown = Asks(a), !.todo = Asks(a)])
  /\ UNCHANGED <<world, previous, changes>>

\* A yes; what a mail still needs, its token, is read after it.
Agree(a) ==
  /\ act[a].step \in {"carded", "carded-again"}
  /\ PutAct(a, [act[a] EXCEPT !.step = IF act[a].kind = "fill" /\ act[a].step = "carded" THEN "reading" ELSE "doing"])
  /\ UNCHANGED <<world, previous, changes>>

Deny(a) ==
  /\ act[a].step \in {"carded", "carded-again"}
  /\ PutAct(a, [act[a] EXCEPT !.step = "over", !.told = "refused"])
  /\ UNCHANGED <<world, previous, changes>>

\* build_fill_actions: types that are safe to type into.
SafeFields == world.fields \ {"password"}

\* The page is read between the two cards; the second one lists what will be typed where.
ReadForm(a) ==
  /\ act[a].step = "reading"
  /\ LET ready == {Eff(f, "typed") : f \in SafeFields}
     IN  PutAct(a, IF ready = {} THEN [act[a] EXCEPT !.step = "over", !.told = "failed"]
                   ELSE [act[a] EXCEPT !.step = "carded-again", !.shown = ready, !.todo = ready])
  /\ UNCHANGED <<world, previous, changes>>

-----------------------------------------------------------------------------
Chosen(a) == CHOOSE e \in act[a].todo : TRUE
Wallpapers == {"wallpaper", "restore"}

\* Whether the world lets an effect happen: a window that was closed is not moved, a field that is
\* gone is skipped.
Takes(e) ==
  /\ e.on \in Panes => e.on \in world.panes
  /\ e.on \in FieldNames => e.on \in world.fields
  /\ e.on = "program" => world.runs

After(e) ==
  CASE e.on = "screen" -> [world EXCEPT !.level = e.to]
    [] e.on = "desktop" -> [world EXCEPT !.wallpaper = e.is]
    [] e.on = "program" -> [world EXCEPT !.runs = FALSE]
    [] e.on = "computer" -> [world EXCEPT !.off = TRUE]
    [] OTHER -> world

\* One window is placed, one field is filled, the one thing is done.
Do(a) ==
  /\ act[a].step = "doing" /\ act[a].todo # {} /\ act[a].kind # "send" /\ Takes(Chosen(a))
  /\ PutAct(a, [act[a] EXCEPT !.todo = @ \ {Chosen(a)}, !.did = @ \cup {Chosen(a)},
                              !.before = IF act[a].kind \in Wallpapers THEN world.wallpaper ELSE "none"])
  /\ world' = After(Chosen(a))
  /\ UNCHANGED <<previous, changes>>

Several == {"arrange", "fill"}

\* It is refused: the next window or field is gone on to, or the call ends, in a sentence where the
\* tool has one.
DoFails(a) ==
  /\ act[a].step = "doing" /\ act[a].todo # {} /\ act[a].kind # "send"
  /\ PutAct(a, IF act[a].kind \in Several
               THEN [act[a] EXCEPT !.todo = @ \ {Chosen(a)}, !.failed = @ \cup {Chosen(a)}]
               ELSE [act[a] EXCEPT !.step = "over",
                       !.told = IF act[a].kind \in Wallpapers \cup {"shut-down"} THEN "unexpected" ELSE "failed"])
  /\ UNCHANGED <<world, previous, changes>>

\* The token may be gone, the service may refuse, the message may not leave, or it leaves and its
\* answer is lost or cannot be read.
Post(a) ==
  /\ act[a].step = "doing" /\ act[a].kind = "send" /\ act[a].todo # {}
  /\ \E leaves \in BOOLEAN, told \in {"done", "failed", "unexpected"} :
       /\ told = "done" => leaves
       /\ PutAct(a, [act[a] EXCEPT !.step = "over", !.todo = {}, !.told = told,
                                   !.did = IF leaves THEN act[a].todo ELSE {}])
  /\ UNCHANGED <<world, previous, changes>>

\* Arranging fails when no window moved; filling says how many fields it filled, even none.
ToldOf(a) == IF act[a].kind = "arrange" /\ act[a].did = {} THEN "failed" ELSE "done"

Tell(a) ==
  /\ act[a].step = "doing" /\ act[a].todo = {}
  /\ PutAct(a, IF act[a].kind \in Wallpapers THEN [act[a] EXCEPT !.step = "saving"]
               ELSE [act[a] EXCEPT !.step = "over", !.told = ToldOf(a)])
  /\ UNCHANGED <<world, previous, changes>>

\* The picture that was there, unless it is the one that was set.
Saves(a) == Eff("desktop", act[a].before) \notin act[a].did

SaveWallpaper(a) ==
  /\ act[a].step = "saving"
  /\ PutAct(a, [act[a] EXCEPT !.step = "over", !.told = "done"])
  /\ previous' = IF Saves(a) THEN act[a].before ELSE previous
  /\ UNCHANGED <<world, changes>>

SaveWallpaperFails(a) ==
  /\ act[a].step = "saving" /\ Saves(a)
  /\ PutAct(a, [act[a] EXCEPT !.step = "over", !.told = "unexpected"])
  /\ UNCHANGED <<world, previous, changes>>

\* Calling a shutdown off has no card.
CancelShutdown(a) ==
  /\ act[a].step = "new" /\ act[a].kind = "cancel"
  /\ PutAct(a, [act[a] EXCEPT !.step = "over", !.told = IF world.off THEN "done" ELSE "failed"])
  /\ world' = [world EXCEPT !.off = FALSE]
  /\ UNCHANGED <<previous, changes>>

OutgoingNext ==
  \/ Meanwhile
  \/ \E a \in Acts :
       \/ Ask(a) \/ Agree(a) \/ Deny(a) \/ ReadForm(a) \/ Do(a) \/ DoFails(a) \/ Post(a)
       \/ Tell(a) \/ SaveWallpaper(a) \/ SaveWallpaperFails(a) \/ CancelShutdown(a)

OutgoingSpec == OutgoingInit /\ [][OutgoingNext]_outgoingvars

-----------------------------------------------------------------------------
\* Whatever changed while cards were open, all that is done was on the card that was agreed to: the
\* bytes of an attachment, the windows, the fields, the brightness, the picture.
DoneAsShown == \A a \in Acts : act[a].did \subseteq act[a].shown

\* Nothing is done for a call that was refused, and a password is never typed.
RefusedDoesNothing ==
  \A a \in Acts : /\ act[a].told = "refused" => act[a].did = {}
                  /\ Eff("password", "typed") \notin act[a].did

\* What is told is what happened: "done" is said of something that was done (of a form it is said with
\* the number of its fields), and of everything but mail a failure means that nothing was; a mail's
\* answer may be lost.
ToldAsDone ==
  \A a \in Acts :
    /\ act[a].told = "done" /\ act[a].kind \notin {"fill", "cancel"} => act[a].did # {}
    /\ act[a].told = "failed" /\ act[a].kind # "send" => act[a].did = {}

\* A computer that is about to shut down was told to, on a card.
OffWasAsked == world.off => \E a \in Acts : Eff("computer", "off") \in act[a].did

\* One wallpaper was changed and nobody else changed one since the card: putting it back restores what
\* was there before (system.py:223: "restore my wallpaper" puts the old one back).
OldWallpaperIsKept ==
  \A a \in Acts :
    act[a].kind = "wallpaper" /\ act[a].told = "done"
      /\ (\A b \in Acts \ {a} : act[b].kind \in Wallpapers => act[b].step = "new") =>
      previous = act[a].before \/ ~Saves(a)

ActsAreAsShown == DoneAsShown /\ RefusedDoesNothing /\ ToldAsDone /\ OffWasAsked /\ OldWallpaperIsKept
=============================================================================
