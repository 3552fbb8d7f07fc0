----------------------------- MODULE Reminders -----------------------------
(***************************************************************************)
(* Reminders, timers and alarms: the store (reminders.py), the commands    *)
(* that look one up and then act on it (orchestrator._reminder_...), and   *)
(* what delivers them, the page's poll (app.js) and the terminal's thread  *)
(* (cli.py).                                                               *)
(*                                                                         *)
(* Every method of ReminderStore reads the file under its lock, so a call  *)
(* is one step; a command makes two, and acts on what it found first.  A   *)
(* reminder is announced under its id and the time it is due, so one that  *)
(* is moved is announced again.                                            *)
(***************************************************************************)
EXTENDS Naturals

CONSTANTS
  MaxReminders, \* bound: reminders ever added
  Voices,       \* threads that carry out reminder commands
  Tabs,         \* pages that poll; each shows its own cards
  Lengths,      \* by how much a command may put a reminder off
  MaxTime       \* bound: the clock, and how far ahead a reminder may be

ASSUME RemindersAssumption ==
  MaxReminders \in Nat /\ Lengths \subseteq Nat /\ MaxTime \in Nat

\* next_id only grows, so an id names one reminder for good.
Reminders == 1..MaxReminders
Times == 0..MaxTime

VARIABLES
  clock,
  reminders,  \* reminders.json
  voice,      \* what each command found and has still to do
  snapshot,   \* the answer to a tab's poll that its page has not handled
  cards,      \* cards open in each tab
  announced,  \* keys each tab has announced, which it keeps over a reload
  printed     \* keys the terminal printed

remvars == <<clock, reminders, voice, snapshot, cards, announced, printed>>

AnnouncementKeys == Reminders \X Times
Reminder == [state: {"unused", "active", "done", "removed"}, due: Times]
Operations == {"none", "done", "remove", "move", "extend", "remove all"}
Voice == [step: {"idle", "found", "asking"}, op: Operations, found: SUBSET Reminders, due: Times]

RemindersTypeOK ==
  /\ clock \in Times
  /\ reminders \in [Reminders -> Reminder]
  /\ voice \in [Voices -> Voice]
  /\ snapshot \in [Tabs -> SUBSET AnnouncementKeys]
  /\ cards \in [Tabs -> SUBSET Reminders]
  /\ announced \in [Tabs -> SUBSET AnnouncementKeys]
  /\ printed \subseteq AnnouncementKeys

Silent == [step |-> "idle", op |-> "none", found |-> {}, due |-> 0]

RemindersInit ==
  /\ clock = 0
  /\ reminders = [i \in Reminders |-> [state |-> "unused", due |-> 0]]
  /\ voice = [c \in Voices |-> Silent]
  /\ snapshot = [t \in Tabs |-> {}] /\ cards = [t \in Tabs |-> {}]
  /\ announced = [t \in Tabs |-> {}]
  /\ printed = {}

-----------------------------------------------------------------------------
Active(i) == reminders[i].state = "active"
IsDue(i) == Active(i) /\ reminders[i].due <= clock
DueKeys == {k \in AnnouncementKeys : IsDue(k[1]) /\ reminders[k[1]].due = k[2]}
Latest(s, t) == IF s < t THEN t ELSE s

Deliveries == <<snapshot, cards, announced, printed>>

ClockTicks ==
  /\ clock < MaxTime
  /\ clock' = clock + 1
  /\ UNCHANGED <<reminders, voice, Deliveries>>

\* add; a repeating reminder is a scheduled job that adds one due now.
AddReminder(i, due) ==
  /\ reminders[i].state = "unused" /\ \A j \in 1..(i - 1) : reminders[j].state # "unused"
  /\ reminders' = [reminders EXCEPT ![i] = [state |-> "active", due |-> due]]
  /\ UNCHANGED <<clock, voice, Deliveries>>

Find(c, op, some, due) ==
  /\ voice[c].step = "idle"
  /\ voice' = [voice EXCEPT ![c] = [step |-> IF op = "remove all" THEN "asking" ELSE "found",
                                    op |-> op, found |-> some, due |-> due]]
  /\ UNCHANGED <<clock, reminders, Deliveries>>

\* _find_reminder: by id, "last", or its words, among the active ones.
FindToComplete(c, i) == Active(i) /\ Find(c, "done", {i}, 0)
FindToMove(c, i) == Active(i) /\ Find(c, "move", {i}, 0)

\* "cancel" and "stop" end the one that is ringing and delete one that is not.
FindToCancel(c, i) ==
  Active(i) /\ Find(c, IF IsDue(i) THEN "done" ELSE "remove", {i}, 0)

\* "snooze" moves one that is due, unless one is named.
FindToSnooze(c, i) == IsDue(i) /\ FindToMove(c, i)

\* _timer_extend reads when the timer goes off, to add to it.
FindToExtend(c, i) == Active(i) /\ Find(c, "extend", {i}, reminders[i].due)

\* _remove_all puts a card with the list when there is more than one.
FindAll(c) ==
  LET all == {i \in Reminders : Active(i)}
  IN \E i, j \in all : i # j /\ Find(c, "remove all", all, 0)

AnswerRemoveAll(c, yes) ==
  /\ voice[c].step = "asking"
  /\ voice' = [voice EXCEPT ![c] = IF yes THEN [voice[c] EXCEPT !.step = "found"] ELSE Silent]
  /\ UNCHANGED <<clock, reminders, Deliveries>>

\* What is left for the command to act on; "remove all" goes one by one.
Target(c) == voice[c].found

Settles(c, i) ==
  voice' = [voice EXCEPT ![c] = IF voice[c].op = "remove all" /\ voice[c].found # {i}
                                THEN [voice[c] EXCEPT !.found = voice[c].found \ {i}] ELSE Silent]

\* move and snooze: an active reminder gets another time; one that was done or
\* removed meanwhile is left alone, and the command does not look at which.
MovedTo(i, due) ==
  reminders' = IF Active(i) THEN [reminders EXCEPT ![i].due = due] ELSE reminders

\* complete and remove.
CompletesOrRemoves(c, i) ==
  /\ voice[c].step = "found" /\ voice[c].op \in {"done", "remove", "remove all"} /\ i \in Target(c)
  /\ reminders' =
       IF voice[c].op = "done"
       THEN IF Active(i) THEN [reminders EXCEPT ![i].state = "done"] ELSE reminders
       ELSE IF reminders[i].state = "unused" THEN reminders
            ELSE [reminders EXCEPT ![i].state = "removed"]
  /\ Settles(c, i)
  /\ UNCHANGED <<clock, Deliveries>>

PutsOff(c, i, length) ==
  /\ voice[c].step = "found" /\ i \in Target(c)
  /\ \/ voice[c].op = "move" /\ clock + length <= MaxTime /\ MovedTo(i, clock + length)
     \/ /\ voice[c].op = "extend" /\ Latest(voice[c].due, clock) + length <= MaxTime
        /\ MovedTo(i, Latest(voice[c].due, clock) + length)
  /\ Settles(c, i)
  /\ UNCHANGED <<clock, Deliveries>>

\* The page asks /api/reminders, and handles the answer when it comes.
Poll(t) ==
  /\ snapshot[t] = {}
  /\ DueKeys \ announced[t] # {}
  /\ snapshot' = [snapshot EXCEPT ![t] = DueKeys]
  /\ UNCHANGED <<clock, reminders, voice, cards, announced, printed>>

\* Mutant of Fresh: a reminder is announced once, whenever it is due.
FreshByItsId(t) == {k \in snapshot[t] : \A old \in announced[t] : old[1] # k[1]}

Fresh(t) == snapshot[t] \ announced[t]

\* showReminder makes no second card for a reminder that has one.
Announce(t) ==
  /\ snapshot[t] # {}
  /\ announced' = [announced EXCEPT ![t] = announced[t] \cup Fresh(t)]
  /\ cards' = [cards EXCEPT ![t] = cards[t] \cup {k[1] : k \in Fresh(t)}]
  /\ snapshot' = [snapshot EXCEPT ![t] = {}]
  /\ UNCHANGED <<clock, reminders, voice, printed>>

\* Dismiss only closes the card.  Done and Snooze close it too, whether or not
\* their request reached the server, where it finds the reminder by its id.
Dismiss(t, i) ==
  /\ i \in cards[t]
  /\ cards' = [cards EXCEPT ![t] = cards[t] \ {i}]
  /\ \/ UNCHANGED reminders
     \/ Active(i) /\ reminders' = [reminders EXCEPT ![i].state = "done"]
     \/ \E length \in Lengths : clock + length <= MaxTime /\ MovedTo(i, clock + length)
  /\ UNCHANGED <<clock, voice, snapshot, announced, printed>>

\* What was announced is in localStorage; an answer on its way is lost.
Reload(t) ==
  /\ cards[t] # {} \/ snapshot[t] # {}
  /\ cards' = [cards EXCEPT ![t] = {}]
  /\ snapshot' = [snapshot EXCEPT ![t] = {}]
  /\ UNCHANGED <<clock, reminders, voice, announced, printed>>

\* The terminal prints every reminder that is due, once for each due time.
PrintDue ==
  /\ DueKeys \ printed # {}
  /\ printed' = printed \cup DueKeys
  /\ UNCHANGED <<clock, reminders, voice, snapshot, cards, announced>>

RemindersNext ==
  \/ ClockTicks \/ PrintDue
  \/ \E i \in Reminders, due \in Times : AddReminder(i, due)
  \/ \E c \in Voices :
       \/ FindAll(c) \/ \E yes \in BOOLEAN : AnswerRemoveAll(c, yes)
       \/ \E i \in Reminders :
            \/ FindToComplete(c, i) \/ FindToMove(c, i) \/ FindToCancel(c, i)
            \/ FindToSnooze(c, i) \/ FindToExtend(c, i)
            \/ CompletesOrRemoves(c, i) \/ \E length \in Lengths : PutsOff(c, i, length)
  \/ \E t \in Tabs : Poll(t) \/ Announce(t) \/ Reload(t) \/ \E i \in Reminders : Dismiss(t, i)

\* The page's timer and the terminal's thread go on.  A reload comes from a
\* person: they are not assumed to stop, so a tab gets its answer only if
\* handling one that keeps being asked for happens at some time.
RemindersFairness ==
  /\ WF_remvars(PrintDue)
  /\ \A t \in Tabs : WF_remvars(Poll(t)) /\ SF_remvars(Announce(t))

RemindersSpec == RemindersInit /\ [][RemindersNext]_remvars /\ RemindersFairness
-----------------------------------------------------------------------------
\* A reminder that falls due is printed in the terminal and announced by every
\* open page, unless it is settled or moved first.
DueIsDelivered ==
  \A k \in AnnouncementKeys :
    k \in DueKeys ~> \/ k \notin DueKeys
                     \/ k \in printed /\ \A t \in Tabs : k \in announced[t]

\* What is done or removed stays so, whatever a command found before: nothing
\* rings again that the user has settled.
SettledStaysSettled ==
  [][\A i \in Reminders : reminders[i].state \in {"done", "removed"}
                            => reminders'[i].state \in {"done", "removed"}]_remvars

\* A reminder reaches every page and the terminal, and then leaves the user alone.
RemindersAreKept == DueIsDelivered /\ SettledStaysSettled
=============================================================================
