------------------------------ MODULE MCLists ------------------------------
(***************************************************************************)
(* File changes, project folders, memory, the job tracker, the index of    *)
(* documents, voice mode, the commands of a request, the daily jobs, the   *)
(* mailbox tokens, the calendar and the watches on small instances, in one *)
(* run: they share no state, so a behaviour of this module is one of       *)
(* theirs, the others resting where they started.  x1 and x2, y1 and y2    *)
(* stand for the members of the sets that no code orders, in whichever     *)
(* part they occur, and may be permuted.                                   *)
(***************************************************************************)
EXTENDS
  FileChanges, Workspaces, Memory, Jobs, Knowledge, Voice, Dispatch, DailyJobs, MailTokens, Dates,
  Watches, TLC

CONSTANTS x1, x2, y1, y2

Symmetry == Permutations({x1, x2}) \cup Permutations({y1, y2})

\* The centuries around today's, in which the epact is corrected three times.
TheEasterYears == 1583..2399

VARIABLE part

listvars ==
  <<part, filevars, wsvars, memvars, jobvars, knowvars, voicevars, dispatchvars, dailyvars, mailvars,
    datevars, watchvars>>

\* A part that is not the one at work begins in one of its states.
ListsInit ==
  /\ part \in {"files", "workspaces", "memory", "jobs", "index", "voice", "dispatch", "daily", "mail", "dates",
               "watches"}
  /\ FileChangesInit /\ WorkspacesInit /\ MemoryInit /\ JobsInit /\ KnowledgeInit /\ VoiceInit
  /\ DispatchInit /\ DailyJobsInit /\ MailTokensInit /\ DatesInit /\ WatchesInit
  /\ part # "files" => posix
  /\ part # "dispatch" => account = "owner"
  /\ part # "daily" => zone = [at |-> 0, before |-> Shift, after |-> Shift]
  /\ part # "mail" => bak = {} /\ corrupt = {} /\ \A p \in Providers : vault[p] = NoToken
  /\ part # "dates" => \A y \in Years : today[1] <= y
  /\ part # "watches" => subject = "news"

\* A step of one part; the others rest.
InPart(name, A) ==
  /\ part = name /\ A /\ UNCHANGED part
  /\ name # "files" => UNCHANGED filevars
  /\ name # "workspaces" => UNCHANGED wsvars
  /\ name # "memory" => UNCHANGED memvars
  /\ name # "jobs" => UNCHANGED jobvars
  /\ name # "index" => UNCHANGED knowvars
  /\ name # "voice" => UNCHANGED voicevars
  /\ name # "dispatch" => UNCHANGED dispatchvars
  /\ name # "daily" => UNCHANGED dailyvars
  /\ name # "mail" => UNCHANGED mailvars
  /\ name # "dates" => UNCHANGED datevars
  /\ name # "watches" => UNCHANGED watchvars

ListsNext ==
  \/ InPart("files", FileChangesNext) \/ InPart("workspaces", WorkspacesNext) \/ InPart("memory", MemoryNext)
  \/ InPart("jobs", JobsNext) \/ InPart("index", KnowledgeNext) \/ InPart("voice", VoiceNext)
  \/ InPart("dispatch", DispatchNext) \/ InPart("daily", DailyJobsNext) \/ InPart("mail", MailTokensNext)
  \/ InPart("dates", DatesNext) \/ InPart("watches", WatchesNext)

ListsSpec == ListsInit /\ [][ListsNext]_listvars

ListsTypeOK ==
  /\ FileChangesTypeOK /\ WorkspacesTypeOK /\ MemoryTypeOK /\ JobsTypeOK /\ KnowledgeTypeOK
  /\ VoiceTypeOK /\ DispatchTypeOK /\ DailyJobsTypeOK /\ MailTokensTypeOK /\ DatesTypeOK
  /\ WatchesTypeOK

\* The memory holds what the user was told it holds, but for entries a process did
\* not know of when it wrote its copy by a method that does not reload (memory.py);
\* what was added to the index is still there when another thread adds
\* (knowledge.py), and a mailbox token to be forgotten is not (token_vault.py).
KeptAndForgottenAsTold ==
  RememberedAsTold /\ IndexKeepsWhatWasAdded /\ ForgottenTokensAreGone

\* A daily job runs once on each of its days (scheduler.py), and a day is found where
\* the calendar has it (tools/dates.py).
TheCalendarIsKept == OncePerDay /\ DatesAreCounted

\* What is moved, written or made while a card is open takes nobody's place: no file
\* is overwritten (tools/fileops.py), and a folder is filled and taken away by the
\* turn it is of, unless that turn's own was removed meanwhile (tools/workspace.py).
NothingIsTaken == NothingIsOverwritten /\ FoldersAreNotShared
=============================================================================
