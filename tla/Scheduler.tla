----------------------------- MODULE Scheduler -----------------------------
(***************************************************************************)
(* Scheduled jobs: the file every process reads and writes (scheduler.py), *)
(* the set of running jobs each process keeps in memory, and the threads   *)
(* that claim what is due and run it one job after another                 *)
(* (run_due_schedules), among them the web app's ticker.                   *)
(*                                                                         *)
(* Every call of SchedulerStore holds the file's lock and reloads the jobs *)
(* first, so a call is one step and the file is all there is of them.  A   *)
(* job's last status matters only in being "running" or not, and its       *)
(* schedule only in making it due again some time after it ran.            *)
(***************************************************************************)
CONSTANTS
  Jobs,       \* job ids: next_id only grows, so an id names one job for good
  Processes,  \* processes over one data directory
  Web,        \* the one that serves the web app and has the ticker
  Requests,   \* threads that run `schedule run due'
  Ticker,     \* the thread that does once a minute
  Home,       \* the process each of those threads is in
  None

Runners == Requests \cup {Ticker}

ASSUME SchedulerAssumption ==
  /\ Web \in Processes
  /\ Ticker \notin Requests
  /\ Home \in [Runners -> Processes] /\ Home[Ticker] = Web
  /\ None \notin Jobs

VARIABLES
  jobs,       \* schedule.json
  running,    \* SchedulerStore._running, one per process
  runner,     \* the jobs each thread claimed and has not settled
  overtaken,  \* history: enabled elsewhere while a thread had it
  abandoned,  \* history: claimed, and its thread lost before it was settled
  diskFailed  \* history: schedule.json could not be written

vars == <<jobs, running, runner, overtaken, abandoned, diskFailed>>

Job == [state: {"unused", "there", "removed"}, enabled: BOOLEAN,
        status: {"settled", "running"}, due: BOOLEAN]
Runner == [step: {"waiting", "running", "stopping", "dead"},
           current: Jobs \cup {None}, left: SUBSET Jobs]

TypeOK ==
  /\ jobs \in [Jobs -> Job]
  /\ running \in [Processes -> SUBSET Jobs]
  /\ runner \in [Runners -> Runner]
  /\ overtaken \subseteq Jobs /\ abandoned \subseteq Jobs /\ diskFailed \in BOOLEAN

Waiting == [step |-> "waiting", current |-> None, left |-> {}]

Init ==
  /\ jobs = [j \in Jobs |-> [state |-> "unused", enabled |-> FALSE,
                             status |-> "settled", due |-> FALSE]]
  /\ running = [p \in Processes |-> {}]
  /\ runner = [r \in Runners |-> Waiting]
  /\ overtaken = {} /\ abandoned = {} /\ diskFailed = FALSE

-----------------------------------------------------------------------------
There(j) == jobs[j].state = "there"

\* Mutant of Held: the slot of the running job counts even when it is empty.
HeldAlways(r) == runner[r].left \cup {runner[r].current}

\* The jobs r has claimed: the one it runs and those behind it.
Held(r) == runner[r].left \cup ({runner[r].current} \ {None})

\* Mutant of Due: only this process's own memory is consulted.
DueHere(p) ==
  {j \in Jobs : There(j) /\ jobs[j].enabled /\ jobs[j].due /\ j \notin running[p]}

\* due_jobs, and claim_due_jobs' own look at what this process is running.
Due(p) ==
  {j \in Jobs : /\ There(j) /\ jobs[j].enabled /\ jobs[j].due
                /\ jobs[j].status # "running"
                /\ j \notin running[p]}

\* Mutant of MarkRan: the job stays in this process's memory.
MarkRanKept(r, j) ==
  /\ UNCHANGED running
  /\ jobs' = IF There(j) THEN [jobs EXCEPT ![j].status = "settled", ![j].due = FALSE] ELSE jobs
  /\ abandoned' = abandoned \ {j}

\* mark_ran by thread r: the job is let go even when it was removed meanwhile.
MarkRan(r, j) ==
  /\ running' = [running EXCEPT ![Home[r]] = @ \ {j}]
  /\ jobs' = IF There(j) THEN [jobs EXCEPT ![j].status = "settled", ![j].due = FALSE] ELSE jobs
  /\ abandoned' = abandoned \ {j}

-----------------------------------------------------------------------------
(* The store's operations, from a command in any process.                  *)

Add(j, due) ==
  /\ jobs[j].state = "unused"
  /\ jobs' = [jobs EXCEPT ![j] = [state |-> "there", enabled |-> TRUE,
                                  status |-> "settled", due |-> due]]
  /\ UNCHANGED <<running, runner, overtaken, abandoned, diskFailed>>

Remove(j) ==
  /\ There(j)
  /\ jobs' = [jobs EXCEPT ![j] = [state |-> "removed", enabled |-> FALSE,
                                  status |-> "settled", due |-> FALSE]]
  /\ abandoned' = abandoned \ {j}
  /\ UNCHANGED <<running, runner, overtaken, diskFailed>>

Disable(j) ==
  /\ There(j)
  /\ jobs' = [jobs EXCEPT ![j].enabled = FALSE]
  /\ UNCHANGED <<running, runner, overtaken, abandoned, diskFailed>>

\* Enabling a job this process is not running takes its "running" for the mark
\* of a run that was cut short, and makes it "interrupted".
Enable(p, j) ==
  LET revived == jobs[j].status = "running" /\ j \notin running[p] IN
  /\ There(j)
  /\ jobs' = [jobs EXCEPT ![j].enabled = TRUE, ![j].status = IF revived THEN "settled" ELSE @]
  /\ overtaken' = IF revived /\ \E r \in Runners : j \in Held(r)
                  THEN overtaken \cup {j} ELSE overtaken
  /\ abandoned' = IF revived THEN abandoned \ {j} ELSE abandoned
  /\ UNCHANGED <<running, runner, diskFailed>>

\* The interval has passed since the job last ran, or today's time has come.
FallsDue(j) ==
  /\ There(j) /\ ~jobs[j].due
  /\ jobs' = [jobs EXCEPT ![j].due = TRUE]
  /\ UNCHANGED <<running, runner, overtaken, abandoned, diskFailed>>

-----------------------------------------------------------------------------
(* run_due_schedules.                                                      *)

Claim(r) ==
  LET due == Due(Home[r]) IN
  /\ runner[r].step = "waiting" /\ due # {}
  /\ jobs' = [j \in Jobs |-> IF j \in due THEN [jobs[j] EXCEPT !.status = "running"] ELSE jobs[j]]
  /\ running' = [running EXCEPT ![Home[r]] = @ \cup due]
  /\ runner' = [runner EXCEPT ![r] = [step |-> "running", current |-> None, left |-> due]]
  /\ UNCHANGED <<overtaken, abandoned, diskFailed>>

\* The next job starts, whatever became of it since it was claimed.
RunJob(r, j) ==
  /\ runner[r].step = "running" /\ runner[r].current = None
  /\ j \in runner[r].left
  /\ runner' = [runner EXCEPT ![r].current = j, ![r].left = @ \ {j}]
  /\ UNCHANGED <<jobs, running, overtaken, abandoned, diskFailed>>

\* The job returned or raised, and is marked "ok" or "failed".
JobEnds(r) ==
  LET j == runner[r].current IN
  /\ runner[r].step = "running" /\ j # None
  /\ MarkRan(r, j)
  /\ runner' = [runner EXCEPT ![r] = IF runner[r].left = {} THEN Waiting ELSE [runner[r] EXCEPT !.current = None]]
  /\ UNCHANGED <<overtaken, diskFailed>>

\* Mutant of Cancelled: only the job that was running is remembered.
CancelledOne(r) ==
  /\ runner[r].step = "running" /\ runner[r].current # None
  /\ runner' = [runner EXCEPT ![r] = [step |-> "stopping", current |-> None,
                                      left |-> {runner[r].current}]]
  /\ UNCHANGED <<jobs, running, overtaken, abandoned, diskFailed>>

\* OperationCancelled leaves the job: Stop or a session that ended, for a
\* request, and for any thread a card written to a stream that is gone
\* (Approvals).  What it claimed is marked "stopped", one job after another.
Cancelled(r) ==
  /\ runner[r].step = "running" /\ runner[r].current # None
  /\ runner' = [runner EXCEPT ![r] = [step |-> "stopping", current |-> None, left |-> Held(r)]]
  /\ UNCHANGED <<jobs, running, overtaken, abandoned, diskFailed>>

\* Then it is raised again: it ends a request, and the ticker too, which
\* catches only Exception.
MarkStopped(r, j) ==
  /\ runner[r].step = "stopping" /\ j \in runner[r].left
  /\ MarkRan(r, j)
  /\ runner' = [runner EXCEPT ![r] =
       IF runner[r].left # {j} THEN [runner[r] EXCEPT !.left = @ \ {j}]
       ELSE [Waiting EXCEPT !.step = IF r = Ticker THEN "dead" ELSE "waiting"]]
  /\ UNCHANGED <<overtaken, diskFailed>>

\* claim_due_jobs cannot write the file: what it would have claimed stays in
\* this process's memory and nowhere else.
ClaimFails(r) ==
  LET due == Due(Home[r]) IN
  /\ runner[r].step = "waiting" /\ due # {}
  /\ running' = [running EXCEPT ![Home[r]] = @ \cup due]
  /\ diskFailed' = TRUE
  /\ UNCHANGED <<jobs, runner, overtaken, abandoned>>

\* mark_ran cannot: the file keeps "running" for this job and for the ones
\* behind it, which also stay in this process's memory.
WriteFails(r, j) ==
  /\ There(j)
  /\ \/ runner[r].step = "running" /\ j = runner[r].current
     \/ runner[r].step = "stopping" /\ j \in runner[r].left
  /\ running' = [running EXCEPT ![Home[r]] = @ \ {j}]
  /\ abandoned' = abandoned \cup Held(r)
  /\ runner' = [runner EXCEPT ![r] = Waiting]
  /\ diskFailed' = TRUE
  /\ UNCHANGED <<jobs, overtaken>>

\* Mutant of Restart: what was left "running" is due again at once.
RestartDue(p) ==
  LET lost == {r \in Runners : Home[r] = p}
      cut == UNION {Held(r) : r \in lost}
  IN /\ running' = [running EXCEPT ![p] = {}]
     /\ runner' = [r \in Runners |-> IF r \in lost THEN Waiting ELSE runner[r]]
     /\ abandoned' = abandoned \cup cut
     /\ jobs' = [j \in Jobs |-> IF j \in cut THEN [jobs[j] EXCEPT !.status = "settled"] ELSE jobs[j]]
     /\ UNCHANGED <<overtaken, diskFailed>>

\* A process ends and starts again: its memory is empty and its threads are new.
Restart(p) ==
  LET lost == {r \in Runners : Home[r] = p} IN
  /\ running' = [running EXCEPT ![p] = {}]
  /\ runner' = [r \in Runners |-> IF r \in lost THEN Waiting ELSE runner[r]]
  /\ abandoned' = abandoned \cup UNION {Held(r) : r \in lost}
  /\ UNCHANGED <<jobs, overtaken, diskFailed>>

-----------------------------------------------------------------------------
\* Steps a thread takes on its own once it has claimed.
Proceed(r) ==
  \/ \E j \in Jobs : RunJob(r, j) \/ MarkStopped(r, j)
  \/ JobEnds(r)

Next ==
  \/ \E j \in Jobs : Remove(j) \/ Disable(j) \/ FallsDue(j)
  \/ \E j \in Jobs, due \in BOOLEAN : Add(j, due)
  \/ \E p \in Processes, j \in Jobs : Enable(p, j)
  \/ \E r \in Runners : Claim(r) \/ Proceed(r) \/ Cancelled(r) \/ ClaimFails(r)
  \/ \E r \in Runners, j \in Jobs : WriteFails(r, j)
  \/ \E p \in Processes : Restart(p)

\* The ticker ticks, and a job that is run comes to an end: every wait inside a
\* command has a limit.  Nobody has to run, enable or stop anything.
Fairness == WF_vars(Claim(Ticker)) /\ \A r \in Runners : WF_vars(Proceed(r))

Spec == Init /\ [][Next]_vars /\ Fairness

-----------------------------------------------------------------------------
(* Properties.                                                             *)

\* Two threads have one job at a time only if somebody enabled it again in
\* another process while the first was running it (claim_due_jobs, set_enabled).
NeverTwiceAtOnce ==
  \A r, q \in Runners : r # q => Held(r) \cap Held(q) \subseteq overtaken

\* "running" in the file is not a leftover: a thread has the job, or its process
\* ended or could not write before the job was marked.
RunningIsHeld ==
  \A j \in Jobs :
    jobs[j].status = "running" => j \in abandoned \/ \E r \in Runners : j \in Held(r)

\* A run cut short half way is not started again by itself: its commands may
\* have been carried out, so somebody has to enable the job first.
NoRerunUnasked ==
  [][\A r \in Runners : runner[r].step = "waiting" => Held(r)' \cap (abandoned \ overtaken) = {}]_vars

\* While the ticker lives and the file can be written, a job that is due is run
\* or taken off the schedule: no other job, process or thread holds it up.
DueJobsRun ==
  LET Runnable(j) == There(j) /\ jobs[j].enabled /\ jobs[j].due /\ jobs[j].status # "running"
  IN [](runner[Ticker].step # "dead" /\ ~diskFailed)
       => \A j \in Jobs : Runnable(j) ~> ~Runnable(j)

\* "Never let one scheduled run take down the ticker" (webui.py:666).
TickerSurvives == runner[Ticker].step # "dead"

=============================================================================
