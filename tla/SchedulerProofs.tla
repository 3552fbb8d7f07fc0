-------------------------- MODULE SchedulerProofs --------------------------
(***************************************************************************)
(* What TLAPS proves of the parts of MCScheduler, for any jobs, processes, *)
(* requests, devices, sentences and acts.  Scheduler: the types, that no   *)
(* two threads have one job, that "running" in the file is never a         *)
(* leftover, and that nothing cut short is run again unasked.  Routing:    *)
(* what is done is what a sentence asked for.  Outgoing: it is what the    *)
(* card showed.  Engines: who is asked, and that nobody is passed over in  *)
(* silence.  WebRequests: every request is answered.  At the end, that the *)
(* parts run together as each was specified.                               *)
(***************************************************************************)
EXTENDS MCScheduler, TLAPS, FiniteSetTheorems

\* A thread that waits holds nothing, the job it runs is not also behind, and
\* its process remembers all it holds.
RunnerOK(r) ==
  /\ runner[r].step \in {"waiting", "dead"} => runner[r].left = {}
  /\ runner[r].step # "running" => runner[r].current = None
  /\ runner[r].current \notin runner[r].left
  /\ Held(r) \subseteq running[Home[r]]

Taken(j) == j \in abandoned \/ \E r \in Runners : j \in Held(r)

\* Unless it was enabled under a running thread, a job of the file says
\* "running" exactly while it is taken.
JobOK(j) ==
  /\ jobs[j].status = "running" => There(j) /\ Taken(j)
  /\ There(j) /\ Taken(j) /\ j \notin overtaken => jobs[j].status = "running"
  /\ Taken(j) => jobs[j].state # "unused"

\* Threads of one process never have a job in common, enabled or not: what
\* one of them has is in the memory they share.
Apart ==
  \A r, q \in Runners : r # q /\ Home[r] = Home[q] => Held(r) \cap Held(q) = {}

IInv ==
  /\ TypeOK
  /\ \A r \in Runners : RunnerOK(r)
  /\ \A j \in Jobs : JobOK(j)
  /\ Apart
  /\ NeverTwiceAtOnce

-----------------------------------------------------------------------------
LEMMA HeldAreJobs ==
  ASSUME TypeOK, NEW r \in Runners
  PROVE  Held(r) \subseteq Jobs /\ Home[r] \in Processes
BY SchedulerAssumption DEF TypeOK, Runner, Held

LEMMA InitInv == Init => IInv
<1>. SUFFICES ASSUME Init PROVE IInv
  OBVIOUS
<1>1. TypeOK
  BY SchedulerAssumption DEF Init, TypeOK, Job, Runner, Waiting
<1>2. \A r \in Runners : Held(r) = {}
  BY DEF Init, Waiting, Held
<1>. QED
  BY <1>1, <1>2 DEF Init, IInv, RunnerOK, JobOK, Taken, There, Waiting, Apart, NeverTwiceAtOnce

-----------------------------------------------------------------------------
(* The steps that leave the threads and the memories alone.                *)

LEMMA OnlyTheFile ==
  ASSUME IInv, TypeOK', UNCHANGED <<running, runner>>, overtaken \subseteq overtaken',
         \A j \in Jobs : JobOK(j)'
  PROVE  IInv'
<1>1. \A r \in Runners : Held(r)' = Held(r)
  BY DEF Held
<1>. QED  BY <1>1 DEF IInv, RunnerOK, Apart, NeverTwiceAtOnce

LEMMA AddInv ==
  ASSUME IInv, NEW j \in Jobs, NEW due \in BOOLEAN, Add(j, due)
  PROVE  IInv'
<1>1. TypeOK'
  BY DEF IInv, TypeOK, Add, Job
<1>2. \A k \in Jobs : Taken(k)' = Taken(k)
  BY DEF Add, Taken, Held
<1>3. \A k \in Jobs : k # j => jobs'[k] = jobs[k]
  BY DEF IInv, TypeOK, Add
<1>4. jobs[j].state = "unused" /\ jobs'[j].state = "there" /\ jobs'[j].status = "settled"
  BY DEF IInv, TypeOK, Add
<1>5. \A k \in Jobs : JobOK(k)'
  BY <1>2, <1>3, <1>4 DEF IInv, JobOK, There, Add
<1>. QED  BY <1>1, <1>5, OnlyTheFile DEF Add

LEMMA RemoveInv ==
  ASSUME IInv, NEW j \in Jobs, Remove(j)
  PROVE  IInv'
<1>1. TypeOK'
  BY DEF IInv, TypeOK, Remove, Job
<1>2. \A k \in Jobs : k # j => (Taken(k)' = Taken(k)) /\ jobs'[k] = jobs[k]
  BY DEF IInv, TypeOK, Remove, Taken, Held
<1>3. jobs'[j].state = "removed" /\ jobs'[j].status = "settled"
  BY DEF IInv, TypeOK, Remove
<1>4. \A k \in Jobs : JobOK(k)'
  BY <1>2, <1>3 DEF IInv, JobOK, There, Remove
<1>. QED  BY <1>1, <1>4, OnlyTheFile DEF Remove

LEMMA DisableOrFallsDueInv ==
  ASSUME IInv, NEW j \in Jobs, Disable(j) \/ FallsDue(j)
  PROVE  IInv'
<1>1. TypeOK'
  BY DEF IInv, TypeOK, Disable, FallsDue, Job
<1>2. \A k \in Jobs : Taken(k)' = Taken(k)
  BY DEF Disable, FallsDue, Taken, Held
<1>3. \A k \in Jobs : jobs'[k].state = jobs[k].state /\ jobs'[k].status = jobs[k].status
  BY DEF IInv, TypeOK, Disable, FallsDue, Job
<1>4. \A k \in Jobs : JobOK(k)'
  BY <1>2, <1>3 DEF IInv, JobOK, There, Disable, FallsDue
<1>. QED  BY <1>1, <1>4, OnlyTheFile DEF Disable, FallsDue

\* A "running" that this process knows nothing of is a thread's elsewhere, and
\* the job is overtaken, or nobody's, and it is not abandoned any more.
LEMMA EnableInv ==
  ASSUME IInv, NEW p \in Processes, NEW j \in Jobs, Enable(p, j)
  PROVE  IInv'
<1> DEFINE revived == jobs[j].status = "running" /\ j \notin running[p]
<1>1. TypeOK'
  BY DEF IInv, TypeOK, Enable, Job
<1>2. \A k \in Jobs : k # j => /\ Taken(k)' = Taken(k)
                               /\ jobs'[k] = jobs[k]
                               /\ k \in overtaken' <=> k \in overtaken
  BY DEF IInv, TypeOK, Enable, Taken, Held
<1>3. jobs'[j].state = jobs[j].state /\ There(j)
  BY DEF IInv, TypeOK, Enable, Job
<1>4. JobOK(j)'
  <2>1. CASE revived
    <3>1. jobs'[j].status = "settled" /\ (Taken(j)' => j \in overtaken')
      BY <2>1 DEF IInv, TypeOK, Enable, Taken, Held
    <3>. QED  BY <1>3, <3>1 DEF JobOK, There
  <2>2. CASE ~revived
    <3>1. /\ jobs'[j].status = jobs[j].status
          /\ UNCHANGED <<runner, overtaken, abandoned>>
      BY <2>2 DEF IInv, TypeOK, Enable, Job
    <3>. QED  BY <1>3, <3>1 DEF IInv, JobOK, There, Taken, Held
  <2>. QED  BY <2>1, <2>2
<1>5. \A k \in Jobs : JobOK(k)'
  BY <1>2, <1>4 DEF IInv, JobOK, There
<1>. QED  BY <1>1, <1>5, OnlyTheFile DEF Enable

-----------------------------------------------------------------------------
(* The steps of the threads.                                               *)

\* What a step has to keep of the others when one thread's hold changes.
LEMMA OneThread ==
  ASSUME IInv, TypeOK', NEW r \in Runners,
         \A q \in Runners : q # r => runner'[q] = runner[q],
         UNCHANGED overtaken,
         RunnerOK(r)',
         \A q \in Runners : q # r => Held(q) \subseteq running'[Home[q]],
         \A q \in Runners : q # r => Held(r)' \cap Held(q) \subseteq overtaken,
         \A q \in Runners : q # r /\ Home[q] = Home[r] => Held(r)' \cap Held(q) = {},
         \A j \in Jobs : JobOK(j)'
  PROVE  IInv'
<1>1. \A q \in Runners : q # r => Held(q)' = Held(q)
  BY DEF Held
<1>2. \A q \in Runners : RunnerOK(q)'
  BY <1>1 DEF IInv, RunnerOK
<1>3. Apart'
  BY <1>1 DEF IInv, Apart
<1>4. NeverTwiceAtOnce'
  BY <1>1 DEF IInv, NeverTwiceAtOnce
<1>. QED  BY <1>2, <1>3, <1>4 DEF IInv

\* What is due is not marked in the file and is not in this process's memory:
\* no thread of the process has it, and one elsewhere only if it was overtaken.
LEMMA DueIsFree ==
  ASSUME IInv, NEW r \in Runners, NEW q \in Runners
  PROVE  /\ Due(Home[r]) \subseteq Jobs
         /\ Due(Home[r]) \cap Held(q) \subseteq overtaken
         /\ Home[q] = Home[r] => Due(Home[r]) \cap Held(q) = {}
BY HeldAreJobs DEF IInv, Due, JobOK, Taken, RunnerOK

LEMMA ClaimInv ==
  ASSUME IInv, NEW r \in Runners, Claim(r)
  PROVE  IInv'
<1> DEFINE due == Due(Home[r])
<1>1. due \subseteq Jobs /\ Home[r] \in Processes
  BY SchedulerAssumption DEF Due
<1>2. TypeOK'
  BY <1>1 DEF IInv, TypeOK, Claim, Job, Runner
<1>3. \A q \in Runners : q # r => runner'[q] = runner[q]
  BY DEF IInv, TypeOK, Claim
<1>4. /\ runner'[r] = [step |-> "running", current |-> None, left |-> due]
      /\ Held(r)' = due
      /\ Held(r) = {}
  <2>1. runner'[r] = [step |-> "running", current |-> None, left |-> due]
    BY DEF IInv, TypeOK, Claim
  <2>2. runner[r].left = {} /\ runner[r].current = None
    BY DEF IInv, RunnerOK, Claim
  <2>. QED  BY <2>1, <2>2, SchedulerAssumption DEF Held
<1>5. /\ running'[Home[r]] = running[Home[r]] \cup due
      /\ \A p \in Processes : running[p] \subseteq running'[p]
  BY <1>1 DEF IInv, TypeOK, Claim
<1>6. RunnerOK(r)'
  BY <1>1, <1>4, <1>5, SchedulerAssumption DEF RunnerOK
<1>7. \A q \in Runners : q # r => Held(q) \subseteq running'[Home[q]]
  BY <1>5, HeldAreJobs DEF IInv, RunnerOK
<1>8. \A j \in Jobs : /\ jobs'[j].state = jobs[j].state
                      /\ jobs'[j].status = IF j \in due THEN "running" ELSE jobs[j].status
  BY <1>1 DEF IInv, TypeOK, Claim, Job
<1>9. \A j \in Jobs : Taken(j)' <=> Taken(j) \/ j \in due
  <2>1. \A q \in Runners : q # r => Held(q)' = Held(q)
    BY <1>3 DEF Held
  <2>. QED  BY <1>4, <2>1 DEF Taken, Claim
<1>10. \A j \in Jobs : JobOK(j)'
  BY <1>8, <1>9 DEF IInv, JobOK, There, Due, Claim
<1>. QED  BY <1>2, <1>3, <1>4, <1>6, <1>7, <1>10, DueIsFree, OneThread DEF Claim

\* A step in which a thread goes on with what it has, or stops.
LEMMA HoldsTheSame ==
  ASSUME IInv, TypeOK', NEW r \in Runners,
         UNCHANGED <<jobs, running, overtaken, abandoned>>,
         \A q \in Runners : q # r => runner'[q] = runner[q],
         Held(r)' = Held(r), RunnerOK(r)'
  PROVE  IInv'
<1>1. \A q \in Runners : Held(q)' = Held(q)
  BY DEF Held
<1>2. \A j \in Jobs : JobOK(j)'
  BY <1>1 DEF IInv, JobOK, There, Taken
<1>3. \A q \in Runners : q # r => Held(q) \subseteq running'[Home[q]]
  BY DEF IInv, RunnerOK
<1>4. \A q \in Runners : q # r => Held(r)' \cap Held(q) \subseteq overtaken
  BY DEF IInv, NeverTwiceAtOnce
<1>5. \A q \in Runners : q # r /\ Home[q] = Home[r] => Held(r)' \cap Held(q) = {}
  BY DEF IInv, Apart
<1>. QED  BY <1>2, <1>3, <1>4, <1>5, OneThread

LEMMA RunJobInv ==
  ASSUME IInv, NEW r \in Runners, NEW j \in Jobs, RunJob(r, j)
  PROVE  IInv'
<1>1. TypeOK'
  BY DEF IInv, TypeOK, RunJob, Runner
<1>2. /\ runner'[r] = [step |-> "running", current |-> j, left |-> runner[r].left \ {j}]
      /\ \A q \in Runners : q # r => runner'[q] = runner[q]
  BY DEF IInv, TypeOK, RunJob, Runner
<1>3. Held(r)' = Held(r)
  BY <1>2, SchedulerAssumption DEF Held, RunJob
<1>4. RunnerOK(r)'
  <2>1. Held(r)' \subseteq running'[Home[r]]
    BY <1>3 DEF IInv, RunnerOK, RunJob
  <2>2. j \notin runner[r].left \ {j} /\ j \in Jobs
    OBVIOUS
  <2>. QED  BY <1>2, <2>1, <2>2 DEF RunnerOK
<1>. QED  BY <1>1, <1>2, <1>3, <1>4, HoldsTheSame DEF RunJob

LEMMA CancelledInv ==
  ASSUME IInv, NEW r \in Runners, Cancelled(r)
  PROVE  IInv'
<1>1. TypeOK'
  BY HeldAreJobs DEF IInv, TypeOK, Cancelled, Runner
<1>2. /\ runner'[r] = [step |-> "stopping", current |-> None, left |-> Held(r)]
      /\ \A q \in Runners : q # r => runner'[q] = runner[q]
  BY DEF IInv, TypeOK, Cancelled
<1>3. Held(r)' = Held(r)
  BY <1>2, HeldAreJobs, SchedulerAssumption DEF Held, IInv
<1>4. RunnerOK(r)'
  BY <1>2, <1>3, HeldAreJobs, SchedulerAssumption DEF IInv, RunnerOK, Cancelled
<1>. QED  BY <1>1, <1>2, <1>3, <1>4, HoldsTheSame DEF Cancelled

\* A thread that marks a job lets it go, and no other thread of its process
\* had it.
LEMMA LetsGo ==
  ASSUME IInv, TypeOK', NEW r \in Runners, NEW j \in Held(r), MarkRan(r, j),
         \A q \in Runners : q # r => runner'[q] = runner[q],
         UNCHANGED overtaken, Held(r)' = Held(r) \ {j},
         runner'[r].step \in {"waiting", "dead"} => runner'[r].left = {},
         runner'[r].current = None
  PROVE  IInv'
<1>1. j \in Jobs /\ \A q \in Runners : Home[q] \in Processes
  BY HeldAreJobs DEF IInv
<1>2. \A q \in Runners : q # r => Held(q)' = Held(q)
  BY DEF Held
<1>3. /\ running'[Home[r]] = running[Home[r]] \ {j}
      /\ \A p \in Processes : p # Home[r] => running'[p] = running[p]
  BY <1>1 DEF IInv, TypeOK, MarkRan
<1>4. RunnerOK(r)'
  <2>1. runner'[r].left \subseteq Jobs
    BY DEF TypeOK, Runner
  <2>. QED  BY <1>3, <2>1, SchedulerAssumption DEF IInv, RunnerOK
<1>5. \A q \in Runners : q # r => Held(q) \subseteq running'[Home[q]]
  BY <1>1, <1>3 DEF IInv, RunnerOK, Apart
<1>6. \A q \in Runners : q # r => Held(r)' \cap Held(q) \subseteq overtaken
  BY DEF IInv, NeverTwiceAtOnce
<1>7. \A q \in Runners : q # r /\ Home[q] = Home[r] => Held(r)' \cap Held(q) = {}
  BY DEF IInv, Apart
<1>8. \A k \in Jobs : k # j => jobs'[k] = jobs[k] /\ (Taken(k)' <=> Taken(k))
  BY <1>2 DEF IInv, TypeOK, MarkRan, Taken
<1>9. JobOK(j)'
  <2>1. Taken(j)' => j \in overtaken
    BY <1>2 DEF IInv, MarkRan, Taken, NeverTwiceAtOnce
  <2>2. Taken(j)
    BY DEF Taken
  <2>3. jobs'[j].state = jobs[j].state
    BY <1>1 DEF IInv, TypeOK, MarkRan, Job
  <2>4. jobs'[j].status # "running"
    BY <1>1 DEF IInv, TypeOK, MarkRan, JobOK, There
  <2>. QED  BY <1>1, <2>1, <2>2, <2>3, <2>4 DEF IInv, JobOK, There
<1>10. \A k \in Jobs : JobOK(k)'
  BY <1>8, <1>9 DEF IInv, JobOK, There, MarkRan
<1>. QED  BY <1>4, <1>5, <1>6, <1>7, <1>10, OneThread

LEMMA JobEndsInv ==
  ASSUME IInv, NEW r \in Runners, JobEnds(r)
  PROVE  IInv'
<1> DEFINE j == runner[r].current
<1>1. j \in Held(r) /\ j \in Jobs /\ Home[r] \in Processes
  BY HeldAreJobs DEF IInv, JobEnds, Held
<1>2. runner'[r] = IF runner[r].left = {} THEN Waiting
                   ELSE [step |-> "running", current |-> None, left |-> runner[r].left]
  BY DEF IInv, TypeOK, Runner, JobEnds
<1>3. \A q \in Runners : q # r => runner'[q] = runner[q]
  BY DEF IInv, TypeOK, JobEnds
<1>4. TypeOK'
  <2>1. runner' \in [Runners -> Runner]
    BY <1>2, <1>3 DEF IInv, TypeOK, Runner, Waiting, JobEnds
  <2>. QED  BY <1>1, <2>1 DEF IInv, TypeOK, JobEnds, MarkRan, Job
<1>5. /\ runner'[r].left = runner[r].left
      /\ runner'[r].current = None
      /\ runner'[r].step \in {"waiting", "dead"} => runner'[r].left = {}
  BY <1>2 DEF Waiting
<1>6. Held(r)' = Held(r) \ {j}
  BY <1>5 DEF Held, IInv, RunnerOK
<1>. QED  BY <1>1, <1>3, <1>4, <1>5, <1>6, LetsGo DEF JobEnds

LEMMA MarkStoppedInv ==
  ASSUME IInv, NEW r \in Runners, NEW j \in Jobs, MarkStopped(r, j)
  PROVE  IInv'
<1>1. /\ j \in Held(r) /\ Home[r] \in Processes
      /\ runner[r].current = None
  BY HeldAreJobs DEF IInv, RunnerOK, MarkStopped, Held
<1>2. \/ /\ runner[r].left \ {j} = {}
         /\ runner'[r].step \in {"waiting", "dead"}
         /\ runner'[r] = [step |-> runner'[r].step, current |-> None, left |-> {}]
      \/ runner'[r] = [step |-> "stopping", current |-> None, left |-> runner[r].left \ {j}]
  <2>1. CASE runner[r].left = {j}
    <3>1. runner'[r] = [Waiting EXCEPT !.step = IF r = Ticker THEN "dead" ELSE "waiting"]
      BY <2>1 DEF IInv, TypeOK, MarkStopped
    <3>. QED  BY <2>1, <3>1 DEF Waiting
  <2>2. CASE runner[r].left # {j}
    <3>1. runner'[r] = [runner[r] EXCEPT !.left = @ \ {j}]
      BY <2>2 DEF IInv, TypeOK, MarkStopped
    <3>. QED  BY <1>1, <3>1 DEF IInv, TypeOK, Runner, MarkStopped
  <2>. QED  BY <2>1, <2>2
<1>3. \A q \in Runners : q # r => runner'[q] = runner[q]
  BY DEF IInv, TypeOK, MarkStopped
<1>4. TypeOK'
  <2>1. runner' \in [Runners -> Runner]
    BY <1>2, <1>3 DEF IInv, TypeOK, Runner, MarkStopped
  <2>. QED  BY <1>1, <2>1 DEF IInv, TypeOK, MarkStopped, MarkRan, Job
<1>5. /\ runner'[r].left = runner[r].left \ {j}
      /\ runner'[r].current = None
      /\ runner'[r].step \in {"waiting", "dead"} => runner'[r].left = {}
  BY <1>2
<1>6. Held(r)' = Held(r) \ {j}
  BY <1>1, <1>5 DEF Held
<1>. QED  BY <1>1, <1>3, <1>4, <1>5, <1>6, LetsGo DEF MarkStopped

\* The memory keeps jobs that no thread has: nothing asks it to be exact.
LEMMA ClaimFailsInv ==
  ASSUME IInv, NEW r \in Runners, ClaimFails(r)
  PROVE  IInv'
<1>1. Due(Home[r]) \subseteq Jobs /\ Home[r] \in Processes
  BY SchedulerAssumption DEF Due
<1>2. TypeOK'
  BY <1>1 DEF IInv, TypeOK, ClaimFails
<1>3. \A p \in Processes : running[p] \subseteq running'[p]
  BY <1>1 DEF IInv, TypeOK, ClaimFails
<1>4. \A q \in Runners : Held(q)' = Held(q) /\ runner'[q] = runner[q] /\ Home[q] \in Processes
  BY SchedulerAssumption DEF Held, ClaimFails
<1>5. \A q \in Runners : RunnerOK(q)'
  BY <1>3, <1>4 DEF IInv, RunnerOK
<1>6. \A j \in Jobs : JobOK(j)'
  BY <1>4 DEF IInv, JobOK, There, Taken, ClaimFails
<1>7. Apart' /\ NeverTwiceAtOnce'
  BY <1>4 DEF IInv, Apart, NeverTwiceAtOnce, ClaimFails
<1>. QED  BY <1>2, <1>5, <1>6, <1>7 DEF IInv

\* A thread that is lost leaves every job it had marked in the file: what was
\* held is now abandoned.
LEMMA WriteFailsInv ==
  ASSUME IInv, NEW r \in Runners, NEW j \in Jobs, WriteFails(r, j)
  PROVE  IInv'
<1>1. /\ Held(r) \subseteq Jobs /\ j \in Held(r)
      /\ \A q \in Runners : Home[q] \in Processes
  BY HeldAreJobs, SchedulerAssumption DEF IInv, WriteFails, Held
<1>2. TypeOK'
  BY <1>1 DEF IInv, TypeOK, WriteFails, Runner, Waiting
<1>3. runner'[r] = Waiting /\ Held(r)' = {}
  BY DEF IInv, TypeOK, WriteFails, Waiting, Held
<1>4. \A q \in Runners : q # r => runner'[q] = runner[q] /\ Held(q)' = Held(q)
  BY DEF IInv, TypeOK, WriteFails, Held
<1>5. RunnerOK(r)'
  BY <1>3 DEF RunnerOK, Waiting
<1>6. /\ running'[Home[r]] = running[Home[r]] \ {j}
      /\ \A p \in Processes : p # Home[r] => running'[p] = running[p]
  BY <1>1 DEF IInv, TypeOK, WriteFails
<1>7. \A q \in Runners : q # r => Held(q) \subseteq running'[Home[q]]
  BY <1>1, <1>6 DEF IInv, RunnerOK, Apart
<1>8. \A k \in Jobs : Taken(k)' <=> Taken(k)
  BY <1>3, <1>4 DEF Taken, WriteFails
<1>9. \A k \in Jobs : JobOK(k)'
  BY <1>8 DEF IInv, JobOK, There, WriteFails
<1>. QED  BY <1>2, <1>3, <1>4, <1>5, <1>7, <1>9, OneThread DEF WriteFails

LEMMA RestartInv ==
  ASSUME IInv, NEW p \in Processes, Restart(p)
  PROVE  IInv'
<1>1. \A r \in Runners : /\ Home[r] = p => runner'[r] = Waiting /\ Held(r)' = {}
                         /\ Home[r] # p => runner'[r] = runner[r] /\ Held(r)' = Held(r)
                         /\ Home[r] \in Processes /\ Held(r) \subseteq Jobs
  BY HeldAreJobs DEF IInv, Restart, Waiting, Held
<1>2. TypeOK'
  <2>1. runner' \in [Runners -> Runner]
    BY DEF IInv, TypeOK, Restart, Runner, Waiting
  <2>. QED  BY <1>1, <2>1 DEF IInv, TypeOK, Restart
<1>3. \A q \in Processes : q # p => running'[q] = running[q]
  BY DEF IInv, TypeOK, Restart
<1>4. \A r \in Runners : RunnerOK(r)'
  BY <1>1, <1>3 DEF IInv, RunnerOK, Waiting
<1>5. \A j \in Jobs : Taken(j)' <=> Taken(j)
  BY <1>1 DEF Taken, Restart
<1>6. \A j \in Jobs : JobOK(j)'
  BY <1>5 DEF IInv, JobOK, There, Restart
<1>7. Apart' /\ NeverTwiceAtOnce'
  BY <1>1 DEF IInv, Apart, NeverTwiceAtOnce, Restart
<1>. QED  BY <1>2, <1>4, <1>6, <1>7 DEF IInv

-----------------------------------------------------------------------------
LEMMA NextInv == IInv /\ [Next]_vars => IInv'
<1>. SUFFICES ASSUME IInv, [Next]_vars PROVE IInv'
  OBVIOUS
<1>1. ASSUME NEW j \in Jobs, Remove(j) \/ Disable(j) \/ FallsDue(j) PROVE IInv'
  BY <1>1, RemoveInv, DisableOrFallsDueInv
<1>2. ASSUME NEW j \in Jobs, NEW due \in BOOLEAN, Add(j, due) PROVE IInv'
  BY <1>2, AddInv
<1>3. ASSUME NEW p \in Processes, NEW j \in Jobs, Enable(p, j) PROVE IInv'
  BY <1>3, EnableInv
<1>4. ASSUME NEW r \in Runners, Claim(r) \/ Proceed(r) \/ Cancelled(r) \/ ClaimFails(r)
      PROVE  IInv'
  BY <1>4, ClaimInv, RunJobInv, MarkStoppedInv, JobEndsInv, CancelledInv, ClaimFailsInv
     DEF Proceed
<1>5. ASSUME NEW r \in Runners, NEW j \in Jobs, WriteFails(r, j) PROVE IInv'
  BY <1>5, WriteFailsInv
<1>6. ASSUME NEW p \in Processes, Restart(p) PROVE IInv'
  BY <1>6, RestartInv
<1>7. CASE UNCHANGED vars
  BY <1>7 DEF vars, IInv, TypeOK, RunnerOK, JobOK, Taken, There, Apart, NeverTwiceAtOnce, Held
<1>. QED  BY <1>1, <1>2, <1>3, <1>4, <1>5, <1>6, <1>7 DEF Next

\* The inductive invariant of the scheduler: threads, memories and file agree
\* on who has which job (claim_due_jobs, mark_ran, set_enabled, remove).
THEOREM ThreadsAndFileAgree == Spec => []IInv
BY InitInv, NextInv, PTL DEF Spec

\* Type correctness.
THEOREM JobsWellTyped == Spec => []TypeOK
<1>1. IInv => TypeOK
  BY DEF IInv
<1>. QED  BY <1>1, ThreadsAndFileAgree, PTL

\* Two threads of whatever processes have one job at a time only if it was
\* enabled again elsewhere while the first was running it.
THEOREM JobsRunOnce == Spec => []NeverTwiceAtOnce
<1>1. IInv => NeverTwiceAtOnce
  BY DEF IInv
<1>. QED  BY <1>1, ThreadsAndFileAgree, PTL

\* "running" in schedule.json is never a leftover, but of a thread that was
\* lost before it could mark the job.
THEOREM RunningMeansHeld == Spec => []RunningIsHeld
<1>1. IInv => RunningIsHeld
  BY DEF IInv, JobOK, Taken, RunningIsHeld
<1>. QED  BY <1>1, ThreadsAndFileAgree, PTL

\* No step of any thread or command starts again, by itself, a run that was
\* cut short half way.
THEOREM CutShortStaysCut == Spec => NoRerunUnasked
<1> DEFINE Rerun == \A r \in Runners :
                      runner[r].step = "waiting" => Held(r)' \cap (abandoned \ overtaken) = {}
<1>1. ASSUME IInv, Next PROVE Rerun
  <2>. SUFFICES ASSUME NEW r \in Runners, runner[r].step = "waiting",
                       NEW j \in Held(r)', j \in abandoned
                PROVE  j \in overtaken
    BY DEF Rerun
  <2>1. Held(r) = {}
    BY <1>1 DEF IInv, RunnerOK, Held
  <2>2. CASE Claim(r)
    <3>1. Held(r)' = Due(Home[r])
      BY <1>1, <2>2, SchedulerAssumption DEF IInv, TypeOK, Claim, Held, Due
    <3>. QED  BY <1>1, <3>1 DEF IInv, JobOK, Taken, Due
  <2>3. CASE runner'[r] = runner[r] \/ runner'[r] = Waiting
    BY <2>1, <2>3 DEF Held, Waiting
  <2>4. ASSUME NEW q \in Runners, q # r, Claim(q) PROVE runner'[r] = runner[r]
    BY <1>1, <2>4 DEF IInv, TypeOK, Claim
  <2>5. ASSUME NEW q \in Runners, Proceed(q) \/ Cancelled(q) PROVE runner'[r] = runner[r]
    BY <1>1, <2>5 DEF IInv, TypeOK, Proceed, RunJob, MarkStopped, JobEnds, Cancelled
  <2>6. ASSUME NEW q \in Runners, NEW k \in Jobs, WriteFails(q, k)
        PROVE  runner'[r] = runner[r]
    BY <1>1, <2>6 DEF IInv, TypeOK, WriteFails
  <2>7. ASSUME NEW p \in Processes, Restart(p)
        PROVE  runner'[r] = runner[r] \/ runner'[r] = Waiting
    BY <2>7 DEF Restart
  <2>. QED
    BY <1>1, <2>2, <2>3, <2>4, <2>5, <2>6, <2>7
    DEF Next, Add, Remove, Disable, Enable, FallsDue, ClaimFails
<1>2. IInv /\ [Next]_vars => [Rerun]_vars
  BY <1>1
<1>. QED  BY <1>2, ThreadsAndFileAgree, PTL DEF Spec, NoRerunUnasked

-----------------------------------------------------------------------------
\* Sentences (Routing)

\* What a router may have made of anything.
Sayable(d) ==
  /\ d \in Decision /\ d.do # "timecard"
  /\ d.do = "image" => d.on \in {"scene", "diagram", "text"}
  /\ d.do = "transcribe" => d.from \in {"named", "half-named", "nameless", "made-up"}

\* What the sentence, or the conversation, warrants of what is run for it.
Settles(s, d) ==
  LET this == "back" \in s /\ "subject" \notin s IN
  /\ "negated" \notin s
  /\ "not-forget" \in s => d.do = "reminder"
  /\ d.do = "reminder" => "to-be-told" \notin s
  /\ d.do \in Targets => d.from # "made-up"
  /\ d.do = "transcribe" => d.from \in {"named", "nameless"}
  /\ d.do = "image" => /\ s \cap {"diagram", "spelled"} = {} /\ d.on = "scene"
                       /\ this => d.from = "topic" /\ topic = "scene"
  /\ d.do = "timecard" /\ this => topic = "text" \/ "spelled" \in s
  /\ d.do = "document" => /\ "pages" \in s => d.pages
                          /\ "diagram" \in s => "file" \in s

Warranted(s, d, by) ==
  /\ IsCommand(d) /\ Settles(s, d)
  /\ d.do = "run" /\ by = "llm" => "asks-how" \notin s /\ s \cap {"asks-to-run", "typed"} # {}
  /\ d.do = "undo-file" => changed \/ ("names" \in s /\ by = "heuristic")

\* The inductive invariant: what is about to run is warranted, and so is what ran.
RoutingInv ==
  /\ RoutingTypeOK
  /\ mode = "run" => Warranted(sentence, decision, source) /\ source \in {"heuristic", "llm"}
  /\ ran # NothingRan => Warranted(ran.says, ran.made, ran.by)

LEMMA BareIs == ASSUME NEW k \in Kinds PROVE Bare(k) \in Decision /\ Bare(k).do = k /\ Bare(k).on = "scene"
BY DEF Bare, Decision, Origins, PicturesOf

LEMMA CommandsAreSayable == \A d \in Commands : Sayable(d) /\ IsCommand(d)
<1>. USE DEF Kinds, Targets
<1>1. ASSUME NEW k \in Targets \cup {"transcribe"}, NEW o \in {"named", "half-named", "nameless", "made-up"}
      PROVE  Sayable([Bare(k) EXCEPT !.from = o]) /\ IsCommand([Bare(k) EXCEPT !.from = o])
  BY <1>1, BareIs DEF Bare, Sayable, IsCommand, Decision, Origins
<1>2. ASSUME NEW o \in {"scene", "diagram", "text"}
      PROVE  Sayable([Bare("image") EXCEPT !.from = "made-up", !.on = o])
               /\ IsCommand([Bare("image") EXCEPT !.from = "made-up", !.on = o])
  BY <1>2, BareIs DEF Bare, Sayable, IsCommand, Decision, Origins, PicturesOf
<1>3. ASSUME NEW p \in BOOLEAN
      PROVE  Sayable([Bare("document") EXCEPT !.pages = p]) /\ IsCommand([Bare("document") EXCEPT !.pages = p])
  BY <1>3, BareIs DEF Bare, Sayable, IsCommand, Decision
<1>4. ASSUME NEW k \in {"run", "undo-file", "reminder", "tool"} PROVE Sayable(Bare(k)) /\ IsCommand(Bare(k))
  BY <1>4, BareIs DEF Sayable, IsCommand
<1>. QED  BY <1>1, <1>2, <1>3, <1>4 DEF Commands

LEMMA AnswersAreSayable ==
  ASSUME NEW s
  PROVE  /\ \A d \in InstantAnswers(s) \cup ModelAnswers : Sayable(d)
         /\ \A d \in InstantAnswers(s) : d.do = "undo-file" => changed \/ "names" \in s
         /\ Sayable(Chat)
<1>1. \A k \in {"chat", "small-talk", "told"} : Sayable(Bare(k)) /\ Bare(k).do = k
  BY BareIs DEF Kinds, Sayable
<1>. QED  BY <1>1, CommandsAreSayable DEF InstantAnswers, InstantCommands, LeftToTalk, ModelAnswers, Chat

\* After the picture's repair a picture is of what was talked about, and nothing else is new.
LEMMA PicturesAreOfTheTopic ==
  ASSUME topic \in Topics, NEW s, NEW d, Sayable(d), NEW e \in RepairImage(s, d)
  PROVE  LET this == "back" \in s /\ "subject" \notin s IN
         /\ e \in Decision
         /\ e = d \/ ~IsCommand(e) \/ e.do \in {"image", "timecard"}
         /\ e.do = "image" => /\ s \cap {"diagram", "spelled"} = {} /\ e.on = "scene"
                              /\ this => e.from = "topic" /\ topic = "scene"
         /\ e.do = "timecard" /\ this => topic = "text" \/ "spelled" \in s
<1>1. /\ \A k \in {"chat", "told", "timecard"} : Bare(k) \in Decision /\ Bare(k).do = k
      /\ Chat = Bare("chat")
  BY BareIs DEF Kinds, Chat
<1>2. topic \in {"scene", "diagram", "text", "none"}
  BY RoutingAssumption DEF PicturesOf
<1>3. CASE d.do # "image"
  BY <1>3 DEF RepairImage, Sayable
<1>4. CASE d.do = "image"
  <2> DEFINE this == "back" \in s /\ "subject" \notin s
             p == [d EXCEPT !.from = "topic", !.on = "scene"]
  <2>1. p \in Decision /\ p.do = "image" /\ p.from = "topic" /\ p.on = "scene"
    BY <1>4 DEF Sayable, Decision, Origins, PicturesOf
  <2>2. CASE this
    <3>1. \/ e \in {Chat, Bare("timecard"), p, Bare("told")}
      BY <1>4, <2>2 DEF RepairImage
    <3>2. e = p => topic = "scene" /\ "diagram" \notin s /\ "spelled" \notin s
      BY <1>1, <1>2, <1>4, <2>1, <2>2 DEF RepairImage
    <3>3. e = Bare("timecard") => topic = "text" \/ "spelled" \in s
      BY <1>1, <1>4, <2>2, <2>1 DEF RepairImage
    <3>. QED  BY <1>1, <2>1, <3>1, <3>2, <3>3 DEF IsCommand
  <2>3. CASE ~this
    <3>1. e \in {Chat, Bare("timecard"), d}
      BY <1>4, <2>3 DEF RepairImage
    <3>2. e = d => d.on = "scene" /\ "diagram" \notin s /\ "spelled" \notin s
      BY <1>1, <1>4, <2>3 DEF RepairImage, Sayable
    <3>. QED  BY <1>1, <1>4, <2>3, <3>1, <3>2 DEF IsCommand, Sayable
  <2>. QED  BY <2>2, <2>3
<1>. QED  BY <1>3, <1>4

\* The repairs together leave only what the sentence warrants.
LEMMA DecidedIsWarranted ==
  ASSUME topic \in Topics, NEW s, NEW d, Sayable(d), NEW f \in Decided(s, d)
  PROVE  /\ f \in Decision
         /\ IsCommand(f) => Settles(s, f)
         /\ IsCommand(f) /\ f.do \in {"run", "undo-file"} => f.do = d.do
<1>1. PICK e \in RepairImage(s, d) : f = Settled(s, RepairDocument(s, RepairTarget(e)))
  BY DEF Decided
<1>2. Chat \in Decision /\ ~IsCommand(Chat) /\ Chat.do = "chat"
  BY BareIs DEF Chat, Kinds, IsCommand
<1> DEFINE this == "back" \in s /\ "subject" \notin s
           t == RepairTarget(e)
           u == RepairDocument(s, t)
<1>3. /\ e \in Decision
      /\ e = d \/ ~IsCommand(e) \/ e.do \in {"image", "timecard"}
      /\ e.do = "image" => /\ s \cap {"diagram", "spelled"} = {} /\ e.on = "scene"
                           /\ this => e.from = "topic" /\ topic = "scene"
      /\ e.do = "timecard" /\ this => topic = "text" \/ "spelled" \in s
  BY PicturesAreOfTheTopic
<1>4. t = Chat \/ t = e
  BY DEF RepairTarget
<1>5. t = e => /\ e.do \in Targets => e.from # "made-up"
               /\ e.do = "transcribe" => e.from \in {"named", "nameless"}
  BY <1>2, <1>3 DEF RepairTarget, Sayable, IsCommand, Targets
<1>6. t \in Decision
  BY <1>2, <1>3, <1>4
<1>7. /\ t.do # "document" => u = t
      /\ t.do = "document" => \/ u = Chat
                              \/ u.do = "document" /\ ("pages" \in s => u.pages) /\ ("diagram" \in s => "file" \in s)
      /\ u \in Decision
  <2>1. CASE t.do # "document"
    BY <1>6, <2>1 DEF RepairDocument
  <2>2. CASE t.do = "document"
    BY <1>2, <1>6, <2>2 DEF RepairDocument, Decision
  <2>. QED  BY <2>1, <2>2
<1> HIDE DEF t, u
<1>8. f = Chat \/ (f = u /\ (IsCommand(u) => /\ "negated" \notin s /\ ("not-forget" \in s => u.do = "reminder")
                                             /\ (u.do = "reminder" => "to-be-told" \notin s)))
  BY <1>1 DEF Settled, t, u
<1>9. ASSUME f = u, IsCommand(u), u # Chat PROVE Settles(s, f) /\ (f.do \in {"run", "undo-file"} => f.do = d.do)
  <2>1. CASE t.do = "document"
    BY <1>7, <1>8, <1>9, <2>1 DEF Settles, Targets
  <2>2. CASE t.do # "document"
    <3>1. u = t /\ t = e
      BY <1>2, <1>4, <1>7, <1>9, <2>2
    <3>. QED  BY <1>3, <1>5, <1>8, <1>9, <2>2, <3>1 DEF Settles, IsCommand
  <2>. QED  BY <2>1, <2>2
<1>. QED  BY <1>2, <1>7, <1>8, <1>9

LEMMA ModelIsWarranted ==
  ASSUME topic \in Topics, NEW s, NEW d \in ModelAnswers, NEW f \in ModelDecided(s, d)
  PROVE  f \in Decision /\ (IsCommand(f) => Warranted(s, f, "llm"))
<1> DEFINE r == RepairShell(s, d)
           e == IF r.do = "undo-file" /\ ~changed THEN Chat ELSE r
<1>1. Sayable(d) /\ Sayable(Chat) /\ Sayable(Bare("told")) /\ Chat.do = "chat" /\ Bare("told").do = "told"
  BY AnswersAreSayable, BareIs DEF Chat, Kinds, ModelAnswers
<1>2. Sayable(r) /\ (r.do = "run" => "asks-how" \notin s /\ s \cap {"asks-to-run", "typed"} # {})
  BY <1>1 DEF RepairShell
<1> HIDE DEF r
<1>3. Sayable(e) /\ (e.do = "run" => "asks-how" \notin s /\ s \cap {"asks-to-run", "typed"} # {})
        /\ (e.do = "undo-file" => changed)
  BY <1>1, <1>2
<1>4. f \in Decided(s, e)
  BY DEF ModelDecided, r
<1> HIDE DEF e
<1>. QED  BY <1>3, <1>4, DecidedIsWarranted DEF Warranted

LEMMA InstantIsWarranted ==
  ASSUME topic \in Topics, NEW s, NEW d \in InstantAnswers(s), NEW f \in Decided(s, d)
  PROVE  f \in Decision /\ (IsCommand(f) => Warranted(s, f, "heuristic"))
BY AnswersAreSayable, DecidedIsWarranted DEF Warranted

LEMMA NothingIsTyped ==
  /\ Chat \in Decision /\ NothingRan \in [says : SUBSET Marks, made : Decision, by : {"nobody", "heuristic", "llm"}]
  /\ 0 \in 0..(MostParts - 1) /\ 0 \in 0..MostTurns
<1>1. Chat \in Decision
  BY BareIs DEF Chat, Kinds
<1>2. 0 \in 0..(MostParts - 1) /\ 0 \in 0..MostTurns
  BY RoutingAssumption
<1>. QED  BY <1>1, <1>2 DEF NothingRan

LEMMA RoutingStarts == RoutingInit => RoutingInv
<1>. SUFFICES ASSUME RoutingInit PROVE RoutingInv
  OBVIOUS
<1>1. RoutingTypeOK
  BY NothingIsTyped DEF RoutingInit, Resting, RoutingTypeOK
<1>. QED  BY <1>1 DEF RoutingInit, Resting, RoutingInv

\* Most steps decide nothing and run nothing, and leave the conversation.
LEMMA RestOfTheTurn ==
  ASSUME RoutingInv, RoutingTypeOK', mode' # "run", ran' \in {ran, NothingRan},
         ran' = NothingRan \/ UNCHANGED <<topic, changed>>
  PROVE  RoutingInv'
<1>1. NothingRan' = NothingRan
  BY DEF NothingRan, Chat, Bare
<1>2. ran' = NothingRan \/ (ran' = ran /\ topic' = topic /\ changed' = changed)
  OBVIOUS
<1>. QED  BY <1>1, <1>2 DEF RoutingInv, Warranted, Settles, IsCommand

LEMMA RoutedIsWarranted ==
  ASSUME RoutingInv, NEW d \in Decision, NEW by \in {"heuristic", "llm", "direct-chat"}, Route(d, by),
         IsCommand(d) => Warranted(sentence, d, by) /\ by # "direct-chat"
  PROVE  RoutingInv'
<1>1. RoutingTypeOK'
  BY DEF RoutingInv, RoutingTypeOK, Route, Keep
<1>2. /\ mode' = IF IsCommand(d) THEN "run" ELSE "reply"
      /\ decision' = d /\ source' = by /\ UNCHANGED <<topic, changed, sentence, ran>>
  BY DEF Route, Keep
<1>3. NothingRan' = NothingRan
  BY DEF NothingRan, Chat, Bare
<1>. QED  BY <1>1, <1>2, <1>3 DEF RoutingInv, Warranted, Settles, IsCommand

LEMMA RunRoutedInv ==
  ASSUME RoutingInv, RunRouted
  PROVE  RoutingInv'
<1> DEFINE r == [says |-> sentence, made |-> decision, by |-> source]
<1>1. r.says = sentence /\ r.made = decision /\ r.by = source /\ ran' = r
  BY DEF RunRouted
<1>2. Warranted(sentence, decision, source) /\ source \in {"heuristic", "llm"} /\ RoutingTypeOK
  BY DEF RoutingInv, RunRouted
<1>3. r \in [says : SUBSET Marks, made : Decision, by : {"nobody", "heuristic", "llm"}]
  BY <1>2 DEF RoutingTypeOK
<1> HIDE DEF r
<1>4. UNCHANGED <<sentence, split, parts, source, topic, changed, taken>>
  BY DEF RunRouted, Keep
<1>5. mode' \in {"next", "reply"} /\ decision' \in {decision, Chat} /\ begins' \in {begins, "change", "other"}
  BY DEF RunRouted, Reply
<1>6. RoutingTypeOK'
  BY <1>1, <1>2, <1>3, <1>4, <1>5, NothingIsTyped DEF RoutingTypeOK
<1>7. Warranted(ran.says, ran.made, ran.by)'
  BY <1>1, <1>2, <1>4 DEF Warranted, Settles, IsCommand
<1>. QED  BY <1>5, <1>6, <1>7 DEF RoutingInv

LEMMA RoutingStep == RoutingInv /\ [RoutingNext]_routingvars => RoutingInv'
<1>. SUFFICES ASSUME RoutingInv, [RoutingNext]_routingvars PROVE RoutingInv'
  OBVIOUS
<1>1. RoutingTypeOK /\ topic \in Topics
  BY DEF RoutingInv, RoutingTypeOK
<1>. USE NothingIsTyped
<1>2. CASE UNCHANGED routingvars
  BY <1>2 DEF routingvars, RoutingInv, RoutingTypeOK, Warranted, Settles, IsCommand
<1>3. ASSUME NEW s \in Sentences, AskInWords(s) PROVE RoutingInv'
  <2>1. RoutingTypeOK'
    BY <1>1, <1>3, RoutingAssumption DEF AskInWords, RoutingTypeOK
  <2>. QED  BY <1>3, <2>1, RestOfTheTurn DEF AskInWords
<1>4. ASSUME NEW s \in Sentences, NextPart(s) PROVE RoutingInv'
  <2>1. RoutingTypeOK'
    BY <1>1, <1>4, RoutingAssumption DEF NextPart, RoutingTypeOK, Keep
  <2>. QED  BY <1>4, <2>1, RestOfTheTurn DEF NextPart
<1>5. CASE Split
  <2>1. sentence' \in SUBSET Marks /\ parts' \in 0..(MostParts - 1)
    BY <1>5, RoutingAssumption DEF Split
  <2>2. RoutingTypeOK' /\ mode' = "handle" /\ ran' = ran /\ UNCHANGED <<topic, changed>>
    BY <1>1, <1>5, <2>1 DEF Split, RoutingTypeOK, Keep
  <2>. QED  BY <2>2, RestOfTheTurn
<1>6. CASE Whole \/ NotAForm
  <2>1. RoutingTypeOK' /\ mode' # "run" /\ ran' = ran /\ UNCHANGED <<topic, changed>>
    BY <1>1, <1>6 DEF Whole, NotAForm, RoutingTypeOK, Keep
  <2>. QED  BY <2>1, RestOfTheTurn
<1>7. CASE AnswerAtOnce \/ Dispatched \/ Answer \/ PartRefused
  <2>1. mode' = "next" /\ begins' \in {begins, "change", "other"}
    BY <1>7 DEF AnswerAtOnce, Dispatched, Answer, PartRefused, Reply
  <2>2. UNCHANGED <<sentence, split, parts, decision, source, ran, topic, changed, taken>>
    BY <1>7 DEF AnswerAtOnce, Dispatched, Answer, PartRefused, Keep
  <2>3. RoutingTypeOK'
    BY <1>1, <2>1, <2>2 DEF RoutingTypeOK
  <2>. QED  BY <2>1, <2>2, <2>3, RestOfTheTurn
<1>8. CASE RouteInstantly
  BY <1>1, <1>8, InstantIsWarranted, RoutedIsWarranted DEF RouteInstantly
<1>9. CASE RouteToChat
  <2>1. PICK e \in Decided(sentence, Chat) : Route(e, "direct-chat")
    BY <1>9 DEF RouteToChat
  <2>2. e = Chat /\ ~IsCommand(Chat)
    <3>1. Chat.do = "chat"
      BY BareIs DEF Chat, Kinds
    <3>. QED
      BY <2>1, <3>1 DEF Decided, Settled, RepairDocument, RepairTarget, RepairImage, IsCommand, Targets
  <2>. QED  BY <2>1, <2>2, RoutedIsWarranted
<1>10. CASE RouteByModel
  BY <1>1, <1>10, ModelIsWarranted, RoutedIsWarranted DEF RouteByModel
<1>11. CASE EndRouted \/ BreaksOff
  <2>1. /\ mode' = "idle" /\ ran' = NothingRan /\ topic' \in Topics /\ changed' \in BOOLEAN
        /\ sentence' = {} /\ split' = FALSE /\ parts' \in {0, parts} /\ decision' = Chat /\ source' = "nobody"
        /\ begins' = "none" /\ taken' = taken
    BY <1>1, <1>11 DEF EndRouted, BreaksOff
  <2>2. RoutingTypeOK'
    BY <1>1, <2>1 DEF RoutingTypeOK
  <2>. QED  BY <2>1, <2>2, RestOfTheTurn
<1>. QED  BY <1>2, <1>3, <1>4, <1>5, <1>6, <1>7, <1>8, <1>9, <1>10, <1>11, RunRoutedInv DEF RoutingNext

\* Whatever routers make of sentences, what is run was asked for by the sentence or by the conversation it
\* is said in, and nothing in it is made up (_route, _repair_*, _split_requests).
THEOREM SentencesAreHeeded == RoutingSpec => []SentencesAreHeard
<1>1. RoutingInv => SentencesAreHeard
  BY DEF RoutingInv, SentencesAreHeard, NothingUnaskedIsRun, NothingIsMadeUp, Warranted, Settles
<1>. QED  BY <1>1, RoutingStarts, RoutingStep, PTL DEF RoutingSpec

-----------------------------------------------------------------------------
\* What is done behind a card (Outgoing)

Password == Eff("password", "typed")
Off == Eff("computer", "off")

\* What an effect on each surface looks like.
ShapeOK(e) ==
  /\ e.on = "computer" => e = Off
  /\ e.on = "screen" => e.to \in 0..Brightest
  /\ e.on = "desktop" => e.is \in Pictures

Single(r) == (r.todo = {} /\ r.did # {}) \/ (r.did = {} /\ \E e \in r.todo : r.todo = {e})

\* What the step of a call implies: what is done and what is to do was shown; a kind that does one
\* thing has it before it or behind it; a password is not among what a form is about to type.
ActOK(r) ==
  /\ r.did \cup r.todo \subseteq r.shown /\ \A e \in r.shown : ShapeOK(e)
  /\ r.step = "new" => r.did = {} /\ r.todo = {}
  /\ r.step = "reading" => r.did = {} /\ r.kind = "fill"
  /\ r.step \in {"carded", "carded-again"} => r.did = {} /\ r.todo # {}
  /\ r.step \in {"carded", "carded-again", "doing"} /\ r.kind \notin Several => Single(r)
  /\ r.step = "saving" => r.did # {} /\ r.kind \in Wallpapers
  /\ r.step # "over" => r.told = "none"
  /\ Password \notin r.did
  /\ r.kind # "fill" \/ r.step \in {"carded-again", "doing"} => Password \notin r.todo
  /\ r.told = "refused" => r.did = {}
  /\ r.told = "done" /\ r.kind \notin {"fill", "cancel"} => r.did # {}
  /\ r.told = "failed" /\ r.kind # "send" => r.did = {}

\* The inductive invariant.
OutgoingInv ==
  /\ OutgoingTypeOK
  /\ \A a \in Acts : ActOK(act[a])
  /\ OffWasAsked
  /\ OldWallpaperIsKept

\* A step of one call that keeps to what was shown, and keeps what it replaces on the desktop.
LEMMA OneActs ==
  ASSUME OutgoingInv, NEW a \in Acts, NEW r \in Act, PutAct(a, r), ActOK(r),
         r.kind = act[a].kind, r.step # "new", act[a].step # "over", act[a].did \subseteq r.did,
         world' \in World, world'.off => world.off \/ Off \in r.did,
         previous' \in Pictures \cup {"none"}, previous' = previous \/ r.kind \in Wallpapers,
         r.kind = "wallpaper" /\ r.told = "done" => previous' = r.before \/ Eff("desktop", r.before) \in r.did,
         changes' = changes
  PROVE  OutgoingInv'
<1>1. act \in [Acts -> Act] /\ act' = [act EXCEPT ![a] = r]
  BY DEF OutgoingInv, OutgoingTypeOK, PutAct
<1>2. act' \in [Acts -> Act] /\ act'[a] = r /\ \A b \in Acts : b # a => act'[b] = act[b]
  BY <1>1
<1>3. OutgoingTypeOK'
  BY <1>2 DEF OutgoingInv, OutgoingTypeOK
<1>4. \A b \in Acts : ActOK(act'[b])
  BY <1>2 DEF OutgoingInv
<1>5. OffWasAsked'
  BY <1>2 DEF OutgoingInv, OffWasAsked, Off
<1>6. OldWallpaperIsKept'
  <2>. SUFFICES ASSUME NEW b \in Acts, act'[b].kind = "wallpaper", act'[b].told = "done",
                       \A c \in Acts \ {b} : act'[c].kind \in Wallpapers => act'[c].step = "new"
                PROVE  previous' = act'[b].before \/ Eff("desktop", act'[b].before) \in act'[b].did
    BY DEF OldWallpaperIsKept, Saves
  <2>1. CASE b = a
    BY <1>2, <2>1
  <2>2. CASE b # a
    <3>1. act'[b] = act[b] /\ r.kind \notin Wallpapers /\ act[a].kind \notin Wallpapers /\ previous' = previous
      BY <1>2, <2>2
    <3>2. \A c \in Acts \ {b} : act[c].kind \in Wallpapers => act[c].step = "new"
      BY <1>2, <3>1
    <3>. QED  BY <3>1, <3>2 DEF OutgoingInv, OldWallpaperIsKept, Saves
  <2>. QED  BY <2>1, <2>2
<1>. QED  BY <1>3, <1>4, <1>5, <1>6 DEF OutgoingInv

LEMMA EffectsAre ==
  ASSUME NEW o \in Surfaces \cup Panes \cup FieldNames,
         NEW i \in Pictures \cup {"read", "typed", "placed", "ended", "off", "text", "level", "version"}
  PROVE  /\ Eff(o, i) \in Effect /\ Eff(o, i).on = o /\ Eff(o, i).is = i /\ Eff(o, i).to = 0
         /\ \A n \in Nat : LET e == [Eff(o, i) EXCEPT !.to = n] IN e \in Effect /\ e.on = o /\ e.is = i /\ e.to = n
BY DEF Eff, Effect

LEMMA PasswordIs == Password \in Effect /\ Password.on = "password" /\ Off \in Effect /\ Off.on = "computer"
BY EffectsAre DEF Password, Off, Surfaces, FieldNames

\* What is on the first card.
LEMMA AsksAre ==
  ASSUME OutgoingTypeOK, NEW a \in Acts
  PROVE  /\ Asks(a) \subseteq Effect /\ \A e \in Asks(a) : ShapeOK(e)
         /\ act[a].kind \notin Several => Asks(a) = {} \/ \E e \in Asks(a) : Asks(a) = {e}
         /\ act[a].kind # "fill" => Password \notin Asks(a)
<1> DEFINE P(S) == /\ S \subseteq Effect /\ (\A e \in S : ShapeOK(e))
                   /\ S = {} \/ \E e \in S : S = {e}
                   /\ Password \notin S
<1>1. world \in World /\ act[a] \in Act /\ act[a].kind \in ActKinds /\ previous \in Pictures \cup {"none"}
  BY DEF OutgoingTypeOK, Act
<1>2. P({})
  OBVIOUS
<1>3. ASSUME NEW e \in Effect, ShapeOK(e), e.on # "password" PROVE P({e})
  BY <1>3, PasswordIs
<1>4. ASSUME NEW o \in {"mailbox", "program", "clipboard"}, NEW i \in {"read", "ended", "text"}
      PROVE  P({Eff(o, i)})
  <2>1. Eff(o, i) \in Effect /\ Eff(o, i).on = o
    BY <1>4, EffectsAre DEF Surfaces
  <2> DEFINE e == Eff(o, i)
  <2> HIDE DEF e
  <2>2. e \in Effect /\ ShapeOK(e) /\ e.on # "password"
    BY <1>4, <2>1 DEF ShapeOK, e
  <2>3. P({e})
    BY <1>3, <2>2
  <2>. QED  BY <2>3 DEF e
<1>5. P({Off})
  BY <1>3, PasswordIs DEF ShapeOK
<1>6. P(LoadAttachments)
  <2>1. world.attachment \in Nat
    BY <1>1, OutgoingAssumption DEF World
  <2> DEFINE e == [Eff("mail", "version") EXCEPT !.to = world.attachment]
  <2>2. e \in Effect /\ e.on = "mail"
    BY <2>1, EffectsAre DEF Effect, Surfaces
  <2> HIDE DEF e
  <2>3. P({e})
    BY <1>3, <2>2 DEF ShapeOK
  <2>4. LoadAttachments = {e} \/ LoadAttachments = {}
    BY DEF LoadAttachments, e
  <2>. QED  BY <1>2, <2>3, <2>4
<1>7. ASSUME NEW p \in Pictures PROVE P({Eff("desktop", p)})
  <2> DEFINE e == Eff("desktop", p)
  <2>1. e \in Effect /\ e.on = "desktop" /\ e.is = p
    BY EffectsAre DEF Surfaces
  <2> HIDE DEF e
  <2>2. P({e})
    BY <1>3, <2>1 DEF ShapeOK
  <2>. QED  BY <2>2 DEF e
<1>8. P(Brighter)
  <2> DEFINE n == IF world.level < Brightest THEN world.level + 1 ELSE Brightest
             e == [Eff("screen", "level") EXCEPT !.to = n]
  <2>1. n \in 0..Brightest /\ n \in Nat
    BY <1>1, OutgoingAssumption DEF World
  <2> HIDE DEF n
  <2>2. e \in Effect /\ e.on = "screen" /\ e.to = n
    <3>1. Eff("screen", "level") \in Effect /\ Eff("screen", "level").on = "screen"
      BY EffectsAre DEF Surfaces
    <3>. QED  BY <2>1, <3>1 DEF Effect
  <2> HIDE DEF e
  <2>3. P({e})
    BY <1>3, <2>1, <2>2 DEF ShapeOK
  <2>4. Brighter = {e}
    BY DEF Brighter, e, n
  <2>. QED  BY <2>3, <2>4
<1>9. /\ (CHOOSE p \in Pictures : p # world.wallpaper) \in Pictures
      /\ PutBack = {} \/ (previous \in Pictures /\ PutBack = {Eff("desktop", previous)})
      /\ Running = {} \/ Running = {Eff("program", "ended")}
  BY <1>1, OutgoingAssumption DEF World, PutBack, Running
<1>10. FoundPanes \subseteq Effect /\ Password \notin FoundPanes /\ \A e \in FoundPanes : ShapeOK(e)
  <2>1. \A p \in Panes : /\ Eff(p, "placed") \in Effect /\ Eff(p, "placed").on = p
                         /\ p \notin {"password", "computer", "screen", "desktop"}
    BY EffectsAre, OutgoingAssumption DEF Surfaces, FieldNames
  <2>2. \A e \in FoundPanes : \E p \in Panes : e = Eff(p, "placed")
    BY DEF FoundPanes
  <2>. QED  BY <2>1, <2>2, PasswordIs DEF ShapeOK
<1>11. \A e \in {Eff(f, "typed") : f \in FieldNames} : e \in Effect /\ ShapeOK(e)
  <2>1. ASSUME NEW f \in FieldNames PROVE Eff(f, "typed") \in Effect /\ Eff(f, "typed").on = f
    BY EffectsAre
  <2>. QED  BY <2>1 DEF ShapeOK, FieldNames
<1> DEFINE q == CHOOSE p \in Pictures : p # world.wallpaper
<1>12. P({Eff("desktop", q)}) /\ P(PutBack) /\ P(Running) /\ P({Eff("mailbox", "read")})
         /\ P({Eff("clipboard", "text")}) /\ P({Eff("computer", "off")})
  BY <1>2, <1>4, <1>5, <1>7, <1>9 DEF Off
<1>13. act[a].kind \notin Several => P(Asks(a))
  BY <1>1, <1>2, <1>6, <1>8, <1>12 DEF Asks, ActKinds, Several
<1>14. act[a].kind = "fill" => Asks(a) = {Eff(f, "typed") : f \in FieldNames}
  BY DEF Asks
<1>15. act[a].kind = "arrange" => Asks(a) = FoundPanes
  BY DEF Asks
<1>. QED  BY <1>10, <1>11, <1>13, <1>14, <1>15 DEF Several

LEMMA OutgoingStarts == OutgoingInit => OutgoingInv
<1>. SUFFICES ASSUME OutgoingInit PROVE OutgoingInv
  OBVIOUS
<1>1. PICK kinds \in Wanted : act = [a \in Acts |-> NewAct(kinds[a])]
  BY DEF OutgoingInit
<1>2. kinds \in [Acts -> ActKinds]
  BY OutgoingAssumption
<1>3. ASSUME NEW k \in ActKinds
      PROVE  NewAct(k) \in Act /\ ActOK(NewAct(k)) /\ NewAct(k).kind = k /\ NewAct(k).told = "none"
  <2>1. NewAct(k) \in Act
    BY DEF NewAct, Act, ActSteps
  <2>2. /\ NewAct(k).did = {} /\ NewAct(k).todo = {} /\ NewAct(k).shown = {} /\ NewAct(k).step = "new"
        /\ NewAct(k).told = "none" /\ NewAct(k).kind = k
    BY DEF NewAct
  <2>. QED  BY <2>1, <2>2 DEF ActOK
<1>4. act \in [Acts -> Act] /\ \A a \in Acts : ActOK(act[a]) /\ act[a].told = "none"
  BY <1>1, <1>2, <1>3
<1>5. world \in World /\ world.off = FALSE
  BY OutgoingAssumption DEF OutgoingInit, World
<1>6. previous \in Pictures \cup {"none"} /\ changes \in 0..MaxChanges
  BY OutgoingAssumption DEF OutgoingInit
<1>. QED  BY <1>4, <1>5, <1>6 DEF OutgoingInv, OutgoingTypeOK, OffWasAsked, OldWallpaperIsKept

LEMMA MeanwhileInv ==
  ASSUME OutgoingInv, Meanwhile
  PROVE  OutgoingInv'
<1>1. world \in World /\ changes \in 0..MaxChanges /\ UNCHANGED <<act, previous>>
  BY DEF OutgoingInv, OutgoingTypeOK, Meanwhile
<1>2. world' \in World /\ world'.off = world.off
  <2> DEFINE Keeps(w) == w \in World /\ w.off = world.off
  <2>1. \A p \in SUBSET Panes : Keeps([world EXCEPT !.panes = p])
    BY <1>1 DEF World
  <2>2. \A f \in SUBSET FieldNames : Keeps([world EXCEPT !.fields = f])
    BY <1>1 DEF World
  <2>3. \A l \in 0..Brightest : Keeps([world EXCEPT !.level = l])
    BY <1>1 DEF World
  <2>4. \A p \in Pictures : Keeps([world EXCEPT !.wallpaper = p])
    BY <1>1 DEF World
  <2>5. Keeps([world EXCEPT !.attachment = changes + 1])
    <3>1. changes + 1 \in 0..MaxChanges
      BY <1>1, OutgoingAssumption DEF Meanwhile
    <3>. QED  BY <1>1, <3>1 DEF World
  <2>6. \A b \in BOOLEAN : Keeps([world EXCEPT !.exists = b]) /\ Keeps([world EXCEPT !.runs = b])
    BY <1>1 DEF World
  <2>7. (~world.exists) \in BOOLEAN /\ (~world.runs) \in BOOLEAN
    OBVIOUS
  <2> HIDE DEF Keeps
  <2>8. PICK w : world' = w /\ \/ \E p \in SUBSET Panes : w = [world EXCEPT !.panes = p]
                               \/ \E f \in SUBSET FieldNames : w = [world EXCEPT !.fields = f]
                               \/ \E l \in 0..Brightest : w = [world EXCEPT !.level = l]
                               \/ \E p \in Pictures : w = [world EXCEPT !.wallpaper = p]
                               \/ w = [world EXCEPT !.attachment = changes + 1]
                               \/ \E b \in BOOLEAN : w \in {[world EXCEPT !.exists = b], [world EXCEPT !.runs = b]}
    BY <2>7, Zenon DEF Meanwhile
  <2>9. Keeps(w)
    BY <2>1, <2>2, <2>3, <2>4, <2>5, <2>6, <2>8
  <2>. QED  BY <2>8, <2>9 DEF Keeps
<1>3. changes' \in 0..MaxChanges
  BY <1>1, OutgoingAssumption DEF Meanwhile
<1>. QED  BY <1>1, <1>2, <1>3 DEF OutgoingInv, OutgoingTypeOK, OffWasAsked, OldWallpaperIsKept, Saves

\* The steps that neither do anything nor keep the old wallpaper.
LEMMA OnlyTheCall ==
  ASSUME OutgoingInv, NEW a \in Acts, NEW r \in Act, PutAct(a, r), ActOK(r),
         r.kind = act[a].kind, r.step # "new", act[a].step # "over", act[a].did \subseteq r.did,
         r.kind = "wallpaper" => r.told # "done",
         UNCHANGED <<world, previous, changes>>
  PROVE  OutgoingInv'
BY OneActs DEF OutgoingInv, OutgoingTypeOK

LEMMA CardsInv ==
  ASSUME OutgoingInv, NEW a \in Acts, Ask(a) \/ Agree(a) \/ Deny(a) \/ ReadForm(a)
  PROVE  OutgoingInv'
<1>1. act[a] \in Act /\ ActOK(act[a]) /\ OutgoingTypeOK
  BY DEF OutgoingInv, OutgoingTypeOK
<1>2. CASE Ask(a)
  <2> DEFINE over == [act[a] EXCEPT !.step = "over", !.told = "failed"]
             carded == [act[a] EXCEPT !.step = "carded", !.shown = Asks(a), !.todo = Asks(a)]
  <2>1. act[a].step = "new"
    BY <1>2 DEF Ask
  <2>2. CASE Asks(a) = {}
    <3>1. over \in Act /\ ActOK(over) /\ over.kind = act[a].kind /\ over.step = "over" /\ over.did = act[a].did
            /\ over.told = "failed"
      BY <1>1, <2>1 DEF Act, ActSteps, ActOK
    <3>2. PutAct(a, over)
      BY <1>2, <2>2 DEF Ask
    <3> HIDE DEF over
    <3>. QED  BY <1>2, <2>1, <3>1, <3>2, OnlyTheCall DEF Ask
  <2>3. CASE Asks(a) # {}
    <3>1. carded \in Act
      BY <1>1, AsksAre DEF Act, ActSteps
    <3>2. /\ carded.kind = act[a].kind /\ carded.step = "carded" /\ carded.did = {} /\ carded.todo = Asks(a)
          /\ carded.shown = Asks(a) /\ carded.told = "none" /\ act[a].did = {}
      BY <1>1, <2>1 DEF Act, ActOK
    <3>3. PutAct(a, carded)
      BY <1>2, <2>3 DEF Ask
    <3> HIDE DEF carded
    <3>4. ActOK(carded)
      BY <1>1, <2>3, <3>2, AsksAre DEF ActOK, Single
    <3>. QED  BY <1>2, <2>1, <3>1, <3>2, <3>3, <3>4, OnlyTheCall DEF Ask
  <2>. QED  BY <2>2, <2>3
<1>3. CASE Agree(a)
  <2> DEFINE r == [act[a] EXCEPT !.step = IF act[a].kind = "fill" /\ act[a].step = "carded" THEN "reading" ELSE "doing"]
  <2>1. /\ r \in Act /\ r.kind = act[a].kind /\ r.did = act[a].did /\ r.todo = act[a].todo /\ r.told = act[a].told
        /\ r.shown = act[a].shown
        /\ r.step = IF act[a].kind = "fill" /\ act[a].step = "carded" THEN "reading" ELSE "doing"
        /\ act[a].step \in {"carded", "carded-again"}
    BY <1>1, <1>3 DEF Agree, Act, ActSteps
  <2>2. PutAct(a, r) /\ UNCHANGED <<world, previous, changes>>
    BY <1>3 DEF Agree
  <2> HIDE DEF r
  <2>3. ActOK(r)
    BY <1>1, <2>1 DEF ActOK, Single
  <2>4. r.told = "none"
    BY <1>1, <2>1 DEF ActOK
  <2>. QED  BY <2>1, <2>2, <2>3, <2>4, OnlyTheCall
<1>4. CASE Deny(a)
  <2> DEFINE r == [act[a] EXCEPT !.step = "over", !.told = "refused"]
  <2>1. /\ r \in Act /\ r.kind = act[a].kind /\ r.did = act[a].did /\ r.todo = act[a].todo /\ r.told = "refused"
        /\ r.shown = act[a].shown /\ r.step = "over" /\ act[a].step \in {"carded", "carded-again"}
    BY <1>1, <1>4 DEF Deny, Act, ActSteps
  <2>2. PutAct(a, r) /\ UNCHANGED <<world, previous, changes>>
    BY <1>4 DEF Deny
  <2> HIDE DEF r
  <2>3. ActOK(r)
    BY <1>1, <2>1 DEF ActOK
  <2>. QED  BY <2>1, <2>2, <2>3, OnlyTheCall
<1>5. CASE ReadForm(a)
  <2> DEFINE ready == {Eff(f, "typed") : f \in SafeFields}
             over == [act[a] EXCEPT !.step = "over", !.told = "failed"]
             again == [act[a] EXCEPT !.step = "carded-again", !.shown = ready, !.todo = ready]
  <2>1. act[a].step = "reading" /\ act[a].did = {} /\ act[a].kind = "fill" /\ act[a].told = "none"
    BY <1>1, <1>5 DEF ReadForm, ActOK
  <2>2. CASE ready = {}
    <3>1. over \in Act /\ over.kind = act[a].kind /\ over.step = "over" /\ over.did = {} /\ over.todo = act[a].todo
            /\ over.shown = act[a].shown /\ over.told = "failed"
      BY <1>1, <2>1 DEF Act, ActSteps
    <3>2. PutAct(a, over) /\ UNCHANGED <<world, previous, changes>>
      BY <1>5, <2>2 DEF ReadForm
    <3> HIDE DEF over
    <3>3. ActOK(over)
      BY <1>1, <2>1, <3>1 DEF ActOK
    <3>. QED  BY <2>1, <3>1, <3>2, <3>3, OnlyTheCall
  <2>3. CASE ready # {}
    <3>1. ready \subseteq Effect /\ Password \notin ready /\ \A e \in ready : ShapeOK(e)
      <4>1. \A f \in SafeFields : /\ Eff(f, "typed") \in Effect /\ Eff(f, "typed").on = f
                                  /\ f \in FieldNames \ {"password"}
        BY <1>1, EffectsAre DEF OutgoingTypeOK, World, SafeFields
      <4>2. \A f \in SafeFields : ShapeOK(Eff(f, "typed")) /\ Eff(f, "typed") # Password
        BY <4>1, PasswordIs DEF ShapeOK, FieldNames
      <4>. QED  BY <4>1, <4>2
    <3>2. PutAct(a, again) /\ UNCHANGED <<world, previous, changes>>
      BY <1>5, <2>3 DEF ReadForm
    <3> HIDE DEF ready
    <3>3. again \in Act /\ again.kind = act[a].kind /\ again.step = "carded-again" /\ again.did = {}
            /\ again.todo = ready /\ again.shown = ready /\ again.told = "none"
      BY <1>1, <2>1, <3>1 DEF Act, ActSteps
    <3> HIDE DEF again
    <3>4. ActOK(again)
      BY <2>1, <2>3, <3>1, <3>3 DEF ActOK, Several
    <3>. QED  BY <2>1, <3>2, <3>3, <3>4, OnlyTheCall
  <2>. QED  BY <2>2, <2>3
<1>. QED  BY <1>2, <1>3, <1>4, <1>5

LEMMA DoInv ==
  ASSUME OutgoingInv, NEW a \in Acts, Do(a)
  PROVE  OutgoingInv'
<1> DEFINE e == Chosen(a)
           b == IF act[a].kind \in Wallpapers THEN world.wallpaper ELSE "none"
           r == [act[a] EXCEPT !.todo = @ \ {e}, !.did = @ \cup {e}, !.before = b]
<1>1. act[a] \in Act /\ ActOK(act[a]) /\ world \in World /\ previous \in Pictures \cup {"none"}
  BY DEF OutgoingInv, OutgoingTypeOK
<1>2. e \in act[a].todo /\ act[a].step = "doing"
  BY DEF Do, Chosen
<1>3. b \in Pictures \cup {"none"}
  BY <1>1 DEF World
<1>4. PutAct(a, r) /\ world' = After(e) /\ UNCHANGED <<previous, changes>>
  BY DEF Do
<1> HIDE DEF e, b
<1>5. /\ r \in Act /\ r.kind = act[a].kind /\ r.step = "doing" /\ r.shown = act[a].shown /\ r.told = act[a].told
      /\ r.todo = act[a].todo \ {e} /\ r.did = act[a].did \cup {e}
  BY <1>1, <1>2, <1>3 DEF Act
<1> HIDE DEF r
<1>6. act[a].told = "none" /\ ShapeOK(e) /\ e # Password
  BY <1>1, <1>2 DEF ActOK
<1>7. ActOK(r)
  <2>1. r.kind \notin Several => Single(r)
    BY <1>1, <1>2, <1>5 DEF ActOK, Single
  <2>. QED  BY <1>1, <1>2, <1>5, <1>6, <2>1 DEF ActOK
<1>8. world' \in World /\ (world'.off => world.off \/ e = Off)
  BY <1>1, <1>4, <1>6 DEF After, World, ShapeOK
<1>. QED  BY <1>1, <1>2, <1>4, <1>5, <1>6, <1>7, <1>8, OneActs

LEMMA OneFailsInv ==
  ASSUME OutgoingInv, NEW a \in Acts, DoFails(a)
  PROVE  OutgoingInv'
<1> DEFINE e == Chosen(a)
           on == [act[a] EXCEPT !.todo = @ \ {e}, !.failed = @ \cup {e}]
           t == IF act[a].kind \in Wallpapers \cup {"shut-down"} THEN "unexpected" ELSE "failed"
           over == [act[a] EXCEPT !.step = "over", !.told = t]
<1>1. act[a] \in Act /\ ActOK(act[a])
  BY DEF OutgoingInv, OutgoingTypeOK
<1>2. e \in act[a].todo /\ act[a].step = "doing" /\ t \in {"unexpected", "failed"} /\ e \in Effect
  BY <1>1 DEF DoFails, Chosen, Act
<1>3. UNCHANGED <<world, previous, changes>>
  BY DEF DoFails
<1>4. CASE act[a].kind \in Several
  <2>1. PutAct(a, on)
    BY <1>4 DEF DoFails
  <2> HIDE DEF e
  <2>2. /\ on \in Act /\ on.kind = act[a].kind /\ on.step = "doing" /\ on.shown = act[a].shown
        /\ on.told = act[a].told /\ on.todo = act[a].todo \ {e} /\ on.did = act[a].did
    BY <1>1, <1>2 DEF Act
  <2> HIDE DEF on
  <2>3. ActOK(on) /\ on.told = "none"
    BY <1>1, <1>2, <1>4, <2>2 DEF ActOK
  <2>. QED  BY <1>2, <1>3, <2>1, <2>2, <2>3, OnlyTheCall
<1>5. CASE act[a].kind \notin Several
  <2>1. PutAct(a, over)
    BY <1>5 DEF DoFails
  <2> HIDE DEF e, t
  <2>2. /\ over \in Act /\ over.kind = act[a].kind /\ over.step = "over" /\ over.shown = act[a].shown
        /\ over.told = t /\ over.todo = act[a].todo /\ over.did = act[a].did
    BY <1>1, <1>2 DEF Act, ActSteps
  <2> HIDE DEF over
  <2>3. act[a].did = {}
    BY <1>1, <1>2, <1>5 DEF ActOK, Single
  <2>4. ActOK(over)
    BY <1>1, <1>2, <2>2, <2>3 DEF ActOK
  <2>. QED  BY <1>2, <1>3, <2>1, <2>2, <2>3, <2>4, OnlyTheCall
<1>. QED  BY <1>4, <1>5

LEMMA PostInv ==
  ASSUME OutgoingInv, NEW a \in Acts, Post(a)
  PROVE  OutgoingInv'
<1>1. act[a] \in Act /\ ActOK(act[a]) /\ act[a].step = "doing" /\ act[a].kind = "send" /\ act[a].todo # {}
  BY DEF OutgoingInv, OutgoingTypeOK, Post
<1>2. PICK leaves \in BOOLEAN, told \in {"done", "failed", "unexpected"} :
        /\ told = "done" => leaves
        /\ PutAct(a, [act[a] EXCEPT !.step = "over", !.todo = {}, !.told = told,
                                    !.did = IF leaves THEN act[a].todo ELSE {}])
  BY DEF Post
<1> DEFINE d == IF leaves THEN act[a].todo ELSE {}
           r == [act[a] EXCEPT !.step = "over", !.todo = {}, !.told = told, !.did = d]
<1>3. d \subseteq act[a].todo /\ (told = "done" => d # {})
  BY <1>1, <1>2
<1>4. PutAct(a, r)
  BY <1>2
<1> HIDE DEF d
<1>5. /\ r \in Act /\ r.kind = "send" /\ r.step = "over" /\ r.shown = act[a].shown
      /\ r.told = told /\ r.todo = {} /\ r.did = d
  BY <1>1, <1>3 DEF Act, ActSteps
<1> HIDE DEF r
<1>6. act[a].did = {} /\ Password \notin act[a].todo
  BY <1>1 DEF ActOK, Single, Several
<1>7. ActOK(r)
  BY <1>1, <1>3, <1>5, <1>6 DEF ActOK
<1>. QED  BY <1>1, <1>4, <1>5, <1>6, <1>7, OnlyTheCall DEF Post

LEMMA TellInv ==
  ASSUME OutgoingInv, NEW a \in Acts, Tell(a)
  PROVE  OutgoingInv'
<1> DEFINE saving == [act[a] EXCEPT !.step = "saving"]
           over == [act[a] EXCEPT !.step = "over", !.told = ToldOf(a)]
<1>1. act[a] \in Act /\ ActOK(act[a]) /\ act[a].step = "doing" /\ act[a].todo = {}
  BY DEF OutgoingInv, OutgoingTypeOK, Tell
<1>2. UNCHANGED <<world, previous, changes>>
  BY DEF Tell
<1>3. act[a].kind \notin Several => act[a].did # {}
  BY <1>1 DEF ActOK, Single
<1>4. CASE act[a].kind \in Wallpapers
  <2>1. /\ saving \in Act /\ saving.kind = act[a].kind /\ saving.step = "saving" /\ saving.shown = act[a].shown
        /\ saving.told = act[a].told /\ saving.todo = {} /\ saving.did = act[a].did
    BY <1>1 DEF Act, ActSteps
  <2>2. PutAct(a, saving)
    BY <1>4 DEF Tell
  <2> HIDE DEF saving
  <2>3. ActOK(saving) /\ saving.told = "none"
    BY <1>1, <1>3, <1>4, <2>1 DEF ActOK, Several, Wallpapers
  <2>. QED  BY <1>1, <1>2, <2>1, <2>2, <2>3, OnlyTheCall
<1>5. CASE act[a].kind \notin Wallpapers
  <2>1. /\ over \in Act /\ over.kind = act[a].kind /\ over.step = "over" /\ over.shown = act[a].shown
        /\ over.told = ToldOf(a) /\ over.todo = {} /\ over.did = act[a].did
    BY <1>1 DEF Act, ActSteps, ToldOf
  <2>2. PutAct(a, over)
    BY <1>5 DEF Tell
  <2> HIDE DEF over
  <2>3. /\ ToldOf(a) \in {"done", "failed"} /\ (ToldOf(a) = "failed" => act[a].did = {})
        /\ (ToldOf(a) = "done" /\ act[a].kind # "fill" => act[a].did # {})
    BY <1>3 DEF ToldOf, Several
  <2>4. ActOK(over)
    BY <1>1, <2>1, <2>3 DEF ActOK
  <2>. QED  BY <1>1, <1>2, <1>5, <2>1, <2>2, <2>4, OnlyTheCall DEF Wallpapers
<1>. QED  BY <1>4, <1>5

LEMMA SaveInv ==
  ASSUME OutgoingInv, NEW a \in Acts, SaveWallpaper(a) \/ SaveWallpaperFails(a)
  PROVE  OutgoingInv'
<1>1. act[a] \in Act /\ ActOK(act[a]) /\ act[a].step = "saving" /\ world \in World
        /\ previous \in Pictures \cup {"none"}
  BY DEF OutgoingInv, OutgoingTypeOK, SaveWallpaper, SaveWallpaperFails
<1>2. act[a].did # {} /\ act[a].kind \in Wallpapers /\ act[a].before \in Pictures \cup {"none"}
  BY <1>1 DEF ActOK, Act
<1>3. ASSUME NEW t \in {"done", "unexpected"}, PutAct(a, [act[a] EXCEPT !.step = "over", !.told = t]),
             UNCHANGED <<world, changes>>, previous' \in Pictures \cup {"none"},
             t = "done" => previous' = act[a].before \/ ~Saves(a)
      PROVE  OutgoingInv'
  <2> DEFINE r == [act[a] EXCEPT !.step = "over", !.told = t]
  <2>1. /\ r \in Act /\ r.kind = act[a].kind /\ r.step = "over" /\ r.shown = act[a].shown
        /\ r.told = t /\ r.todo = act[a].todo /\ r.did = act[a].did /\ r.before = act[a].before
    BY <1>1, <1>3 DEF Act, ActSteps
  <2>2. PutAct(a, r)
    BY <1>3
  <2> HIDE DEF r
  <2>3. ActOK(r)
    BY <1>1, <1>2, <1>3, <2>1 DEF ActOK
  <2>. QED  BY <1>1, <1>2, <1>3, <2>1, <2>2, <2>3, OneActs DEF Saves
<1>4. CASE SaveWallpaper(a)
  <2>1. previous' = (IF Saves(a) THEN act[a].before ELSE previous)
    BY <1>4 DEF SaveWallpaper
  <2>. QED  BY <1>1, <1>2, <1>3, <1>4, <2>1 DEF SaveWallpaper
<1>5. CASE SaveWallpaperFails(a)
  BY <1>1, <1>3, <1>5 DEF SaveWallpaperFails
<1>. QED  BY <1>4, <1>5

LEMMA CancelInv ==
  ASSUME OutgoingInv, NEW a \in Acts, CancelShutdown(a)
  PROVE  OutgoingInv'
<1> DEFINE t == IF world.off THEN "done" ELSE "failed"
           r == [act[a] EXCEPT !.step = "over", !.told = t]
<1>1. act[a] \in Act /\ ActOK(act[a]) /\ act[a].step = "new" /\ world \in World /\ act[a].kind = "cancel"
        /\ previous \in Pictures \cup {"none"}
  BY DEF OutgoingInv, OutgoingTypeOK, CancelShutdown
<1>2. t \in {"done", "failed"} /\ PutAct(a, r) /\ UNCHANGED <<previous, changes>>
  BY DEF CancelShutdown
<1> HIDE DEF t
<1>3. /\ r \in Act /\ r.kind = "cancel" /\ r.step = "over" /\ r.shown = act[a].shown
      /\ r.told = t /\ r.todo = act[a].todo /\ r.did = act[a].did
  BY <1>1, <1>2 DEF Act, ActSteps
<1> HIDE DEF r
<1>4. ActOK(r)
  BY <1>1, <1>2, <1>3 DEF ActOK
<1>5. world' \in World /\ world'.off = FALSE
  BY <1>1 DEF CancelShutdown, World
<1>. QED  BY <1>1, <1>2, <1>3, <1>4, <1>5, OneActs

LEMMA OutgoingStep == OutgoingInv /\ [OutgoingNext]_outgoingvars => OutgoingInv'
<1>. SUFFICES ASSUME OutgoingInv, [OutgoingNext]_outgoingvars PROVE OutgoingInv'
  OBVIOUS
<1>1. CASE UNCHANGED outgoingvars
  BY <1>1 DEF outgoingvars, OutgoingInv, OutgoingTypeOK, OffWasAsked, OldWallpaperIsKept, Saves
<1>. QED
  BY <1>1, MeanwhileInv, CardsInv, DoInv, OneFailsInv, PostInv, TellInv, SaveInv, CancelInv DEF OutgoingNext

\* Whatever changes while cards are open, what is done to the laptop or leaves it is what the card said,
\* what is told of it is true, and the old wallpaper can be put back (email.py, browser.py, windows.py, system.py).
THEOREM ActsKeepToTheirCards == OutgoingSpec => []ActsAreAsShown
<1>1. OutgoingInv => ActsAreAsShown
  BY DEF OutgoingInv, ActsAreAsShown, DoneAsShown, RefusedDoesNothing, ToldAsDone, ActOK, Password
<1>. QED  BY <1>1, OutgoingStarts, OutgoingStep, PTL DEF OutgoingSpec

-----------------------------------------------------------------------------
\* Questions to the outside world (Engines)

AskingOK ==
  /\ asking.set \in {"auto"} \cup EnginesOf[asking.kind]
  /\ asking.kind \notin Named => Unset
  /\ asking.kind = "search" => "duckduckgo" \in asking.has

\* Those that were begun come before those still to be asked, and together they are the candidates.
InOrder ==
  /\ tried \cup left = Candidates /\ tried \cap left = {}
  /\ \A e \in tried, f \in left : Order[e] < Order[f]

StandingOK ==
  /\ standing = "asked" => left = {} /\ tried = {}
  /\ tried = {} => spent = 0 /\ until = 0
  /\ standing # "over" => outcome = "none"
  /\ IF standing = "asked" \/ outcome = "refused" THEN tried = {} ELSE InOrder
  /\ standing = "between" => DOMAIN met = tried
  /\ standing = "under-way" => /\ engine \in tried /\ DOMAIN met = tried \ {engine}
                               /\ \A e \in tried : Order[e] <= Order[engine]

\* An engine that was passed over is put down, if another one is asked after it.
PassedOver ==
  asking.kind \in Named \cup {"picture"} =>
    \A e \in DOMAIN met : met[e] # "answer" /\ e # Hindmost(Candidates) =>
      e \in noted \/ (standing = "over" /\ tried = {e})

BudgetOK ==
  /\ OneBudget
  /\ IF asking.kind # "picture" THEN spent = 0
     ELSE standing = "under-way" => spent + Allowed <= Larger(Budget, MinAttempt)

StopOK ==
  stopped = "riva" => tried = {"riva"} /\ (standing = "over" \/ (standing = "under-way" /\ engine = "riva"))

\* The inductive invariant.
EnginesInv ==
  EnginesTypeOK /\ AskingOK /\ StandingOK /\ PassedOver /\ LastResortIsAsked /\ BudgetOK /\ DeadFeedLosesNothing /\ StopOK

LEMMA OrdersAre ==
  /\ \A e \in {"parse", "riva", "magpie", "model", "api", "whole", "feed", "nmt"} : e \in DOMAIN Order /\ Order[e] = 1
  /\ \A e \in {"tesseract", "vosk", "offline", "second", "duckduckgo", "trimmed", "other"} :
       e \in DOMAIN Order /\ Order[e] = 2
  /\ \A e \in {"whisper", "head"} : e \in DOMAIN Order /\ Order[e] = 3
BY DEF Order

LEMMA KindsAre ==
  /\ QuestionKinds = {"imagetext", "speech", "voice", "picture", "search", "weather", "news", "translation"}
  /\ EnginesOf["imagetext"] = {"parse", "tesseract"} /\ EnginesOf["speech"] = {"riva", "vosk", "whisper"}
  /\ EnginesOf["voice"] = {"magpie", "offline"} /\ EnginesOf["picture"] = {"model", "second"}
  /\ EnginesOf["search"] = {"api", "duckduckgo"} /\ EnginesOf["weather"] = {"whole", "trimmed", "head"}
  /\ EnginesOf["news"] = {"feed", "other"} /\ EnginesOf["translation"] = {"nmt"}
BY DEF QuestionKinds, EnginesOf

LEMMA EnginesAreOrdered ==
  ASSUME NEW k \in QuestionKinds
  PROVE  /\ EnginesOf[k] \subseteq DOMAIN Order
         /\ \A e \in EnginesOf[k] : Order[e] \in {1, 2, 3}
         /\ \A e, f \in EnginesOf[k] : Order[e] = Order[f] => e = f
BY KindsAre, OrdersAre

LEMMA FirstAndLast ==
  ASSUME NEW k \in QuestionKinds, NEW S \in SUBSET EnginesOf[k], S # {}
  PROVE  /\ Foremost(S) \in S /\ \A f \in S : Order[Foremost(S)] <= Order[f]
         /\ Hindmost(S) \in S /\ \A f \in S : Order[f] <= Order[Hindmost(S)]
<1>1. \A e \in S : Order[e] \in {1, 2, 3}
  BY EnginesAreOrdered
<1>2. \E e \in S : \A f \in S : Order[e] <= Order[f]
  <2>1. CASE \E e \in S : Order[e] = 1
    BY <1>1, <2>1
  <2>2. CASE (\A e \in S : Order[e] # 1) /\ \E e \in S : Order[e] = 2
    BY <1>1, <2>2
  <2>3. CASE \A e \in S : Order[e] = 3
    BY <2>3
  <2>. QED  BY <1>1, <2>1, <2>2, <2>3
<1>3. \E e \in S : \A f \in S : Order[f] <= Order[e]
  <2>1. CASE \E e \in S : Order[e] = 3
    BY <1>1, <2>1
  <2>2. CASE (\A e \in S : Order[e] # 3) /\ \E e \in S : Order[e] = 2
    BY <1>1, <2>2
  <2>3. CASE \A e \in S : Order[e] = 1
    BY <2>3
  <2>. QED  BY <1>1, <2>1, <2>2, <2>3
<1>. QED  BY <1>2, <1>3 DEF Foremost, Hindmost

LEMMA CandidatesAre ==
  ASSUME EnginesTypeOK, AskingOK
  PROVE  /\ asking.kind \in QuestionKinds /\ Candidates \subseteq EnginesOf[asking.kind]
         /\ ~Unset => Candidates = {asking.set} /\ asking.kind \in Named
         /\ Unset => \A e \in Candidates : Goes(e)
         /\ asking.kind \in {"picture", "search"} => Candidates \subseteq asking.has
         /\ asking.kind = "search" => Candidates # {}
<1>1. asking.kind \in QuestionKinds
  BY DEF EnginesTypeOK
<1>2. ~Unset => Candidates = {asking.set} /\ asking.kind \in Named /\ asking.set \in EnginesOf[asking.kind]
  BY DEF Candidates, AskingOK, Unset
<1>3. Unset => Candidates = {e \in EnginesOf[asking.kind] : Goes(e)}
  BY DEF Candidates
<1>4. asking.kind \in {"picture", "search"} => Unset /\ EnginesOf[asking.kind] \subseteq {"model", "second", "api", "duckduckgo"}
  BY KindsAre DEF AskingOK, Named
<1>5. \A e \in {"model", "second", "api", "duckduckgo"} : Goes(e) <=> e \in asking.has
  BY DEF Goes
<1>6. asking.kind = "search" => "duckduckgo" \in Candidates
  BY <1>3, <1>4, <1>5, KindsAre DEF AskingOK
<1>. QED  BY <1>1, <1>2, <1>3, <1>4, <1>5, <1>6

\* An engine that is not the last resort is the first of two: the hosted one, or the picture model
\* that is preferred.
LEMMA OnlyTheFirstIsPassedOver ==
  ASSUME EnginesTypeOK, AskingOK, asking.kind \in Named \cup {"picture"},
         NEW e \in Candidates, e # Hindmost(Candidates)
  PROVE  /\ Unset /\ e \in {"parse", "riva", "magpie", "model"}
         /\ asking.kind = IF e = "parse" THEN "imagetext" ELSE IF e = "riva" THEN "speech"
                          ELSE IF e = "magpie" THEN "voice" ELSE "picture"
<1> DEFINE h == Hindmost(Candidates)
<1>1. /\ h \in Candidates /\ \A f \in Candidates : Order[f] <= Order[h]
      /\ asking.kind \in QuestionKinds /\ Candidates \subseteq EnginesOf[asking.kind]
  BY CandidatesAre, FirstAndLast
<1>2. Unset
  BY <1>1, CandidatesAre
<1>3. Order[e] <= Order[h] /\ Order[e] # Order[h] /\ Order[e] \in {1, 2, 3} /\ Order[h] \in {1, 2, 3}
  BY <1>1, EnginesAreOrdered
<1> HIDE DEF h
<1>4. CASE asking.kind = "imagetext"
  BY <1>1, <1>2, <1>3, <1>4, KindsAre, OrdersAre
<1>5. CASE asking.kind = "voice"
  BY <1>1, <1>2, <1>3, <1>5, KindsAre, OrdersAre
<1>6. CASE asking.kind = "picture"
  BY <1>1, <1>2, <1>3, <1>6, KindsAre, OrdersAre
<1>7. CASE asking.kind = "speech"
  <2>1. Goes("vosk") <=> "vosk" \in asking.has
    BY DEF Goes
  <2>2. Goes("whisper") <=> "vosk" \notin asking.has
    BY DEF Goes
  <2>3. ~("vosk" \in Candidates /\ "whisper" \in Candidates)
    BY <1>2, <2>1, <2>2, CandidatesAre
  <2>4. e \in {"riva", "vosk", "whisper"} /\ h \in {"riva", "vosk", "whisper"}
    BY <1>1, <1>7, KindsAre
  <2>5. e = "riva"
    BY <1>1, <1>3, <2>3, <2>4, OrdersAre
  <2>. QED  BY <1>2, <1>7, <2>5
<1>. QED  BY <1>4, <1>5, <1>6, <1>7 DEF Named

LEMMA FirstIsReached ==
  ASSUME EnginesTypeOK, AskingOK, asking.kind \in Named, asking.wav, Candidates # {}
  PROVE  IF ToldEngine = "none" THEN Foremost(Candidates) \notin asking.has ELSE Foremost(Candidates) = ToldEngine
<1>1. /\ Foremost(Candidates) \in Candidates /\ \A f \in Candidates : Order[Foremost(Candidates)] <= Order[f]
      /\ asking.kind \in QuestionKinds /\ Candidates \subseteq EnginesOf[asking.kind]
  BY CandidatesAre, FirstAndLast
<1> DEFINE c == Foremost(Candidates)
<1>2. CASE ~Unset
  <2>1. c = asking.set /\ asking.set # "none"
    BY <1>1, <1>2, CandidatesAre, KindsAre DEF AskingOK, Unset
  <2>. QED  BY <1>2, <2>1 DEF ToldEngine
<1>3. CASE Unset
  <2>1. Candidates = {e \in EnginesOf[asking.kind] : Goes(e)}
    BY <1>3 DEF Candidates
  <2>2. ASSUME Present # {}
        PROVE  /\ Foremost(Present) \in EnginesOf[asking.kind] \cap asking.has
               /\ \A f \in EnginesOf[asking.kind] \cap asking.has : Order[Foremost(Present)] <= Order[f]
    BY <1>1, <2>2, FirstAndLast DEF Present
  <2> DEFINE p == Foremost(Present)
  <2>3. /\ Goes("parse") <=> "parse" \in asking.has
        /\ Goes("riva") <=> "riva" \in asking.has
        /\ Goes("vosk") <=> "vosk" \in asking.has
        /\ Goes("magpie") <=> "magpie" \in asking.has
        /\ Goes("tesseract") /\ Goes("offline")
        /\ Goes("whisper") <=> "vosk" \notin asking.has
    BY DEF Goes
  <2>4. ToldEngine = IF Present = {} THEN "none" ELSE p
    BY <1>3 DEF ToldEngine
  <2> HIDE DEF c, p
  <2>5. Present = {} => c \notin asking.has
    BY <1>1, <2>1 DEF Present, c
  <2>6. ASSUME Present # {} PROVE c = p /\ p # "none"
    <3>1. p \in EnginesOf[asking.kind] /\ p \in asking.has
            /\ \A f \in EnginesOf[asking.kind] : f \in asking.has => Order[p] <= Order[f]
      BY <2>2, <2>6 DEF p
    <3>2. c \in EnginesOf[asking.kind] /\ Goes(c) /\ \A f \in EnginesOf[asking.kind] : Goes(f) => Order[c] <= Order[f]
      BY <1>1, <2>1 DEF c
    <3>3. CASE asking.kind = "imagetext"
      BY <2>3, <3>1, <3>2, <3>3, KindsAre, OrdersAre
    <3>4. CASE asking.kind = "voice"
      BY <2>3, <3>1, <3>2, <3>4, KindsAre, OrdersAre
    <3>5. CASE asking.kind = "speech"
      BY <2>3, <3>1, <3>2, <3>5, KindsAre, OrdersAre
    <3>. QED  BY <3>3, <3>4, <3>5 DEF Named
  <2>. QED  BY <2>4, <2>5, <2>6 DEF c
<1>. QED  BY <1>2, <1>3

LEMMA EnginesStart == EnginesInit => EnginesInv
<1>. SUFFICES ASSUME EnginesInit PROVE EnginesInv
  OBVIOUS
<1>1. PICK k \in QuestionKinds : \E has \in SUBSET EnginesOf[k], set \in {"auto"} \cup EnginesOf[k], wav \in BOOLEAN :
        /\ asking = [kind |-> k, set |-> set, has |-> has, wav |-> wav]
        /\ k \notin Named => set = "auto"
        /\ k = "search" => "duckduckgo" \in has
  BY DEF EnginesInit
<1>2. PICK has \in SUBSET EnginesOf[k], set \in {"auto"} \cup EnginesOf[k], wav \in BOOLEAN :
        /\ asking = [kind |-> k, set |-> set, has |-> has, wav |-> wav]
        /\ k \notin Named => set = "auto"
        /\ k = "search" => "duckduckgo" \in has
  BY <1>1
<1>3. asking.kind = k /\ asking.set = set /\ asking.has = has
  BY <1>2
<1>4. asking \in [kind : QuestionKinds, set : {"auto"} \cup DOMAIN Order, has : SUBSET DOMAIN Order, wav : BOOLEAN]
  BY <1>2, EnginesAreOrdered
<1>5. AskingOK
  BY <1>2, <1>3 DEF AskingOK, Unset
<1>6. DOMAIN met = {}
  BY DEF EnginesInit
<1>7. EnginesTypeOK
  BY <1>4, <1>6, EnginesAssumption DEF EnginesInit, EnginesTypeOK
<1>8. BudgetOK
  BY EnginesAssumption DEF EnginesInit, BudgetOK, OneBudget, Larger
<1>. QED
  BY <1>5, <1>6, <1>7, <1>8
     DEF EnginesInit, EnginesInv, StandingOK, PassedOver, LastResortIsAsked, DeadFeedLosesNothing, StopOK

LEMMA PrepareInv == EnginesInv /\ Prepare => EnginesInv'
<1>. SUFFICES ASSUME EnginesInv, Prepare PROVE EnginesInv'
  OBVIOUS
<1>. USE DEF EnginesInv
<1>1. Candidates \subseteq EnginesOf[asking.kind]
  BY CandidatesAre
<1>2. UNCHANGED <<asking, Candidates>>
  BY DEF Prepare, Candidates, Goes, Unset
<1>3. EnginesTypeOK'
  BY <1>1 DEF Prepare, EnginesTypeOK
<1>4. AskingOK'
  BY DEF Prepare, AskingOK, Unset
<1>5. StandingOK'
  BY <1>2 DEF Prepare, StandingOK, InOrder, EnginesTypeOK
<1>6. PassedOver' /\ StopOK'
  BY <1>2 DEF Prepare, PassedOver, StopOK, StandingOK, EnginesTypeOK
<1>7. LastResortIsAsked' /\ DeadFeedLosesNothing'
  BY DEF Prepare, LastResortIsAsked, DeadFeedLosesNothing, StandingOK
<1>8. BudgetOK'
  BY DEF Prepare, BudgetOK, OneBudget
<1>. QED  BY <1>3, <1>4, <1>5, <1>6, <1>7, <1>8

LEMMA RefuseInv == EnginesInv /\ Refuse => EnginesInv'
<1>. SUFFICES ASSUME EnginesInv, Refuse PROVE EnginesInv'
  OBVIOUS
<1>. USE DEF EnginesInv
<1>1. tried = {} /\ DOMAIN met = {}
  BY DEF Refuse, StandingOK, EnginesTypeOK
<1>2. EnginesTypeOK'
  BY DEF Refuse, Ends, EnginesTypeOK
<1>3. AskingOK'
  BY DEF Refuse, AskingOK, Unset
<1>4. StandingOK' /\ StopOK'
  BY <1>1 DEF Refuse, Ends, StandingOK, StopOK
<1>5. PassedOver'
  BY <1>1 DEF Refuse, PassedOver
<1>6. LastResortIsAsked' /\ DeadFeedLosesNothing'
  BY DEF Refuse, Ends, LastResortIsAsked, DeadFeedLosesNothing
<1>7. BudgetOK'
  BY DEF Refuse, Ends, BudgetOK, OneBudget
<1>. QED  BY <1>2, <1>3, <1>4, <1>5, <1>6, <1>7

\* What is left of a picture's budget is what its next attempt may take.
LEMMA AllowedIsLeft ==
  ASSUME EnginesInv, standing = "between", ~TooLate, asking.kind = "picture"
  PROVE  /\ spent + Allowed <= Larger(Budget, MinAttempt) /\ Allowed \in Nat
<1>1. spent \in Nat /\ spent <= Larger(Budget, MinAttempt) /\ Budget \in Nat /\ MinAttempt \in Nat
  BY EnginesAssumption DEF EnginesInv, EnginesTypeOK, BudgetOK, OneBudget
<1>2. tried = {} => spent = 0
  BY DEF EnginesInv, StandingOK
<1>3. tried # {} => ~(Remaining < MinAttempt)
  BY DEF TooLate
<1>. QED  BY <1>1, <1>2, <1>3 DEF Allowed, Remaining, Larger

LEMMA BeginInv == EnginesInv /\ Begin => EnginesInv'
<1>. SUFFICES ASSUME EnginesInv, Begin PROVE EnginesInv'
  OBVIOUS
<1> DEFINE n == Foremost(left)
<1>1. asking.kind \in QuestionKinds /\ left \subseteq EnginesOf[asking.kind] /\ left # {}
  BY DEF Begin, EnginesInv, EnginesTypeOK
<1>2. n \in left /\ \A f \in left : Order[n] <= Order[f]
  BY <1>1, FirstAndLast
<1>3. InOrder /\ DOMAIN met = tried /\ outcome = "none" /\ stopped # "riva"
  BY DEF Begin, EnginesInv, StandingOK, StopOK
<1>4. UNCHANGED <<asking, Candidates, met, noted, spent, stopped, outcome>>
  BY DEF Begin, Candidates, Goes, Unset
<1>5. standing' = "under-way" /\ engine' = n /\ left' = left \ {n} /\ tried' = tried \cup {n}
  BY DEF Begin
<1>6. n \notin tried
  BY <1>2, <1>3 DEF InOrder
<1> HIDE DEF n
<1>7. tried \subseteq EnginesOf[asking.kind]
  BY DEF EnginesInv, EnginesTypeOK
<1>8. \A e \in EnginesOf[asking.kind] : Order[e] \in {1, 2, 3}
  BY <1>1, EnginesAreOrdered
<1>9. \A e, f \in EnginesOf[asking.kind] : Order[e] = Order[f] => e = f
  BY <1>1, EnginesAreOrdered
<1>10. \A f \in left \ {n} : Order[n] < Order[f]
  BY <1>1, <1>2, <1>8, <1>9
<1>11. /\ \A e \in tried' : Order[e] <= Order[engine']
       /\ InOrder'
  BY <1>1, <1>2, <1>3, <1>4, <1>5, <1>6, <1>7, <1>8, <1>10 DEF InOrder
<1>12. /\ until' \in Nat /\ until' <= Larger(Budget, MinAttempt)
       /\ asking.kind = "picture" => spent + Allowed <= Larger(Budget, MinAttempt)
  <2>1. CASE asking.kind = "picture"
    <3>1. ~TooLate /\ standing = "between" /\ until' = spent + Allowed
      BY <2>1 DEF Begin
    <3>2. spent + Allowed <= Larger(Budget, MinAttempt) /\ Allowed \in Nat
      BY <2>1, <3>1, AllowedIsLeft
    <3>. QED  BY <3>1, <3>2 DEF EnginesInv, EnginesTypeOK
  <2>2. CASE asking.kind # "picture"
    BY <2>2, EnginesAssumption DEF Begin, Larger
  <2>. QED  BY <2>1, <2>2
<1>13. EnginesTypeOK'
  BY <1>1, <1>2, <1>4, <1>5, <1>12 DEF EnginesInv, EnginesTypeOK
<1>14. AskingOK'
  BY <1>4 DEF EnginesInv, AskingOK, Unset
<1>15. StandingOK'
  BY <1>3, <1>4, <1>5, <1>6, <1>11 DEF StandingOK
<1>16. PassedOver' /\ StopOK'
  BY <1>3, <1>4, <1>5 DEF EnginesInv, PassedOver, StopOK, Begin
<1>17. LastResortIsAsked' /\ DeadFeedLosesNothing'
  BY <1>3, <1>4 DEF LastResortIsAsked, DeadFeedLosesNothing
<1>18. BudgetOK'
  BY <1>4, <1>12 DEF EnginesInv, BudgetOK, OneBudget, Allowed, Remaining
<1>. QED  BY <1>13, <1>14, <1>15, <1>16, <1>17, <1>18 DEF EnginesInv

LEMMA GiveUpInv == EnginesInv /\ GiveUp => EnginesInv'
<1>. SUFFICES ASSUME EnginesInv, GiveUp PROVE EnginesInv'
  OBVIOUS
<1>1. InOrder /\ DOMAIN met = tried /\ standing = "between" /\ stopped # "riva"
  BY DEF GiveUp, EnginesInv, StandingOK, StopOK
<1>2. UNCHANGED <<asking, Candidates, met, noted, spent, until, stopped, left, tried>>
  BY DEF GiveUp, Candidates, Goes, Unset
<1>3. /\ standing' = "over" /\ engine' = "none" /\ outcome' \in {"answered", "failed"}
      /\ outcome' = "failed" /\ asking.kind = "news" => \A e \in tried : met[e] # "answer"
  BY DEF GiveUp, Ends
<1>4. left = {} => tried = Candidates
  BY <1>1 DEF InOrder
<1>5. left # {} => asking.kind = "picture" /\ Remaining < MinAttempt
  BY DEF GiveUp, TooLate
<1>6. EnginesTypeOK'
  BY <1>2, <1>3 DEF EnginesInv, EnginesTypeOK
<1>7. AskingOK'
  BY <1>2 DEF EnginesInv, AskingOK, Unset
<1>8. StandingOK'
  BY <1>1, <1>2, <1>3 DEF EnginesInv, StandingOK, InOrder
<1>9. PassedOver' /\ StopOK'
  BY <1>1, <1>2, <1>3 DEF EnginesInv, PassedOver, StopOK
<1>10. LastResortIsAsked'
  <2>1. ASSUME left = {}, Candidates # {} PROVE Hindmost(Candidates) \in tried
    BY <1>4, <2>1, CandidatesAre, FirstAndLast DEF EnginesInv
  <2>2. (Remaining < MinAttempt)' <=> Remaining < MinAttempt
    BY <1>2 DEF Remaining
  <2>. QED  BY <1>2, <1>5, <2>1, <2>2 DEF LastResortIsAsked
<1>11. DeadFeedLosesNothing'
  BY <1>2, <1>3, <1>4, <1>5 DEF DeadFeedLosesNothing
<1>12. BudgetOK'
  BY <1>2, <1>3 DEF EnginesInv, BudgetOK, OneBudget
<1>. QED  BY <1>6, <1>7, <1>8, <1>9, <1>10, <1>11, <1>12 DEF EnginesInv

\* An engine that is not the last resort is put down, or nobody is asked after it.
LEMMA EndIsNoted ==
  ASSUME EnginesInv, standing = "under-way", NEW how \in Met, MayEnd(how), how # "answer",
         asking.kind \in Named \cup {"picture"}, engine # Hindmost(Candidates)
  PROVE  Noted(how) \/ (~GoesOn(how) /\ tried = {engine})
<1>1. engine \in tried /\ InOrder /\ \A e \in tried : Order[e] <= Order[engine]
  BY DEF EnginesInv, StandingOK
<1>2. engine \in Candidates
  BY <1>1 DEF InOrder
<1>3. /\ Unset /\ engine \in {"parse", "riva", "magpie", "model"}
      /\ asking.kind = IF engine = "parse" THEN "imagetext" ELSE IF engine = "riva" THEN "speech"
                       ELSE IF engine = "magpie" THEN "voice" ELSE "picture"
  BY <1>2, OnlyTheFirstIsPassedOver DEF EnginesInv
<1>4. Candidates \subseteq EnginesOf[asking.kind] /\ (asking.kind = "picture" => Candidates \subseteq asking.has)
  BY CandidatesAre DEF EnginesInv
<1>5. tried \subseteq EnginesOf[asking.kind]
  BY <1>1, <1>4 DEF InOrder
<1>6. tried = {engine}
  <2>1. Order[engine] = 1 /\ \A e \in tried : Order[e] <= 1
    BY <1>1, <1>3, OrdersAre
  <2>2. asking.kind \in QuestionKinds /\ \A e \in EnginesOf[asking.kind] : Order[e] \in {1, 2, 3}
    BY EnginesAreOrdered DEF EnginesInv, EnginesTypeOK
  <2>3. \A e \in tried : Order[e] = Order[engine]
    BY <1>5, <2>1, <2>2
  <2>. QED  BY <1>1, <1>5, <2>2, <2>3, EnginesAreOrdered
<1>7. left # {}
  BY <1>1, <1>2, <1>6, <1>4, CandidatesAre, FirstAndLast DEF InOrder, EnginesInv
<1>8. how \in {"empty", "missing", "error", "rpc", "odd"}
  BY DEF Met
<1>9. asking.kind = "picture" => how \notin {"missing", "rpc"}
  BY <1>2, <1>3, <1>4 DEF MayEnd, Hosted
<1>. QED  BY <1>3, <1>6, <1>7, <1>8, <1>9 DEF Noted, GoesOn, HostedFailures

\* An engine after which nobody is asked and which was no use is the last, or ended as no handler expects.
LEMMA FailureIsLast ==
  ASSUME EnginesInv, standing = "under-way", NEW how \in Met, MayEnd(how), Told(how) = "failed", ~GoesOn(how),
         asking.kind \in Named \cup {"picture", "search"}
  PROVE  left = {} \/ how = "odd"
<1>1. engine \in Candidates
  BY DEF EnginesInv, StandingOK, InOrder
<1>2. asking.kind \in {"picture", "search"} =>
        engine \in asking.has /\ engine \in {"model", "second", "api", "duckduckgo"}
  BY <1>1, CandidatesAre, KindsAre DEF EnginesInv
<1>3. asking.kind \in {"picture", "search"} => how \notin {"missing", "rpc"}
  BY <1>2 DEF MayEnd, Hosted
<1>. QED  BY <1>3 DEF Met, Told, GoesOn, HostedFailures, Named

LEMMA AttemptEndsInv == EnginesInv /\ AttemptEnds => EnginesInv'
<1>. SUFFICES ASSUME EnginesInv, AttemptEnds PROVE EnginesInv'
  OBVIOUS
<1>1. PICK how \in Met, took \in 0..(IF asking.kind = "picture" THEN Allowed ELSE 0) :
        /\ MayEnd(how)
        /\ spent' = spent + took
        /\ IF Listens /\ stopped # "no" THEN Ends("stopped") /\ UNCHANGED <<met, noted>>
           ELSE /\ met' = [e \in DOMAIN met \cup {engine} |-> IF e = engine THEN how ELSE met[e]]
                /\ noted' = IF Noted(how) THEN noted \cup {engine} ELSE noted
                /\ IF GoesOn(how) THEN standing' = "between" /\ UNCHANGED <<outcome, engine>>
                   ELSE Ends(Told(how))
  BY DEF AttemptEnds
<1>2. UNCHANGED <<asking, Candidates, left, tried, until, stopped>> /\ standing = "under-way"
  BY DEF AttemptEnds, Candidates, Goes, Unset
<1>3. /\ InOrder /\ engine \in tried /\ DOMAIN met = tried \ {engine} /\ outcome = "none"
      /\ noted \subseteq tried
  BY <1>2 DEF EnginesInv, StandingOK, EnginesTypeOK
<1>4. spent \in Nat /\ Budget \in Nat /\ MinAttempt \in Nat /\ until \in Nat
  BY EnginesAssumption DEF EnginesInv, EnginesTypeOK
<1>5. Larger(Budget, MinAttempt) \in Nat /\ Larger(Budget, MinAttempt) <= Budget + MinAttempt /\ Allowed \in Nat
  BY <1>4 DEF Larger, Allowed, Remaining
<1>6. /\ spent' \in Nat /\ spent' <= Larger(Budget, MinAttempt)
      /\ asking.kind # "picture" => spent' = 0
  <2>1. CASE asking.kind = "picture"
    BY <1>1, <1>2, <1>4, <1>5, <2>1 DEF EnginesInv, BudgetOK
  <2>2. CASE asking.kind # "picture"
    BY <1>1, <1>2, <1>4, <1>5, <2>2 DEF EnginesInv, BudgetOK, OneBudget
  <2>. QED  BY <2>1, <2>2
<1>7. AskingOK'
  BY <1>2 DEF EnginesInv, AskingOK, Unset
<1>8. standing' # "under-way" => BudgetOK'
  BY <1>2, <1>6 DEF EnginesInv, BudgetOK, OneBudget
<1>9. CASE Listens /\ stopped # "no"
  <2>1. standing' = "over" /\ outcome' = "stopped" /\ engine' = "none" /\ UNCHANGED <<met, noted>>
    BY <1>1, <1>9 DEF Ends
  <2>2. EnginesTypeOK'
    BY <1>2, <1>4, <1>5, <1>6, <2>1 DEF EnginesInv, EnginesTypeOK
  <2>3. StandingOK'
    BY <1>2, <1>3, <2>1 DEF StandingOK, InOrder
  <2>4. PassedOver' /\ StopOK'
    BY <1>2, <2>1 DEF EnginesInv, PassedOver, StopOK
  <2>5. LastResortIsAsked' /\ DeadFeedLosesNothing'
    BY <2>1 DEF LastResortIsAsked, DeadFeedLosesNothing
  <2>. QED  BY <1>7, <1>8, <2>1, <2>2, <2>3, <2>4, <2>5 DEF EnginesInv
<1>10. CASE ~(Listens /\ stopped # "no")
  <2>1. /\ DOMAIN met' = tried /\ met'[engine] = how
        /\ \A e \in tried \ {engine} : met'[e] = met[e]
    BY <1>1, <1>3, <1>10
  <2>2. /\ noted \subseteq noted' /\ noted' \subseteq tried
        /\ Noted(how) => engine \in noted'
    BY <1>1, <1>3, <1>10
  <2>3. \/ GoesOn(how) /\ standing' = "between" /\ outcome' = "none" /\ engine' = engine
        \/ ~GoesOn(how) /\ standing' = "over" /\ outcome' = Told(how) /\ engine' = "none"
    BY <1>1, <1>3, <1>10 DEF Ends
  <2>4. Told(how) \in {"answered", "failed", "unexpected"}
    BY DEF Told
  <2>5. EnginesTypeOK'
    <3>1. \A e \in DOMAIN met' : met'[e] \in Met
      BY <1>3, <2>1 DEF EnginesInv, EnginesTypeOK
    <3>. QED  BY <1>2, <1>3, <1>4, <1>5, <1>6, <2>1, <2>2, <2>3, <2>4, <3>1 DEF EnginesInv, EnginesTypeOK
  <2>6. StandingOK'
    BY <1>2, <1>3, <2>1, <2>3, <2>4 DEF StandingOK, InOrder
  <2>7. PassedOver'
    <3>. SUFFICES ASSUME asking.kind \in Named \cup {"picture"}, NEW e \in tried,
                         met'[e] # "answer", e # Hindmost(Candidates)
                  PROVE  e \in noted' \/ (standing' = "over" /\ tried = {e})
      BY <1>2, <2>1 DEF PassedOver, Hindmost
    <3>1. CASE e # engine
      BY <1>2, <1>3, <2>1, <2>2, <3>1 DEF EnginesInv, PassedOver
    <3>2. CASE e = engine
      BY <1>1, <1>2, <2>1, <2>2, <2>3, <3>2, EndIsNoted
    <3>. QED  BY <3>1, <3>2
  <2>8. StopOK'
    BY <1>2, <1>10 DEF EnginesInv, StopOK, Listens
  <2>9. LastResortIsAsked'
    <3>. SUFFICES ASSUME outcome' = "failed", asking.kind \in Named \cup {"picture", "search"}, Candidates # {}
                  PROVE  Hindmost(Candidates) \in tried \/ \E e \in tried : met'[e] = "odd"
      BY <1>2, <2>1 DEF LastResortIsAsked, Hindmost
    <3>1. left = {} \/ how = "odd"
      BY <1>1, <1>2, <2>3, FailureIsLast
    <3>2. ASSUME left = {} PROVE Hindmost(Candidates) \in tried
      BY <1>3, <3>2, CandidatesAre, FirstAndLast DEF EnginesInv, InOrder
    <3>. QED  BY <1>3, <2>1, <3>1, <3>2
  <2>10. DeadFeedLosesNothing'
    <3>1. asking.kind = "news" /\ ~GoesOn(how) => Told(how) # "failed"
      BY DEF GoesOn, Told
    <3>. QED  BY <1>2, <2>3, <3>1 DEF DeadFeedLosesNothing
  <2>. QED  BY <1>7, <1>8, <2>3, <2>5, <2>6, <2>7, <2>8, <2>9, <2>10 DEF EnginesInv
<1>. QED  BY <1>9, <1>10

LEMMA PressStopInv == EnginesInv /\ PressStop => EnginesInv'
<1>. SUFFICES ASSUME EnginesInv, PressStop PROVE EnginesInv'
  OBVIOUS
<1>1. UNCHANGED <<asking, standing, engine, left, tried, met, noted, spent, until, outcome>>
  BY DEF PressStop
<1>2. /\ stopped' = IF standing = "under-way" THEN engine ELSE "early"
      /\ standing = "under-way" =>
           /\ InOrder /\ engine \in tried /\ tried \subseteq EnginesOf[asking.kind]
           /\ \A e \in tried : Order[e] <= Order[engine]
  BY DEF PressStop, EnginesInv, StandingOK, EnginesTypeOK
<1>3. asking.kind \in QuestionKinds
  BY DEF EnginesInv, EnginesTypeOK
<1>4. standing = "under-way" /\ engine = "riva" => tried = {"riva"}
  BY <1>2, <1>3, KindsAre, OrdersAre
<1>5. EnginesTypeOK'
  BY <1>1, <1>2 DEF EnginesInv, EnginesTypeOK
<1>6. AskingOK' /\ StandingOK'
  BY <1>1 DEF EnginesInv, AskingOK, StandingOK, InOrder, Candidates, Goes, Unset
<1>7. PassedOver'
  BY <1>1 DEF EnginesInv, PassedOver, Hindmost, Candidates, Goes, Unset
<1>8. LastResortIsAsked'
  BY <1>1 DEF EnginesInv, LastResortIsAsked, Hindmost, Remaining, Candidates, Goes, Unset
<1>9. BudgetOK'
  BY <1>1 DEF EnginesInv, BudgetOK, OneBudget, Allowed, Remaining
<1>10. DeadFeedLosesNothing'
  BY <1>1 DEF EnginesInv, DeadFeedLosesNothing, Candidates, Goes, Unset
<1>11. StopOK'
  BY <1>1, <1>2, <1>4 DEF StopOK
<1>. QED  BY <1>5, <1>6, <1>7, <1>8, <1>9, <1>10, <1>11 DEF EnginesInv

LEMMA EnginesStep == EnginesInv /\ [EnginesNext]_enginevars => EnginesInv'
<1>. SUFFICES ASSUME EnginesInv, UNCHANGED enginevars PROVE EnginesInv'
  BY PrepareInv, RefuseInv, BeginInv, GiveUpInv, AttemptEndsInv, PressStopInv DEF EnginesNext
<1>1. EnginesTypeOK' /\ AskingOK' /\ StandingOK'
  BY DEF enginevars, EnginesInv, EnginesTypeOK, AskingOK, StandingOK, InOrder, Candidates, Goes, Unset
<1>2. PassedOver' /\ LastResortIsAsked'
  BY DEF enginevars, EnginesInv, PassedOver, LastResortIsAsked, Hindmost, Remaining, Candidates, Goes, Unset
<1>3. BudgetOK' /\ DeadFeedLosesNothing' /\ StopOK'
  BY DEF enginevars, EnginesInv, BudgetOK, OneBudget, Allowed, Remaining, DeadFeedLosesNothing, StopOK,
         Candidates, Goes, Unset
<1>. QED  BY <1>1, <1>2, <1>3 DEF EnginesInv

LEMMA EnginesServeAsTold == EnginesInv => EnginesServe
<1>. SUFFICES ASSUME EnginesInv PROVE EnginesServe
  OBVIOUS
<1>1. tried \subseteq Candidates
  BY DEF EnginesInv, StandingOK, InOrder
<1>2. StopStartsNothing
  BY DEF EnginesInv, StopOK, StopStartsNothing
<1>3. NoSilentFallback
  BY DEF EnginesInv, PassedOver, NoSilentFallback
<1>4. ToldIsReached
  BY <1>1, FirstIsReached DEF EnginesInv, ToldIsReached
<1>5. OnlyTheNamedOne
  BY <1>1 DEF OnlyTheNamedOne, Candidates
<1>. QED  BY <1>2, <1>3, <1>4, <1>5 DEF EnginesInv, BudgetOK, EnginesServe

\* However its engines end and whenever Stop is pressed, a question to the outside world is asked of
\* the engines that were named or promised and of no other, none is passed over in silence, the last
\* resort is asked before failure is told, and a picture keeps to its budget (transcribe.py,
\* voice.py, imagegen.py, web.py, news.py).
THEOREM QuestionsAreServed == EnginesSpec => []EnginesServe
<1>. QED  BY EnginesStart, EnginesStep, EnginesServeAsTold, PTL DEF EnginesSpec

-----------------------------------------------------------------------------
\* Requests to the web server (WebRequests)

\* A request that is not answered keeps its body; one that is had all of it taken that is ever taken.
CallOK(call) ==
  /\ call.step # "closed" => call.status = <<>>
  /\ call.kind \notin Posts => call.size = 0 /\ call.read = 0
  /\ call.target \subseteq stored
  /\ call.step = "opened" => \E f \in stored : call.target = {f}
  /\ call.step = "closed" =>
       /\ Len(call.status) = 1 \/ (call.target # {} /\ call.target \cap files = {})
       /\ call.read = call.size \/ call.size > LargestBody
  /\ call.served => call.from \in unlocked \cup {Local} /\ call.trusted

\* Devices that are tracked or about to be.
Guessers == DOMAIN lanFailures \cup {request[c].from : c \in Guessing}
GuessingFrom(d) == {c \in Guessing : request[c].from = d}

GuessesOK ==
  /\ IsFiniteSet(Guessing) /\ IsFiniteSet(DOMAIN lanFailures)
  /\ \A d \in Devices : Guesses(d) = wrong[d]
  /\ Cardinality(Guessers) < GuessersTracked + most
  /\ \A d \in Devices : wrong[d] + Cardinality(GuessingFrom(d)) < MostGuesses + most

\* A request that leaves a file is answered in the same step.
LeftOK == \A f \in stored : f.of \in Calls => request[f.of].step = "closed"

\* The inductive invariant.
RequestsInv ==
  /\ RequestsTypeOK /\ IsFiniteSet(stored)
  /\ \A c \in Calls : CallOK(request[c])
  /\ GuessesOK /\ LeftOK /\ ClipsAreTakenAway /\ TheNewestAreKept

LEMMA UnusedIs ==
  /\ Unused \in Call /\ Unused.step = "new" /\ Unused.from = Local /\ Unused.kind = "unknown" /\ ~Unused.trusted
  /\ Unused.size = 0 /\ Unused.read = 0 /\ Unused.status = <<>> /\ ~Unused.served /\ Unused.target = {}
<1>1. Local \in Devices /\ 0 \in 0..LargestBody /\ 0 \in 0..(LargestBody + 1)
  BY RequestsAssumption
<1>. QED  BY <1>1 DEF Unused, Call, Steps, Routes

LEMMA ClosedIs ==
  ASSUME NEW call \in Call, call.status = <<>>, NEW status \in Nat, NEW read \in 0..LargestBody,
         NEW r, r = Closed(call, status, read)
  PROVE  /\ r \in Call /\ r.step = "closed" /\ Len(r.status) = 1 /\ r.size = call.size /\ r.read = read
         /\ r.kind = "unknown" /\ ~r.served /\ r.target = {}
<1>1. Append(call.status, status) \in Seq(Nat) /\ Len(Append(call.status, status)) = 1
  BY DEF Call
<1>2. call.size \in 0..(LargestBody + 1)
  BY DEF Call
<1>. QED  BY <1>1, <1>2, UnusedIs DEF Closed, Call, Steps

\* All of the body is taken, or the most that ever is.
LEMMA SwallowedIs ==
  ASSUME NEW call \in Call, call.kind \notin Posts => call.size = 0 /\ call.read = 0
  PROVE  /\ Swallowed(call) \in 0..LargestBody
         /\ Swallowed(call) = call.size \/ call.size > LargestBody
<1>1. call.size \in 0..(LargestBody + 1) /\ call.read \in 0..LargestBody /\ LargestBody \in Nat
  BY RequestsAssumption DEF Call
<1>. QED  BY <1>1 DEF Swallowed, Least

LEMMA OneCallIs ==
  ASSUME RequestsTypeOK, NEW c \in Calls, NEW r \in Call, request' = [request EXCEPT ![c] = r]
  PROVE  /\ request' \in [Calls -> Call] /\ request'[c] = r
         /\ \A b \in Calls : b # c => request'[b] = request[b]
BY DEF RequestsTypeOK

LEMMA GuessesRest ==
  ASSUME RequestsInv, NEW c \in Calls, NEW r \in Call, request' = [request EXCEPT ![c] = r],
         request[c].step # "guessing", r.step # "guessing", LeaveGuesses
  PROVE  GuessesOK'
<1>1. /\ request'[c] = r /\ \A b \in Calls : b # c => request'[b] = request[b]
  BY OneCallIs DEF RequestsInv
<1>2. Guessing' = Guessing
  BY <1>1 DEF Guessing
<1>3. \A b \in Guessing : request'[b] = request[b]
  BY <1>1 DEF Guessing
<1>4. Guessers' = Guessers
  BY <1>2, <1>3 DEF Guessers, LeaveGuesses
<1>5. \A d \in Devices : GuessingFrom(d)' = GuessingFrom(d)
  BY <1>2, <1>3 DEF GuessingFrom
<1>6. \A d \in Devices : Guesses(d)' = Guesses(d)
  BY DEF Guesses, LeaveGuesses
<1>7. UNCHANGED <<lanFailures, wrong, most>>
  BY DEF LeaveGuesses
<1>. QED  BY <1>2, <1>4, <1>5, <1>6, <1>7 DEF RequestsInv, GuessesOK

\* A request moves on, and leaves nothing.
LEMMA MovesOn ==
  ASSUME RequestsInv, NEW c \in Calls, NEW r \in Call, request' = [request EXCEPT ![c] = r],
         request[c].step \notin {"guessing", "handled", "closed"}, r.step # "guessing",
         CallOK(r), LeaveGuesses, LeaveFiles
  PROVE  RequestsInv'
<1>1. /\ request' \in [Calls -> Call] /\ request'[c] = r
      /\ \A b \in Calls : b # c => request'[b] = request[b]
  BY OneCallIs DEF RequestsInv
<1>2. UNCHANGED <<lanFailures, wrong, most, unlocked, files, clips, clock, stored>>
  BY DEF LeaveGuesses, LeaveFiles
<1>3. RequestsTypeOK' /\ IsFiniteSet(stored')
  BY <1>1, <1>2 DEF RequestsInv, RequestsTypeOK
<1>4. \A b \in Calls : CallOK(request[b])'
  <2>. TAKE b \in Calls
  <2>1. CallOK(request'[b])
    BY <1>1 DEF RequestsInv
  <2>. QED  BY <1>2, <2>1 DEF CallOK
<1>5. GuessesOK'
  BY GuessesRest
<1>6. LeftOK'
  BY <1>1, <1>2 DEF RequestsInv, LeftOK
<1>7. ClipsAreTakenAway'
  BY <1>1, <1>2 DEF RequestsInv, ClipsAreTakenAway, RequestsTypeOK
<1>8. TheNewestAreKept'
  BY <1>2 DEF RequestsInv, TheNewestAreKept
<1>. QED  BY <1>3, <1>4, <1>5, <1>6, <1>7, <1>8 DEF RequestsInv

\* A request is answered, and leaves nothing.
LEMMA IsAnswered ==
  ASSUME RequestsInv, NEW c \in Calls, NEW status \in Nat, NEW read \in 0..LargestBody,
         request' = [request EXCEPT ![c] = Closed(request[c], status, read)],
         request[c].step \notin {"guessing", "handled", "closed"},
         read = request[c].size \/ request[c].size > LargestBody, LeaveGuesses, LeaveFiles
  PROVE  RequestsInv'
<1>1. request[c] \in Call /\ request[c].status = <<>>
  BY DEF RequestsInv, RequestsTypeOK, CallOK
<1> DEFINE r == Closed(request[c], status, read)
<1>2. /\ r \in Call /\ r.step = "closed" /\ Len(r.status) = 1 /\ r.size = request[c].size /\ r.read = read
      /\ r.kind = "unknown" /\ ~r.served /\ r.target = {}
  BY <1>1, ClosedIs
<1>3. request' = [request EXCEPT ![c] = r]
  OBVIOUS
<1> HIDE DEF r
<1>4. CallOK(r)
  BY <1>2 DEF CallOK, Posts, Routes
<1>. QED  BY <1>2, <1>3, <1>4, MovesOn

LEMMA RespondInv ==
  ASSUME RequestsInv, NEW c \in Calls, NEW status \in Nat, request' = Respond(c, status),
         request[c].step \notin {"guessing", "handled", "closed"}, LeaveGuesses, LeaveFiles
  PROVE  RequestsInv'
<1>1. request[c] \in Call /\ (request[c].kind \notin Posts => request[c].size = 0 /\ request[c].read = 0)
  BY DEF RequestsInv, RequestsTypeOK, CallOK
<1> DEFINE read == Swallowed(request[c])
<1>2. read \in 0..LargestBody /\ (read = request[c].size \/ request[c].size > LargestBody)
  BY <1>1, SwallowedIs
<1>3. request' = [request EXCEPT ![c] = Closed(request[c], status, read)]
  BY DEF Respond, RequestsInv, RequestsTypeOK
<1> HIDE DEF read
<1>. QED  BY <1>2, <1>3, IsAnswered

LEMMA ArriveInv ==
  ASSUME RequestsInv, NEW c \in Calls, NEW d \in Devices, NEW kind \in Routes, NEW size \in 0..(LargestBody + 1),
         NEW trusted \in BOOLEAN, NEW token \in BOOLEAN, NEW came \in BOOLEAN, NEW right \in BOOLEAN,
         Arrive(c, d, kind, trusted, token, size, came, right)
  PROVE  RequestsInv'
<1> DEFINE r == [Unused EXCEPT !.step = "known", !.from = d, !.kind = kind, !.trusted = trusted, !.token = token,
                               !.size = size, !.came = came, !.right = right]
<1>1. /\ r \in Call /\ r.step = "known" /\ r.kind = kind /\ r.size = size /\ r.read = 0
      /\ r.status = <<>> /\ ~r.served /\ r.target = {}
  BY UnusedIs DEF Call, Steps
<1>2. /\ request[c].step = "new" /\ (kind \notin Posts => size = 0)
      /\ request' = [request EXCEPT ![c] = r] /\ LeaveGuesses /\ LeaveFiles
  BY DEF Arrive
<1> HIDE DEF r
<1>3. CallOK(r)
  BY <1>1, <1>2 DEF CallOK
<1>. QED  BY <1>1, <1>2, <1>3, MovesOn

LEMMA TurnedAwayInv == ASSUME RequestsInv, NEW c \in Calls, TurnedAway(c) PROVE RequestsInv'
<1>1. \E status \in Nat : request' = Respond(c, status)
  BY DEF TurnedAway
<1>2. request[c].step = "known" /\ LeaveGuesses /\ LeaveFiles
  BY DEF TurnedAway
<1>. QED  BY <1>1, <1>2, RespondInv

LEMMA LetInInv == ASSUME RequestsInv, NEW c \in Calls, LetIn(c) PROVE RequestsInv'
<1> DEFINE r == [request[c] EXCEPT !.step = "admitted", !.served = TRUE]
<1>1. request[c] \in Call /\ CallOK(request[c])
  BY DEF RequestsInv, RequestsTypeOK
<1>2. /\ r \in Call /\ r.step = "admitted" /\ r.served /\ r.kind = request[c].kind /\ r.size = request[c].size
      /\ r.read = request[c].read /\ r.status = request[c].status /\ r.target = request[c].target
      /\ r.from = request[c].from /\ r.trusted = request[c].trusted
  BY <1>1 DEF Call, Steps
<1>3. /\ request[c].step = "known" /\ request' = [request EXCEPT ![c] = r] /\ LeaveGuesses /\ LeaveFiles
  BY DEF LetIn, RequestsInv, RequestsTypeOK
<1>4. request[c].trusted /\ request[c].from \in unlocked \cup {Local}
  BY DEF LetIn, Authorized
<1> HIDE DEF r
<1>5. CallOK(r)
  BY <1>1, <1>2, <1>3, <1>4 DEF CallOK
<1>. QED  BY <1>2, <1>3, <1>5, MovesOn

LEMMA PairRefusedInv == ASSUME RequestsInv, NEW c \in Calls, PairRefused(c) PROVE RequestsInv'
<1>1. request[c].step = "known" /\ request' = Respond(c, 429) /\ LeaveGuesses /\ LeaveFiles
  BY DEF PairRefused
<1>. QED  BY <1>1, RespondInv

LEMMA PairToldInv == ASSUME RequestsInv, NEW c \in Calls, PairTold(c) PROVE RequestsInv'
<1>1. request[c].step = "guessed" /\ request' = Respond(c, 403) /\ LeaveGuesses /\ LeaveFiles
  BY DEF PairTold
<1>. QED  BY <1>1, RespondInv

LEMMA BadBodyInv == ASSUME RequestsInv, NEW c \in Calls, BadBody(c) PROVE RequestsInv'
<1>1. request[c].step = "admitted" /\ LeaveGuesses /\ LeaveFiles
  BY DEF BadBody
<1>2. CASE request[c].size > LargestBody
  BY <1>1, <1>2, RespondInv DEF BadBody
<1>3. CASE ~(request[c].size > LargestBody)
  <2>1. PICK status \in Nat : request' = [request EXCEPT ![c] = Closed(request[c], status, request[c].size)]
    <3>1. 400 \in Nat /\ 500 \in Nat
      OBVIOUS
    <3>. QED  BY <1>3, <3>1 DEF BadBody, RequestsInv, RequestsTypeOK
  <2>2. request[c].size \in 0..LargestBody
    BY <1>3, RequestsAssumption DEF RequestsInv, RequestsTypeOK, Call
  <2>. QED  BY <1>1, <2>1, <2>2, IsAnswered
<1>. QED  BY <1>2, <1>3

LEMMA ReadIs ==
  ASSUME RequestsInv, NEW c \in Calls, NEW status \in Nat, Answered(c, status)
  PROVE  /\ request[c].step = "admitted" /\ LeaveGuesses /\ request[c].size \in 0..LargestBody
         /\ request' = [request EXCEPT ![c] = Closed(request[c], status, request[c].size)]
BY RequestsAssumption DEF Answered, Readable, RequestsInv, RequestsTypeOK, Call

LEMMA AnsweredInv ==
  ASSUME RequestsInv, NEW c \in Calls, NEW status \in Nat, Answered(c, status), LeaveFiles
  PROVE  RequestsInv'
BY ReadIs, IsAnswered

LEMMA ServeGetInv == ASSUME RequestsInv, NEW c \in Calls, NEW status \in Nat, ServeGet(c, status) PROVE RequestsInv'
<1>1. \E s \in Nat : request' = Respond(c, s)
  BY DEF ServeGet
<1>2. request[c].step = "admitted" /\ LeaveGuesses /\ LeaveFiles
  BY DEF ServeGet
<1>. QED  BY <1>1, <1>2, RespondInv

LEMMA OpenFileInv == ASSUME RequestsInv, NEW c \in Calls, OpenFile(c) PROVE RequestsInv'
<1>1. request[c].step = "admitted" /\ request[c].kind = "file" /\ LeaveGuesses /\ LeaveFiles
  BY DEF OpenFile
<1>2. CASE request' = Respond(c, 404)
  BY <1>1, <1>2, RespondInv
<1>3. CASE \E f \in files : f.kind # "upload" /\ request' = [request EXCEPT ![c].step = "opened", ![c].target = {f}]
  <2>1. PICK f \in files : request' = [request EXCEPT ![c].step = "opened", ![c].target = {f}]
    BY <1>3
  <2> DEFINE r == [request[c] EXCEPT !.step = "opened", !.target = {f}]
  <2>2. request[c] \in Call /\ CallOK(request[c]) /\ f \in stored /\ f \in File
    BY DEF RequestsInv, RequestsTypeOK
  <2>3. /\ r \in Call /\ r.step = "opened" /\ r.target = {f} /\ r.kind = request[c].kind /\ r.size = request[c].size
        /\ r.read = request[c].read /\ r.status = request[c].status /\ r.served = request[c].served
        /\ r.from = request[c].from /\ r.trusted = request[c].trusted
    BY <2>2 DEF Call, Steps
  <2>4. request' = [request EXCEPT ![c] = r]
    BY <2>1 DEF RequestsInv, RequestsTypeOK
  <2> HIDE DEF r
  <2>5. CallOK(r)
    BY <1>1, <2>2, <2>3 DEF CallOK
  <2>. QED  BY <1>1, <2>3, <2>4, <2>5, MovesOn
<1>. QED  BY <1>2, <1>3 DEF OpenFile

LEMMA SendFileInv == ASSUME RequestsInv, NEW c \in Calls, SendFile(c) PROVE RequestsInv'
<1>1. request[c].step = "opened" /\ LeaveGuesses /\ LeaveFiles
  BY DEF SendFile
<1>2. CASE request[c].target \subseteq files
  BY <1>1, <1>2, RespondInv DEF SendFile
<1>3. CASE ~(request[c].target \subseteq files)
  <2> DEFINE r == [Unused EXCEPT !.step = "closed", !.target = request[c].target]
  <2>1. request[c] \in Call /\ CallOK(request[c])
    BY DEF RequestsInv, RequestsTypeOK
  <2>2. request[c].target \in SUBSET File
    BY <2>1 DEF Call
  <2>3. /\ r \in Call /\ r.step = "closed" /\ r.target = request[c].target /\ r.kind = "unknown" /\ r.size = 0
        /\ r.read = 0 /\ ~r.served
    BY <2>2, UnusedIs DEF Call, Steps
  <2>4. request' = [request EXCEPT ![c] = r]
    BY <1>3 DEF SendFile
  <2> HIDE DEF r
  <2>5. request[c].target # {} /\ request[c].target \cap files = {} /\ request[c].target \subseteq stored
    BY <1>1, <1>3, <2>1 DEF CallOK
  <2>6. CallOK(r)
    BY <2>3, <2>5 DEF CallOK, Posts, Routes
  <2>. QED  BY <1>1, <2>3, <2>4, <2>6, MovesOn
<1>. QED  BY <1>2, <1>3

LEMMA StoresInv ==
  ASSUME RequestsInv, NEW c \in Calls, NEW status \in Nat, NEW kind \in {"generated", "upload", "recording"},
         Answered(c, status), Stores(c, kind)
  PROVE  RequestsInv'
<1> DEFINE f == [kind |-> kind, of |-> c, made |-> clock]
<1> DEFINE r == Closed(request[c], status, request[c].size)
<1>1. /\ f \in File /\ f.of = c
      /\ files' = files \cup {f} /\ stored' = stored \cup {f} /\ UNCHANGED <<unlocked, clips, clock>>
  BY DEF Stores, File, RequestsInv, RequestsTypeOK
<1>2. /\ request[c].step = "admitted" /\ LeaveGuesses /\ request[c].size \in 0..LargestBody
      /\ request' = [request EXCEPT ![c] = r]
  BY ReadIs
<1>3. request[c] \in Call /\ request[c].status = <<>>
  BY <1>2 DEF RequestsInv, RequestsTypeOK, CallOK
<1>4. /\ r \in Call /\ r.step = "closed" /\ Len(r.status) = 1 /\ r.size = request[c].size /\ r.read = request[c].size
      /\ r.kind = "unknown" /\ ~r.served /\ r.target = {}
  BY <1>2, <1>3, ClosedIs
<1> HIDE DEF f, r
<1>5. /\ request' \in [Calls -> Call] /\ request'[c] = r
      /\ \A b \in Calls : b # c => request'[b] = request[b]
  BY <1>2, <1>4, OneCallIs DEF RequestsInv
<1>6. RequestsTypeOK' /\ IsFiniteSet(stored')
  BY <1>1, <1>2, <1>5, FS_AddElement DEF RequestsInv, RequestsTypeOK, LeaveGuesses
<1>7. f \notin stored
  BY <1>1, <1>2 DEF RequestsInv, LeftOK
<1>8. CallOK(request[c])'
  BY <1>4, <1>5 DEF CallOK, Posts, Routes
<1>9. ASSUME NEW b \in Calls PROVE CallOK(request[b])'
  <2>1. b # c => CallOK(request[b]) /\ request'[b] = request[b]
    BY <1>5 DEF RequestsInv
  <2>2. b # c => CallOK(request[b])'
    BY <1>1, <1>7, <2>1 DEF CallOK
  <2>. QED  BY <1>8, <2>2
<1>10. GuessesOK'
  BY <1>2, <1>4, GuessesRest
<1>11. LeftOK'
  BY <1>1, <1>4, <1>5 DEF RequestsInv, LeftOK
<1>12. ClipsAreTakenAway'
  BY <1>1, <1>2, <1>5 DEF RequestsInv, ClipsAreTakenAway, RequestsTypeOK
<1>13. TheNewestAreKept'
  <2>. SUFFICES ASSUME NEW g \in stored \ files
                PROVE  /\ clock - g.made > MaxAge /\ g.kind # "recording"
                       /\ g.kind = "generated" =>
                            Cardinality({h \in stored' \ {g} : h.kind = "generated" /\ h.made >= g.made}) >= KeepNewest
    BY <1>1 DEF TheNewestAreKept
  <2> DEFINE K == {h \in stored \ {g} : h.kind = "generated" /\ h.made >= g.made}
  <2> DEFINE L == {h \in stored' \ {g} : h.kind = "generated" /\ h.made >= g.made}
  <2>1. /\ clock - g.made > MaxAge /\ g.kind # "recording"
        /\ g.kind = "generated" => Cardinality(K) >= KeepNewest
    BY DEF RequestsInv, TheNewestAreKept
  <2>2. IsFiniteSet(L) /\ K \in SUBSET L
    BY <1>1, <1>6, FS_Subset
  <2>3. Cardinality(K) <= Cardinality(L) /\ Cardinality(K) \in Nat /\ Cardinality(L) \in Nat /\ KeepNewest \in Nat
    BY <2>2, FS_Subset, FS_CardinalityType, RequestsAssumption
  <2> HIDE DEF K, L
  <2>4. g.kind = "generated" => Cardinality(L) >= KeepNewest
    BY <2>1, <2>3
  <2>. QED  BY <2>1, <2>4 DEF L
<1>. QED  BY <1>6, <1>9, <1>10, <1>11, <1>12, <1>13 DEF RequestsInv

LEMMA ClipWrittenInv == ASSUME RequestsInv, NEW c \in Calls, ClipWritten(c) PROVE RequestsInv'
<1> DEFINE r == [request[c] EXCEPT !.step = "handled", !.read = request[c].size]
<1>1. /\ request[c].step = "admitted" /\ request[c].kind = "clip" /\ request[c].size \in 0..LargestBody
      /\ request[c] \in Call /\ CallOK(request[c])
  BY RequestsAssumption DEF ClipWritten, Readable, RequestsInv, RequestsTypeOK, Call
<1>2. /\ r \in Call /\ r.step = "handled" /\ r.kind = "clip" /\ r.status = request[c].status
      /\ r.target = request[c].target /\ r.served = request[c].served /\ r.from = request[c].from
      /\ r.trusted = request[c].trusted
  BY <1>1 DEF Call, Steps
<1>3. /\ request' = [request EXCEPT ![c] = r] /\ clips' = clips \cup {c} /\ LeaveGuesses
      /\ UNCHANGED <<unlocked, files, clock, stored>>
  BY DEF ClipWritten, RequestsInv, RequestsTypeOK
<1> HIDE DEF r
<1>4. /\ request' \in [Calls -> Call] /\ request'[c] = r
      /\ \A b \in Calls : b # c => request'[b] = request[b]
  BY <1>2, <1>3, OneCallIs DEF RequestsInv
<1>5. CallOK(r)
  BY <1>1, <1>2 DEF CallOK, Posts, Routes
<1>6. \A b \in Calls : CallOK(request[b])'
  <2>. TAKE b \in Calls
  <2>1. CallOK(request'[b])
    BY <1>4, <1>5 DEF RequestsInv
  <2>. QED  BY <1>3, <2>1 DEF CallOK
<1>7. RequestsTypeOK' /\ IsFiniteSet(stored')
  BY <1>3, <1>4 DEF RequestsInv, RequestsTypeOK, LeaveGuesses
<1>8. GuessesOK'
  BY <1>1, <1>2, <1>3, GuessesRest
<1>9. LeftOK' /\ ClipsAreTakenAway'
  BY <1>1, <1>2, <1>3, <1>4 DEF RequestsInv, RequestsTypeOK, LeftOK, ClipsAreTakenAway
<1>10. TheNewestAreKept'
  BY <1>3 DEF RequestsInv, TheNewestAreKept
<1>. QED  BY <1>6, <1>7, <1>8, <1>9, <1>10 DEF RequestsInv

LEMMA ClipHeardInv == ASSUME RequestsInv, NEW c \in Calls, ClipHeard(c) PROVE RequestsInv'
<1>1. request[c].step = "handled" /\ request[c] \in Call /\ CallOK(request[c]) /\ request[c].status = <<>>
  BY DEF ClipHeard, RequestsInv, RequestsTypeOK, CallOK
<1> DEFINE read == Swallowed(request[c])
<1> DEFINE r == Closed(request[c], 200, read)
<1>2. read \in 0..LargestBody /\ (read = request[c].size \/ request[c].size > LargestBody)
  BY <1>1, SwallowedIs DEF CallOK
<1>3. /\ request' = [request EXCEPT ![c] = r] /\ clips' = clips \ {c} /\ LeaveGuesses
      /\ UNCHANGED <<unlocked, files, clock, stored>>
  BY DEF ClipHeard, Respond, RequestsInv, RequestsTypeOK
<1> HIDE DEF read
<1>4. /\ r \in Call /\ r.step = "closed" /\ Len(r.status) = 1 /\ r.size = request[c].size /\ r.read = read
      /\ r.kind = "unknown" /\ ~r.served /\ r.target = {}
  BY <1>1, <1>2, ClosedIs
<1> HIDE DEF r
<1>5. /\ request' \in [Calls -> Call] /\ request'[c] = r
      /\ \A b \in Calls : b # c => request'[b] = request[b]
  BY <1>3, <1>4, OneCallIs DEF RequestsInv
<1>6. CallOK(r)
  BY <1>2, <1>4 DEF CallOK, Posts, Routes
<1>7. \A b \in Calls : CallOK(request[b])'
  <2>. TAKE b \in Calls
  <2>1. CallOK(request'[b])
    BY <1>5, <1>6 DEF RequestsInv
  <2>. QED  BY <1>3, <2>1 DEF CallOK
<1>8. RequestsTypeOK' /\ IsFiniteSet(stored')
  BY <1>3, <1>5 DEF RequestsInv, RequestsTypeOK, LeaveGuesses
<1>9. GuessesOK'
  BY <1>1, <1>3, <1>4, GuessesRest
<1>10. LeftOK' /\ ClipsAreTakenAway'
  BY <1>1, <1>3, <1>4, <1>5 DEF RequestsInv, RequestsTypeOK, LeftOK, ClipsAreTakenAway
<1>11. TheNewestAreKept'
  BY <1>3 DEF RequestsInv, TheNewestAreKept
<1>. QED  BY <1>7, <1>8, <1>9, <1>10, <1>11 DEF RequestsInv

LEMMA TickInv == RequestsInv /\ Tick => RequestsInv'
<1>. SUFFICES ASSUME RequestsInv, Tick PROVE RequestsInv'
  OBVIOUS
<1>1. clock' = clock + 1 /\ clock < MaxClock
      /\ UNCHANGED <<request, lanFailures, unlocked, files, clips, stored, wrong, most>>
  BY DEF Tick, LeaveGuesses
<1>2. clock \in 0..MaxClock /\ MaxClock \in Nat /\ MaxAge \in Nat
  BY RequestsAssumption DEF RequestsInv, RequestsTypeOK
<1>3. RequestsTypeOK' /\ IsFiniteSet(stored')
  BY <1>1, <1>2 DEF RequestsInv, RequestsTypeOK
<1>4. \A b \in Calls : CallOK(request[b])'
  BY <1>1 DEF RequestsInv, CallOK
<1>5. GuessesOK'
  BY <1>1 DEF RequestsInv, GuessesOK, Guessing, Guessers, GuessingFrom, Guesses
<1>6. LeftOK' /\ ClipsAreTakenAway'
  BY <1>1 DEF RequestsInv, LeftOK, ClipsAreTakenAway
<1>7. \A f \in stored : f.made \in Nat
  BY DEF RequestsInv, RequestsTypeOK, File
<1>8. TheNewestAreKept'
  <2>. SUFFICES ASSUME NEW f \in stored \ files
                PROVE  /\ clock' - f.made > MaxAge /\ f.kind # "recording"
                       /\ f.kind = "generated" =>
                            Cardinality({g \in stored \ {f} : g.kind = "generated" /\ g.made >= f.made}) >= KeepNewest
    BY <1>1 DEF TheNewestAreKept
  <2>1. /\ clock - f.made > MaxAge /\ f.kind # "recording"
        /\ f.kind = "generated" =>
             Cardinality({g \in stored \ {f} : g.kind = "generated" /\ g.made >= f.made}) >= KeepNewest
    BY DEF RequestsInv, TheNewestAreKept
  <2>2. clock' - f.made > MaxAge
    BY <1>1, <1>2, <1>7, <2>1
  <2>. QED  BY <2>1, <2>2
<1>. QED  BY <1>3, <1>4, <1>5, <1>6, <1>8 DEF RequestsInv

\* What the sweep takes is old, and the newest that outrank it stay.
LEMMA SweptIsOld ==
  ASSUME RequestsInv, NEW kept, Newest(kept), NEW f \in Swept(kept)
  PROVE  /\ f \in files /\ clock - f.made > MaxAge /\ f.kind # "recording"
         /\ f.kind = "generated" =>
              Cardinality({g \in stored \ {f} : g.kind = "generated" /\ g.made >= f.made}) >= KeepNewest
<1>1. IsFiniteSet(stored) /\ files \subseteq stored /\ KeepNewest \in Nat
  BY RequestsAssumption DEF RequestsInv, RequestsTypeOK
<1>2. f \in files /\ clock - f.made > MaxAge /\ f.kind # "recording"
  BY DEF Swept, Old, Generated
<1>3. ASSUME f.kind = "generated"
      PROVE  Cardinality({g \in stored \ {f} : g.kind = "generated" /\ g.made >= f.made}) >= KeepNewest
  <2> DEFINE K == {g \in stored \ {f} : g.kind = "generated" /\ g.made >= f.made}
  <2>1. f \in Generated \ kept /\ kept \subseteq Generated /\ Generated \subseteq stored
        /\ \A g \in kept : g.made >= f.made
    BY <1>1, <1>3 DEF Swept, Newest, Generated
  <2>2. IsFiniteSet(Generated) /\ kept # Generated /\ kept \in SUBSET Generated
    BY <1>1, <2>1, FS_Subset
  <2>3. /\ Cardinality(kept) \in Nat /\ Cardinality(Generated) \in Nat
        /\ Cardinality(kept) <= Cardinality(Generated) /\ Cardinality(kept) # Cardinality(Generated)
    BY <2>2, FS_Subset, FS_CardinalityType
  <2>4. Cardinality(kept) = Least(KeepNewest, Cardinality(Generated))
    BY DEF Newest
  <2>5. Cardinality(kept) = KeepNewest
    BY <1>1, <2>3, <2>4 DEF Least
  <2>6. kept \in SUBSET K /\ IsFiniteSet(K)
    BY <1>1, <2>1, FS_Subset DEF Generated
  <2>7. Cardinality(kept) <= Cardinality(K) /\ Cardinality(K) \in Nat
    BY <2>6, FS_Subset, FS_CardinalityType
  <2> HIDE DEF K
  <2>8. Cardinality(K) >= KeepNewest
    BY <1>1, <2>5, <2>7
  <2>. QED  BY <2>8 DEF K
<1>. QED  BY <1>2, <1>3

LEMMA HousekeepingInv == RequestsInv /\ Housekeeping => RequestsInv'
<1>. SUFFICES ASSUME RequestsInv, Housekeeping PROVE RequestsInv'
  OBVIOUS
<1>1. PICK kept \in SUBSET files : Newest(kept) /\ files' = files \ Swept(kept)
  BY DEF Housekeeping
<1>2. UNCHANGED <<request, lanFailures, unlocked, clips, clock, stored, wrong, most>>
  BY DEF Housekeeping, LeaveGuesses
<1>3. files' \subseteq files
  BY <1>1
<1>4. RequestsTypeOK' /\ IsFiniteSet(stored')
  BY <1>2, <1>3 DEF RequestsInv, RequestsTypeOK
<1>5. \A b \in Calls : CallOK(request[b])'
  BY <1>2, <1>3 DEF RequestsInv, CallOK
<1>6. GuessesOK'
  BY <1>2 DEF RequestsInv, GuessesOK, Guessing, Guessers, GuessingFrom, Guesses
<1>7. LeftOK' /\ ClipsAreTakenAway'
  BY <1>2 DEF RequestsInv, LeftOK, ClipsAreTakenAway
<1>8. TheNewestAreKept'
  <2>. SUFFICES ASSUME NEW f \in stored, f \notin files'
                PROVE  /\ clock - f.made > MaxAge /\ f.kind # "recording"
                       /\ f.kind = "generated" =>
                            Cardinality({g \in stored \ {f} : g.kind = "generated" /\ g.made >= f.made}) >= KeepNewest
    BY <1>2 DEF TheNewestAreKept
  <2>1. CASE f \in files
    BY <1>1, <2>1, SweptIsOld
  <2>2. CASE f \notin files
    BY <2>2 DEF RequestsInv, TheNewestAreKept
  <2>. QED  BY <2>1, <2>2
<1>. QED  BY <1>4, <1>5, <1>6, <1>7, <1>8 DEF RequestsInv

LEMMA PairReadInv == ASSUME RequestsInv, NEW c \in Calls, PairRead(c) PROVE RequestsInv'
<1> DEFINE d == request[c].from
<1> DEFINE r == [request[c] EXCEPT !.step = "guessing", !.read = Least(request[c].size, SmallBody)]
<1>1. /\ request[c].step = "known" /\ request[c].kind = "pair" /\ request[c] \in Call /\ CallOK(request[c])
      /\ ~Crowded(d) /\ Guesses(d) < MostGuesses /\ d \in Devices
  BY DEF PairRead, RequestsInv, RequestsTypeOK, Call
<1>2. Least(request[c].size, SmallBody) \in 0..LargestBody
  BY <1>1, RequestsAssumption DEF Least, Call
<1>3. /\ r \in Call /\ r.step = "guessing" /\ r.kind = "pair" /\ r.status = request[c].status
      /\ r.target = request[c].target /\ r.served = request[c].served /\ r.from = d
      /\ r.trusted = request[c].trusted
  BY <1>1, <1>2 DEF Call, Steps
<1>4. /\ request' = [request EXCEPT ![c] = r] /\ UNCHANGED <<lanFailures, wrong, unlocked, files, clips, clock, stored>>
      /\ most' = IF Cardinality(Guessing) < most THEN most ELSE Cardinality(Guessing) + 1
  BY DEF PairRead, LeaveFiles, RequestsInv, RequestsTypeOK
<1> HIDE DEF r
<1>5. /\ request' \in [Calls -> Call] /\ request'[c] = r
      /\ \A b \in Calls : b # c => request'[b] = request[b]
  BY <1>3, <1>4, OneCallIs DEF RequestsInv
<1>6. CallOK(r)
  BY <1>1, <1>3 DEF CallOK, Posts, Routes
<1>7. \A b \in Calls : CallOK(request[b])'
  <2>. TAKE b \in Calls
  <2>1. CallOK(request'[b])
    BY <1>5, <1>6 DEF RequestsInv
  <2>. QED  BY <1>4, <2>1 DEF CallOK
<1>8. /\ Guessing' = Guessing \cup {c} /\ c \notin Guessing
      /\ \A b \in Guessing : request'[b].from = request[b].from
  BY <1>1, <1>3, <1>5 DEF Guessing
<1>9. /\ IsFiniteSet(Guessing) /\ IsFiniteSet(DOMAIN lanFailures) /\ most \in Nat
      /\ \A e \in Devices : Guesses(e) = wrong[e] /\ wrong[e] \in Nat
      /\ Cardinality(Guessers) < GuessersTracked + most
      /\ \A e \in Devices : wrong[e] + Cardinality(GuessingFrom(e)) < MostGuesses + most
  BY DEF RequestsInv, GuessesOK, RequestsTypeOK
<1>10. /\ IsFiniteSet(Guessing') /\ Cardinality(Guessing') = Cardinality(Guessing) + 1
       /\ Cardinality(Guessing) \in Nat
  BY <1>8, <1>9, FS_AddElement, FS_CardinalityType
<1>11. most' \in Nat /\ most' >= most /\ Cardinality(Guessing') <= most' /\ Cardinality(Guessing') \in Nat
  BY <1>4, <1>9, <1>10
<1>12. RequestsTypeOK' /\ IsFiniteSet(stored')
  BY <1>4, <1>5, <1>11 DEF RequestsInv, RequestsTypeOK
<1>13. \A e \in Devices : Guesses(e)' = Guesses(e)
  BY <1>4 DEF Guesses
<1>14. MostGuesses \in Nat /\ GuessersTracked \in Nat
  BY RequestsAssumption
<1>15. ASSUME NEW e \in Devices PROVE wrong[e] + Cardinality(GuessingFrom(e)') < MostGuesses + most'
  <2>1. CASE e = d
    <3>1. GuessingFrom(e)' \in SUBSET Guessing'
      BY DEF GuessingFrom
    <3>2. Cardinality(GuessingFrom(e)') <= Cardinality(Guessing') /\ Cardinality(GuessingFrom(e)') \in Nat
      BY <1>10, <3>1, FS_Subset, FS_CardinalityType
    <3>3. wrong[e] < MostGuesses
      BY <1>1, <1>9, <2>1
    <3>. QED  BY <1>9, <1>11, <1>14, <3>2, <3>3
  <2>2. CASE e # d
    <3>1. GuessingFrom(e)' = GuessingFrom(e)
      BY <1>3, <1>5, <1>8, <2>2 DEF GuessingFrom
    <3>2. GuessingFrom(e) \in SUBSET Guessing
      BY DEF GuessingFrom
    <3>3. Cardinality(GuessingFrom(e)) \in Nat
      BY <1>9, <3>2, FS_Subset, FS_CardinalityType
    <3>4. wrong[e] + Cardinality(GuessingFrom(e)) < MostGuesses + most
      BY <1>9
    <3>. QED  BY <1>9, <1>11, <1>14, <3>1, <3>3, <3>4
  <2>. QED  BY <2>1, <2>2
<1>16. Cardinality(Guessers') < GuessersTracked + most'
  <2> DEFINE D == DOMAIN lanFailures
  <2> DEFINE F == {request'[b].from : b \in Guessing'}
  <2>1. Guessers' = D \cup F
    BY <1>4 DEF Guessers
  <2>2. IsFiniteSet(F) /\ Cardinality(F) <= Cardinality(Guessing')
    <3> DEFINE from == [b \in Guessing' |-> request'[b].from]
    <3>1. from \in Surjection(Guessing', F)
      BY DEF Surjection
    <3>. QED  BY <1>10, <3>1, FS_Surjection
  <2>3. CASE d \in D
    <3>1. D \cup F = Guessers
      BY <1>3, <1>5, <1>8, <2>3 DEF Guessers
    <3>2. IsFiniteSet(D \cup F)
      BY <1>9, <2>2, FS_Union
    <3>3. Cardinality(D \cup F) \in Nat
      BY <3>2, FS_CardinalityType
    <3>4. Guessers' = Guessers
      BY <2>1, <3>1
    <3>5. Cardinality(Guessers) \in Nat
      BY <3>1, <3>3
    <3> HIDE DEF D, F
    <3>. QED  BY <1>9, <1>11, <1>14, <3>4, <3>5
  <2>4. CASE d \notin D
    <3>1. ~(Cardinality(D) >= GuessersTracked)
      BY <1>1, <2>4 DEF Crowded
    <3>2. Cardinality(D \cup F) = Cardinality(D) + Cardinality(F) - Cardinality(D \cap F)
      BY <1>9, <2>2, FS_Union
    <3>3. IsFiniteSet(D \cap F)
      <4>1. D \cap F \in SUBSET D
        OBVIOUS
      <4>. QED  BY <1>9, <4>1, FS_Subset
    <3>4. Cardinality(D) \in Nat /\ Cardinality(F) \in Nat /\ Cardinality(D \cap F) \in Nat
      BY <1>9, <2>2, <3>3, FS_CardinalityType
    <3> HIDE DEF D, F
    <3>. QED  BY <1>11, <1>14, <2>1, <2>2, <3>1, <3>2, <3>4
  <2>. QED  BY <2>3, <2>4
<1>17. GuessesOK'
  BY <1>4, <1>9, <1>10, <1>13, <1>15, <1>16 DEF GuessesOK
<1>18. LeftOK' /\ ClipsAreTakenAway'
  BY <1>1, <1>3, <1>4, <1>5 DEF RequestsInv, RequestsTypeOK, LeftOK, ClipsAreTakenAway
<1>19. TheNewestAreKept'
  BY <1>4 DEF RequestsInv, TheNewestAreKept
<1>. QED  BY <1>7, <1>12, <1>17, <1>18, <1>19 DEF RequestsInv

\* A guess is counted: its request guesses no longer.
LEMMA GuessIsCounted ==
  ASSUME RequestsInv, NEW c \in Guessing, NEW r \in Call, request' = [request EXCEPT ![c] = r], r.step # "guessing",
         most' = most, NEW d, d = request[c].from,
         DOMAIN lanFailures' \subseteq DOMAIN lanFailures \cup {d},
         \A e \in Devices : Guesses(e)' = wrong'[e],
         wrong' \in [Devices -> Nat], wrong'[d] <= wrong[d] + 1,
         \A e \in Devices : e # d => wrong'[e] = wrong[e]
  PROVE  GuessesOK'
<1>1. c \in Calls /\ request[c] \in Call /\ d \in Devices
  BY DEF Guessing, RequestsInv, RequestsTypeOK, Call
<1>2. /\ request'[c] = r /\ \A b \in Calls : b # c => request'[b] = request[b]
  BY <1>1, OneCallIs DEF RequestsInv
<1>3. /\ Guessing' = Guessing \ {c} /\ \A b \in Guessing' : request'[b].from = request[b].from
  BY <1>1, <1>2 DEF Guessing
<1>4. /\ IsFiniteSet(Guessing) /\ IsFiniteSet(DOMAIN lanFailures) /\ most \in Nat
      /\ \A e \in Devices : wrong[e] \in Nat
      /\ Cardinality(Guessers) < GuessersTracked + most
      /\ \A e \in Devices : wrong[e] + Cardinality(GuessingFrom(e)) < MostGuesses + most
      /\ MostGuesses \in Nat /\ GuessersTracked \in Nat
  BY RequestsAssumption DEF RequestsInv, GuessesOK, RequestsTypeOK
<1>5. IsFiniteSet(Guessing') /\ IsFiniteSet(DOMAIN lanFailures \cup {d}) /\ IsFiniteSet(DOMAIN lanFailures')
  BY <1>3, <1>4, FS_RemoveElement, FS_AddElement, FS_Subset
<1>6. Cardinality(Guessers') <= Cardinality(Guessers) /\ Cardinality(Guessers') \in Nat /\ Cardinality(Guessers) \in Nat
  <2> DEFINE F == {request[b].from : b \in Guessing}
  <2>1. IsFiniteSet(F)
    <3> DEFINE from == [b \in Guessing |-> request[b].from]
    <3>1. from \in Surjection(Guessing, F)
      BY DEF Surjection
    <3>. QED  BY <1>4, <3>1, FS_Surjection
  <2>2. Guessers = DOMAIN lanFailures \cup F
    BY DEF Guessers
  <2>3. IsFiniteSet(Guessers)
    BY <1>4, <2>1, <2>2, FS_Union
  <2>4. Guessers' \in SUBSET Guessers
    BY <1>3 DEF Guessers
  <2>. QED  BY <2>3, <2>4, FS_Subset, FS_CardinalityType
<1>7. ASSUME NEW e \in Devices PROVE wrong'[e] + Cardinality(GuessingFrom(e)') < MostGuesses + most'
  <2>1. GuessingFrom(e) \in SUBSET Guessing
    BY DEF GuessingFrom
  <2>2. IsFiniteSet(GuessingFrom(e)) /\ Cardinality(GuessingFrom(e)) \in Nat
    BY <1>4, <2>1, FS_Subset, FS_CardinalityType
  <2>3. wrong[e] + Cardinality(GuessingFrom(e)) < MostGuesses + most
    BY <1>4
  <2>4. CASE e = d
    <3>1. GuessingFrom(e)' = GuessingFrom(e) \ {c} /\ c \in GuessingFrom(e)
      BY <1>3, <2>4 DEF GuessingFrom
    <3>2. Cardinality(GuessingFrom(e)') = Cardinality(GuessingFrom(e)) - 1
      BY <2>2, <3>1, FS_RemoveElement
    <3>3. wrong[e] \in Nat /\ wrong'[e] \in Nat /\ wrong'[e] <= wrong[e] + 1
      BY <1>1, <1>4, <2>4
    <3>. QED  BY <1>4, <2>2, <2>3, <3>2, <3>3
  <2>5. CASE e # d
    <3>1. GuessingFrom(e)' = GuessingFrom(e)
      BY <1>3, <2>5 DEF GuessingFrom
    <3>2. wrong'[e] = wrong[e]
      BY <2>5
    <3>. QED  BY <2>3, <3>1, <3>2
  <2>. QED  BY <2>4, <2>5
<1>8. Cardinality(Guessers') < GuessersTracked + most'
  BY <1>4, <1>6
<1>. QED  BY <1>5, <1>7, <1>8 DEF GuessesOK

\* What the other invariants keep when a guess is counted.
LEMMA GuessEnds ==
  ASSUME RequestsInv, NEW c \in Guessing, NEW r \in Call, request' = [request EXCEPT ![c] = r],
         r.step \notin {"guessing", "handled"}, CallOK(r),
         unlocked \subseteq unlocked', unlocked' \subseteq Devices, UNCHANGED <<files, clips, clock, stored>>
  PROVE  /\ request' \in [Calls -> Call] /\ \A b \in Calls : CallOK(request[b])'
         /\ LeftOK' /\ ClipsAreTakenAway' /\ TheNewestAreKept'
<1>1. c \in Calls /\ request[c].step = "guessing"
  BY DEF Guessing
<1>2. /\ request' \in [Calls -> Call] /\ request'[c] = r
      /\ \A b \in Calls : b # c => request'[b] = request[b]
  BY <1>1, OneCallIs DEF RequestsInv
<1>3. \A b \in Calls : CallOK(request[b])'
  <2>. TAKE b \in Calls
  <2>1. CallOK(request'[b])
    BY <1>2 DEF RequestsInv
  <2>. QED  BY <2>1 DEF CallOK
<1>4. LeftOK' /\ ClipsAreTakenAway'
  BY <1>1, <1>2 DEF RequestsInv, RequestsTypeOK, LeftOK, ClipsAreTakenAway
<1>5. TheNewestAreKept'
  BY DEF RequestsInv, TheNewestAreKept
<1>. QED  BY <1>2, <1>3, <1>4, <1>5

LEMMA PairWrongInv == ASSUME RequestsInv, NEW c \in Calls, PairWrong(c) PROVE RequestsInv'
<1> DEFINE d == request[c].from
<1> DEFINE r == [request[c] EXCEPT !.step = "guessed"]
<1>1. c \in Guessing /\ request[c] \in Call /\ CallOK(request[c]) /\ request[c].step = "guessing" /\ d \in Devices
  BY DEF PairWrong, Guessing, RequestsInv, RequestsTypeOK, Call
<1>2. /\ r \in Call /\ r.step = "guessed" /\ r.kind = request[c].kind /\ r.status = request[c].status
      /\ r.target = request[c].target /\ r.served = request[c].served /\ r.from = d
      /\ r.trusted = request[c].trusted /\ r.size = request[c].size /\ r.read = request[c].read
  BY <1>1 DEF Call, Steps
<1>3. /\ request' = [request EXCEPT ![c] = r] /\ UNCHANGED <<most, unlocked, files, clips, clock, stored>>
      /\ lanFailures' = [e \in DOMAIN lanFailures \cup {d} |-> IF e = d THEN Guesses(e) + 1 ELSE lanFailures[e]]
      /\ wrong' = [wrong EXCEPT ![d] = @ + 1]
  BY DEF PairWrong, LeaveFiles, RequestsInv, RequestsTypeOK
<1> HIDE DEF r
<1>4. CallOK(r)
  BY <1>1, <1>2 DEF CallOK
<1>5. unlocked \subseteq unlocked' /\ unlocked' \subseteq Devices
  BY <1>3 DEF RequestsInv, RequestsTypeOK
<1>6. /\ request' \in [Calls -> Call] /\ \A b \in Calls : CallOK(request[b])'
      /\ LeftOK' /\ ClipsAreTakenAway' /\ TheNewestAreKept'
  BY <1>1, <1>2, <1>3, <1>4, <1>5, GuessEnds
<1>7. /\ wrong \in [Devices -> Nat] /\ \A e \in Devices : Guesses(e) = wrong[e]
      /\ DOMAIN lanFailures \subseteq Devices /\ \A e \in DOMAIN lanFailures : lanFailures[e] \in Nat
  BY DEF RequestsInv, RequestsTypeOK, GuessesOK
<1>8. /\ wrong' \in [Devices -> Nat] /\ wrong'[d] = wrong[d] + 1 /\ wrong[d] \in Nat
      /\ \A e \in Devices : e # d => wrong'[e] = wrong[e]
  BY <1>1, <1>3, <1>7
<1>9. /\ DOMAIN lanFailures' = DOMAIN lanFailures \cup {d} /\ lanFailures'[d] = wrong[d] + 1
      /\ \A e \in DOMAIN lanFailures : e # d => lanFailures'[e] = lanFailures[e]
  BY <1>1, <1>3, <1>7
<1>10. \A e \in Devices : Guesses(e)' = wrong'[e]
  BY <1>1, <1>7, <1>8, <1>9 DEF Guesses
<1> HIDE DEF d
<1>11. wrong'[d] <= wrong[d] + 1
  BY <1>8
<1>12. r.step # "guessing" /\ DOMAIN lanFailures' \subseteq DOMAIN lanFailures \cup {d}
       /\ request' = [request EXCEPT ![c] = r] /\ most' = most /\ wrong' \in [Devices -> Nat]
  BY <1>2, <1>3, <1>8, <1>9
<1>13. GuessesOK'
  BY <1>1, <1>2, <1>8, <1>10, <1>11, <1>12, GuessIsCounted DEF d
<1>14. RequestsTypeOK' /\ IsFiniteSet(stored')
  BY <1>1, <1>3, <1>6, <1>7, <1>8, <1>9 DEF RequestsInv, RequestsTypeOK
<1>. QED  BY <1>6, <1>13, <1>14 DEF RequestsInv

LEMMA PairRightInv == ASSUME RequestsInv, NEW c \in Calls, PairRight(c) PROVE RequestsInv'
<1> DEFINE d == request[c].from
<1> DEFINE r == Closed(request[c], 200, request[c].read)
<1>1. /\ c \in Guessing /\ request[c] \in Call /\ CallOK(request[c]) /\ request[c].status = <<>> /\ d \in Devices
      /\ request[c].read \in 0..LargestBody /\ request[c].size = request[c].read
  BY DEF PairRight, Guessing, RequestsInv, RequestsTypeOK, Call, CallOK
<1>2. /\ r \in Call /\ r.step = "closed" /\ Len(r.status) = 1 /\ r.size = request[c].size
      /\ r.read = request[c].read /\ r.kind = "unknown" /\ ~r.served /\ r.target = {}
  BY <1>1, ClosedIs
<1>3. /\ request' = [request EXCEPT ![c] = r] /\ unlocked' = unlocked \cup {d}
      /\ UNCHANGED <<most, files, clips, clock, stored>>
      /\ lanFailures' = [e \in DOMAIN lanFailures \ {d} |-> lanFailures[e]]
      /\ wrong' = [wrong EXCEPT ![d] = 0]
  BY DEF PairRight, RequestsInv, RequestsTypeOK
<1> HIDE DEF r
<1>4. CallOK(r)
  BY <1>1, <1>2 DEF CallOK, Posts, Routes
<1>5. unlocked \subseteq unlocked' /\ unlocked' \subseteq Devices
  BY <1>1, <1>3 DEF RequestsInv, RequestsTypeOK
<1>6. /\ request' \in [Calls -> Call] /\ \A b \in Calls : CallOK(request[b])'
      /\ LeftOK' /\ ClipsAreTakenAway' /\ TheNewestAreKept'
  BY <1>1, <1>2, <1>3, <1>4, <1>5, GuessEnds
<1>7. /\ wrong \in [Devices -> Nat] /\ \A e \in Devices : Guesses(e) = wrong[e]
      /\ DOMAIN lanFailures \subseteq Devices /\ \A e \in DOMAIN lanFailures : lanFailures[e] \in Nat
  BY DEF RequestsInv, RequestsTypeOK, GuessesOK
<1>8. /\ wrong' \in [Devices -> Nat] /\ wrong'[d] = 0 /\ wrong[d] \in Nat
      /\ \A e \in Devices : e # d => wrong'[e] = wrong[e]
  BY <1>1, <1>3, <1>7
<1>9. /\ DOMAIN lanFailures' = DOMAIN lanFailures \ {d}
      /\ \A e \in DOMAIN lanFailures : e # d => lanFailures'[e] = lanFailures[e]
  BY <1>3
<1>10. \A e \in Devices : Guesses(e)' = wrong'[e]
  BY <1>1, <1>7, <1>8, <1>9 DEF Guesses
<1> HIDE DEF d
<1>11. wrong'[d] <= wrong[d] + 1
  BY <1>8
<1>12. r.step # "guessing"
  BY <1>2
<1>13. GuessesOK'
  BY <1>1, <1>2, <1>3, <1>8, <1>9, <1>10, <1>11, <1>12, GuessIsCounted DEF d
<1>14. RequestsTypeOK' /\ IsFiniteSet(stored')
  BY <1>1, <1>3, <1>5, <1>6, <1>7, <1>8, <1>9 DEF RequestsInv, RequestsTypeOK
<1>. QED  BY <1>6, <1>13, <1>14 DEF RequestsInv

LEMMA RequestsStart == RequestsInit => RequestsInv
<1>. SUFFICES ASSUME RequestsInit PROVE RequestsInv
  OBVIOUS
<1>1. /\ request = [c \in Calls |-> Unused] /\ lanFailures = <<>> /\ unlocked = {} /\ files = {Leftover}
      /\ stored = {Leftover} /\ clips = {} /\ clock = 0 /\ wrong = [d \in Devices |-> 0] /\ most = 0
  BY DEF RequestsInit
<1>2. Leftover \in File /\ Leftover.of \notin Calls
  BY RequestsAssumption DEF Leftover, File
<1>3. RequestsTypeOK
  BY <1>1, <1>2, UnusedIs, RequestsAssumption DEF RequestsTypeOK
<1>4. IsFiniteSet(stored)
  BY <1>1, FS_Singleton
<1>5. \A c \in Calls : CallOK(request[c])
  BY <1>1, UnusedIs DEF CallOK, Posts, Routes
<1>6. Guessing = {} /\ Guessers = {} /\ \A d \in Devices : GuessingFrom(d) = {}
  BY <1>1, UnusedIs DEF Guessing, Guessers, GuessingFrom
<1>7. \A d \in Devices : Guesses(d) = 0 /\ wrong[d] = 0
  BY <1>1 DEF Guesses
<1>8. GuessesOK
  BY <1>1, <1>6, <1>7, FS_EmptySet, RequestsAssumption DEF GuessesOK
<1>9. LeftOK /\ ClipsAreTakenAway /\ TheNewestAreKept
  BY <1>1, <1>2 DEF LeftOK, ClipsAreTakenAway, TheNewestAreKept
<1>. QED  BY <1>3, <1>4, <1>5, <1>8, <1>9 DEF RequestsInv

LEMMA RequestsStep == RequestsInv /\ [RequestsNext]_requestvars => RequestsInv'
<1>. SUFFICES ASSUME RequestsInv, [RequestsNext]_requestvars PROVE RequestsInv'
  OBVIOUS
<1>1. CASE UNCHANGED requestvars
  <2>1. UNCHANGED <<request, lanFailures, unlocked, files, clips, clock, stored, wrong, most>>
    BY <1>1 DEF requestvars
  <2>2. RequestsTypeOK' /\ LeftOK' /\ ClipsAreTakenAway' /\ TheNewestAreKept' /\ IsFiniteSet(stored')
    BY <2>1 DEF RequestsInv, RequestsTypeOK, LeftOK, ClipsAreTakenAway, TheNewestAreKept
  <2>3. GuessesOK'
    BY <2>1 DEF RequestsInv, GuessesOK, Guessing, Guessers, GuessingFrom, Guesses
  <2>4. \A b \in Calls : CallOK(request[b])'
    BY <2>1 DEF RequestsInv, CallOK
  <2>. QED  BY <2>2, <2>3, <2>4 DEF RequestsInv
<1>2. ASSUME NEW c \in Calls, PanelActs(c) \/ PanelLooksUp(c) \/ PanelSpeaks(c) \/ Upload(c) \/ SaveRecording(c)
      PROVE  RequestsInv'
  <2>1. \E status \in Nat : Answered(c, status) /\ (LeaveFiles \/ \E k \in {"generated", "upload", "recording"} : Stores(c, k))
    BY <1>2 DEF PanelActs, PanelLooksUp, PanelSpeaks, Upload, SaveRecording
  <2>. QED  BY <2>1, AnsweredInv, StoresInv
<1>3. ASSUME NEW c \in Calls, \E status \in {200, 304, 404} : ServeGet(c, status) PROVE RequestsInv'
  BY <1>3, ServeGetInv
<1>. QED
  BY <1>1, <1>2, <1>3, ArriveInv, TurnedAwayInv, LetInInv, PairRefusedInv, PairReadInv, PairWrongInv, PairToldInv,
     PairRightInv, BadBodyInv, ClipWrittenInv, ClipHeardInv, OpenFileInv, SendFileInv, TickInv, HousekeepingInv
     DEF RequestsNext

LEMMA RequestsAreInOrder == RequestsInv => RequestsAreAnswered
<1>. SUFFICES ASSUME RequestsInv PROVE RequestsAreAnswered
  OBVIOUS
<1>1. AnswersArrive
  BY DEF RequestsInv, CallOK, AnswersArrive
<1>2. NobodyIsServedUnpaired
  BY DEF RequestsInv, CallOK, NobodyIsServedUnpaired
<1>3. GuessersTracked \in Nat /\ MostGuesses \in Nat /\ most \in Nat /\ \A d \in Devices : wrong[d] \in Nat
  BY RequestsAssumption DEF RequestsInv, RequestsTypeOK
<1>4. Cardinality(DOMAIN lanFailures) < GuessersTracked + most
  <2>1. IsFiniteSet(Guessers)
    <3> DEFINE F == {request[c].from : c \in Guessing}
    <3> DEFINE from == [c \in Guessing |-> request[c].from]
    <3>1. from \in Surjection(Guessing, F)
      BY DEF Surjection
    <3>2. IsFiniteSet(F)
      BY <3>1, FS_Surjection DEF RequestsInv, GuessesOK
    <3>. QED  BY <3>2, FS_Union DEF RequestsInv, GuessesOK, Guessers
  <2>2. DOMAIN lanFailures \in SUBSET Guessers
    BY DEF Guessers
  <2>3. /\ Cardinality(DOMAIN lanFailures) <= Cardinality(Guessers) /\ Cardinality(Guessers) \in Nat
        /\ Cardinality(DOMAIN lanFailures) \in Nat
    BY <2>1, <2>2, FS_Subset, FS_CardinalityType
  <2>. QED  BY <1>3, <2>3 DEF RequestsInv, GuessesOK
<1>5. ASSUME NEW d \in Devices PROVE wrong[d] < MostGuesses + most
  <2>1. GuessingFrom(d) \in SUBSET Guessing
    BY DEF GuessingFrom
  <2>2. Cardinality(GuessingFrom(d)) \in Nat
    BY <2>1, FS_Subset, FS_CardinalityType DEF RequestsInv, GuessesOK
  <2>. QED  BY <1>3, <2>2 DEF RequestsInv, GuessesOK
<1>6. GuessesAreCounted
  BY <1>4, <1>5 DEF RequestsInv, GuessesOK, GuessesAreCounted
<1>. QED  BY <1>1, <1>2, <1>6 DEF RequestsInv, RequestsAreAnswered

\* However requests interleave, whatever their bodies and whoever sends them: each is answered and
\* its answer arrives, guesses are counted, nobody is served before it paired, and the sweep takes
\* only what is old and outranked (webui.py, access.py, retention.py).
THEOREM RequestsGetTheirAnswers == RequestsSpec => []RequestsAreAnswered
<1>. QED  BY RequestsStart, RequestsStep, RequestsAreInOrder, PTL DEF RequestsSpec

-----------------------------------------------------------------------------
\* The parts together (MCScheduler)

LEMMA PartsStepsAre ==
  [PartsNext]_partvars =>
    [Next]_vars /\ [RoutingNext]_routingvars /\ [RequestsNext]_requestvars /\ [EnginesNext]_enginevars
      /\ [OutgoingNext]_outgoingvars
BY DEF PartsNext, InPart, partvars

\* What runs together behaves, part by part, as each part is specified.
THEOREM EachPartIsItself ==
  PartsSpec => Spec /\ RoutingSpec /\ RequestsSpec /\ EnginesSpec /\ OutgoingSpec
<1>1. PartsInit => Init /\ RoutingInit /\ RequestsInit /\ EnginesInit /\ OutgoingInit
  BY DEF PartsInit
<1>. QED  BY <1>1, PartsStepsAre, PTL DEF PartsSpec, Spec, RoutingSpec, RequestsSpec, EnginesSpec, OutgoingSpec

\* The types of sentences, requests, questions and acts.
THEOREM PartsWellTyped == PartsSpec => []PartsTypeOK
<1>1. RoutingInv /\ RequestsInv /\ EnginesInv /\ OutgoingInv => PartsTypeOK
  BY DEF RoutingInv, RequestsInv, EnginesInv, OutgoingInv, PartsTypeOK
<1>. QED
  BY <1>1, EachPartIsItself, RoutingStarts, RoutingStep, RequestsStart, RequestsStep, EnginesStart, EnginesStep,
     OutgoingStarts, OutgoingStep, PTL DEF RoutingSpec, RequestsSpec, EnginesSpec, OutgoingSpec

\* What is said is done and what is asked of the web server is answered.
THEOREM RequestsServed == PartsSpec => []RequestsAreServed
<1>. QED  BY EachPartIsItself, SentencesAreHeeded, RequestsGetTheirAnswers, PTL DEF RequestsAreServed

\* What the outside is asked and what is done behind a card.
THEOREM TheOutsideIsMet == PartsSpec => []TheOutsideIsMetAsAgreed
<1>. QED  BY EachPartIsItself, QuestionsAreServed, ActsKeepToTheirCards, PTL DEF TheOutsideIsMetAsAgreed

=============================================================================
