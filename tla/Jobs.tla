-------------------------------- MODULE Jobs --------------------------------
(***************************************************************************)
(* The job tracker (jobs.py) and what takes long beside it: tailoring the  *)
(* resume to a job, which asks a model, and exporting the result to PDF    *)
(* (tailor_job and render_job_pdf of the orchestrator).                    *)
(*                                                                         *)
(* Every method of JobTracker reloads the file under its lock, so a call   *)
(* is one step and the file is the only copy.  A job's description never   *)
(* changes, and a removed job is found out when the result is stored, so   *)
(* reading the job and reading the resume are one step.                    *)
(***************************************************************************)
EXTENDS Naturals

CONSTANTS
  MaxJobs,      \* bound: jobs ever added
  Postings,     \* a company and a role
  JobRequests,  \* threads that tailor and export
  MaxResume,    \* bound: changes of the base resume or its profile
  MaxDrafts     \* bound: packages the model writes

ASSUME JobsAssumption ==
  MaxJobs \in Nat /\ MaxResume \in Nat /\ MaxDrafts \in Nat

JobIds == 1..MaxJobs

VARIABLES
  tracked,   \* the jobs of jobs.json
  nextJob,   \* next_id: no id is used again
  resume,    \* version of the base resume, 0 for none
  drafts,    \* bound: packages written so far
  tailoring  \* what each request is doing

jobvars == <<tracked, nextJob, resume, drafts, tailoring>>

Stages == {"lead", "applied", "interview", "rejected"}
\* A package is told from others by its digest; it was written for a resume.
Packages == [resume: 0..MaxResume, draft: 0..MaxDrafts]
NoPackage == [resume |-> 0, draft |-> 0]
TrackedJob == [there: BOOLEAN, posting: Postings, stage: Stages, reached: Stages,
               package: Packages, pdf: Packages]
Tailoring == [step: {"idle", "drafting", "tailored", "rendering"}, job: JobIds,
              resume: 0..MaxResume, package: Packages]

JobsTypeOK ==
  /\ tracked \in [JobIds -> TrackedJob]
  /\ nextJob \in 1..(MaxJobs + 1)
  /\ resume \in 0..MaxResume /\ drafts \in 0..MaxDrafts
  /\ tailoring \in [JobRequests -> Tailoring]

JobsInit ==
  /\ \E p \in Postings :
       tracked = [j \in JobIds |-> [there |-> FALSE, posting |-> p, stage |-> "lead",
                                    reached |-> "lead", package |-> NoPackage, pdf |-> NoPackage]]
  /\ nextJob = 1 /\ resume = 0 /\ drafts = 0
  /\ \E j \in JobIds :
       tailoring = [r \in JobRequests |-> [step |-> "idle", job |-> j, resume |-> 0,
                                           package |-> NoPackage]]

-----------------------------------------------------------------------------
\* _PROGRESS; a rejection is off the funnel and keeps what was reached.
Progress == [lead |-> 0, applied |-> 1, interview |-> 2, rejected |-> 0]

AddJob(p, s) ==
  /\ nextJob <= MaxJobs
  /\ tracked' = [tracked EXCEPT ![nextJob] =
       [there |-> TRUE, posting |-> p, stage |-> s,
        reached |-> IF s = "rejected" THEN "applied" ELSE s,
        package |-> NoPackage, pdf |-> NoPackage]]
  /\ nextJob' = nextJob + 1
  /\ UNCHANGED <<resume, drafts, tailoring>>

\* import_leads skips what is tracked already.
ImportLead(p) ==
  /\ \A j \in JobIds : tracked[j].there => tracked[j].posting # p
  /\ AddJob(p, "lead")

UpdateStage(j, s) ==
  /\ tracked[j].there
  /\ tracked' = [tracked EXCEPT ![j].stage = s,
       ![j].reached = IF s # "rejected" /\ Progress[s] > Progress[tracked[j].reached]
                      THEN s ELSE tracked[j].reached]
  /\ UNCHANGED <<nextJob, resume, drafts, tailoring>>

RemoveJob(j) ==
  /\ tracked[j].there
  /\ tracked' = [tracked EXCEPT ![j].there = FALSE]
  /\ UNCHANGED <<nextJob, resume, drafts, tailoring>>

ClearLeads ==
  /\ tracked' = [j \in JobIds |-> IF tracked[j].stage = "lead"
                                  THEN [tracked[j] EXCEPT !.there = FALSE] ELSE tracked[j]]
  /\ UNCHANGED <<nextJob, resume, drafts, tailoring>>

\* set_resume and set_resume_profile drop every package and its PDF.
ChangeResume ==
  /\ resume < MaxResume
  /\ resume' = resume + 1
  /\ tracked' = [j \in JobIds |-> [tracked[j] EXCEPT !.package = NoPackage, !.pdf = NoPackage]]
  /\ UNCHANGED <<nextJob, drafts, tailoring>>

Become(r, state) == tailoring' = [tailoring EXCEPT ![r] = state]
GivesUp(r) ==
  /\ Become(r, [tailoring[r] EXCEPT !.step = "idle"])
  /\ UNCHANGED <<tracked, nextJob, resume, drafts>>

BeginTailoring(r, j) ==
  /\ tailoring[r].step = "idle"
  /\ tracked[j].there /\ resume > 0
  /\ Become(r, [step |-> "drafting", job |-> j, resume |-> resume, package |-> NoPackage])
  /\ UNCHANGED <<tracked, nextJob, resume, drafts>>

\* The model fails, or writes what the resume does not say.
DraftFails(r) == tailoring[r].step = "drafting" /\ GivesUp(r)

\* set_tailoring: for a resume that has changed, or a job that is gone, it
\* stores nothing and the request fails.
StoreTailoring(r) ==
  LET j == tailoring[r].job
      package == [resume |-> tailoring[r].resume, draft |-> drafts + 1]
  IN /\ tailoring[r].step = "drafting" /\ drafts < MaxDrafts
     /\ tracked[j].there /\ resume = tailoring[r].resume
     /\ tracked' = [tracked EXCEPT ![j].package = package, ![j].pdf = NoPackage]
     /\ drafts' = drafts + 1
     /\ Become(r, [tailoring[r] EXCEPT !.step = "tailored"])
     /\ UNCHANGED <<nextJob, resume>>

TailoringIsStale(r) ==
  /\ tailoring[r].step = "drafting"
  /\ ~tracked[tailoring[r].job].there \/ resume # tailoring[r].resume
  /\ GivesUp(r)

\* render_job_pdf reads the job again, and with it the package to render.
BeginRender(r) ==
  LET j == tailoring[r].job
  IN /\ tailoring[r].step = "tailored"
     /\ tracked[j].there /\ tracked[j].package # NoPackage
     /\ Become(r, [tailoring[r] EXCEPT !.step = "rendering", !.package = tracked[j].package])
     /\ UNCHANGED <<tracked, nextJob, resume, drafts>>

NothingToRender(r) ==
  LET j == tailoring[r].job
  IN /\ tailoring[r].step = "tailored"
     /\ ~tracked[j].there \/ tracked[j].package = NoPackage
     /\ GivesUp(r)

\* Mutant of StorePdf: the package is not asked about again.
StorePdfAnyway(r) ==
  LET j == tailoring[r].job
  IN /\ tailoring[r].step = "rendering" /\ tracked[j].there
     /\ tracked' = [tracked EXCEPT ![j].pdf = tailoring[r].package]
     /\ Become(r, [tailoring[r] EXCEPT !.step = "idle"])
     /\ UNCHANGED <<nextJob, resume, drafts>>

\* set_tailored_pdf, for the package that was rendered.
StorePdf(r) ==
  LET j == tailoring[r].job
  IN /\ tailoring[r].step = "rendering"
     /\ tracked[j].there /\ tracked[j].package = tailoring[r].package
     /\ tracked' = [tracked EXCEPT ![j].pdf = tailoring[r].package]
     /\ Become(r, [tailoring[r] EXCEPT !.step = "idle"])
     /\ UNCHANGED <<nextJob, resume, drafts>>

\* The browser fails, or the package has changed during the export.
RenderFails(r) == tailoring[r].step = "rendering" /\ GivesUp(r)

JobsNext ==
  \/ ClearLeads \/ ChangeResume
  \/ \E p \in Postings, s \in Stages : AddJob(p, s)
  \/ \E p \in Postings : ImportLead(p)
  \/ \E j \in JobIds : RemoveJob(j) \/ \E s \in Stages : UpdateStage(j, s)
  \/ \E r \in JobRequests :
       \/ DraftFails(r) \/ StoreTailoring(r) \/ TailoringIsStale(r)
       \/ BeginRender(r) \/ NothingToRender(r) \/ StorePdf(r) \/ RenderFails(r)
       \/ \E j \in JobIds : BeginTailoring(r, j)

JobsSpec == JobsInit /\ [][JobsNext]_jobvars
-----------------------------------------------------------------------------
\* A tailored package, or the PDF a download serves, is never of a resume that
\* was replaced, however long the model or the export took.
TailoredToThisResume ==
  \A j \in JobIds : LET job == tracked[j]
    IN job.there => /\ job.package # NoPackage => job.package.resume = resume
                    /\ job.pdf # NoPackage => job.pdf = job.package
=============================================================================
