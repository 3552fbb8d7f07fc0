# J.A.R.V.I.S in TLA+

A formal model of `laptop_agent`, the local-first assistant of this repository:
what its threads, processes, files and callbacks may do to each other, checked
with TLC on small instances and, for most of it, proved with TLAPS for any
instance.

Paths below are relative to `src/src/laptop_agent/`. `PROJECT.json` maps every
definition to the lines it models, and lists under "hazards" what is hard to
test in this code, each at its line with the property that watches it.

## The system

One Python process serves the web app: an HTTP server with a thread per request
(`webui.py`), a daemon thread that runs scheduled jobs once a minute, and one
`AgentOrchestrator` that all of them call. The command lines (`cli.py`,
`python -m laptop_agent.accounts`) are further processes over the same data
directory. State lives in JSON files, one lock per file held across processes
and across threads (`storage.py`), and in a few in-memory registries.

A request passes the sign-in gate and runs under its account (`acting_as`); the
orchestrator makes commands of it and asks the session again before every one;
tools call the approval gate, which puts a card on the account's streams and
waits; `POST /api/approve` and `POST /api/cancel` come from other threads;
scheduled jobs run through the same orchestrator and gate with nobody signed in.

What is hard: handlers read one file, wait half a second and write another; the
command line changes both files from outside; a card is written to another
thread's connection, stays open for two minutes, and what it was shown for
changes meanwhile; Stop, the answer, the timeout and a closed tab race; a crash
falls between two writes; a cancellation is not an `Exception`; a callback of
the page acts on what was asked several callbacks ago.

| Part of the code | State | Module | What makes it correct |
| --- | --- | --- | --- |
| Accounts, sessions, handlers (`accounts.py`, `sessions.py`, `webui.py`, `access.py`) | accounts with epochs, sessions, requests half way | `SignIn` | a session is accepted only for the credentials it was granted under; one owner from set-up; a developer is left |
| Limiter and hashing slots (`webui.py`, `accounts.py`) | failures per key, two slots | `Throttle` | wrong guesses are as far apart as the waits say |
| Google sign-in (`google_oidc.py`) | flows, exchange slots, links | `GoogleSignIn` | a flow is used once, by the window that began it, for the linked account |
| Web requests (`webui.py`, `recordings.py`, `retention.py`) | bodies, passcode, devices, uploads | `WebRequests` | what is refused changes nothing, bodies are swallowed, uploads are swept |
| Approval gate, broker, streams (`safety.py`, `approvals.py`) | the gate's lock, cards, streams | `Approvals`, `Consent` | nothing risky without a yes in time, by the account that asked |
| Stop (`cancellation.py`, `nvcf.py`) | running operations, early stops, sockets | `Stopping` | a stopped request ends wherever it is, and no other does |
| Scheduler (`scheduler.py`, the ticker) | `schedule.json`, jobs each process runs | `Scheduler`, `DailyJobs` | a due job runs, once at a time, once on a day, and not again after a crash unasked |
| Storage (`storage.py`) | file, backup, temporary file, locks | `Storage`, `Register` | a reader finds a whole version; recovery only where it is harmless |
| Memory, job tracker, index (`memory.py`, `jobs.py`, `knowledge.py`) | a file and the copies of it | `Memory`, `Jobs`, `Knowledge` | what the user is told of is kept, but where a method saves a copy it did not reload; an index and a job list lose nothing |
| Reminders (`reminders.py`, `orchestrator.py`, `app.js`, `cli.py`) | reminders, what was announced | `Reminders`, `Replies` | a reminder is delivered once, and a command is about the one that was meant |
| Files and folders (`tools/fileops.py`, `files.py`, `codefix.py`, `workspace.py`) | the user's files, the journal | `FileChanges`, `Workspaces` | a change puts nothing in place of what came meanwhile; a folder is filled and taken away by its own turn, while it is there |
| Mail tokens (`token_vault.py`, `tools/email.py`) | the vault and its copies | `MailTokens` | a forgotten token is gone |
| What is done behind a card (`email.py`, `browser.py`, `windows.py`, `system.py`) | the outside, the card | `Outgoing` | what is done is what was shown |
| Engines (`transcribe.py`, `voice.py`, `imagegen.py`, `search.py` and others) | who was asked, budgets | `Engines`, `FunctionIds` | a stand-in is asked where it may be and Stop is no failure |
| Models (`openai_compatible.py`, `model_status.py`, `reasoning.py`) | tries, tiers and cooldowns, runs | `Models`, `AgentLoop` | a whole reply has no thoughts in it, one that was cut off says so, a page shows one tier; busy tiers are left alone |
| Sentences to commands (`orchestrator.py`, `planner/`) | frames of commands, routed plans | `Routing`, `Forms`, `Dispatch` | nothing is run that was not said, nor for an account that may not; the tables of commands agree with each other |
| Batches and the control room (`orchestrator.py`, `control_room.py`) | runs, desks | `Batches` | a desk is idle when nothing runs at it |
| Tool servers (`tools/mcp.py`) | child processes, messages | `Mcp` | a request gets the answer to its own message |
| Conversation (`context.py`) | summaries | `Context` | a model is told what was said, within the budget |
| Watches, dates (`tools/watch.py`, `tools/dates.py`, `timeparse.py`) | what was seen and warned of | `Watches`, `Dates` | exactly what is new is found, and told once if the check lives to tell it; a date is where the calendar has it |
| Records (`failures.py`, `tracing.py`, `metrics.py`) | ring, log, samples | `Records` | what is recorded happened |
| Voice mode (`app.js`) | microphones, audio, epochs | `Voice` | a silenced reply stays silent |

## How the modules correspond to the code

A call that holds its file's lock for its whole length is one action: every
method of a store is `@synchronized` and reloads first, unless the module says
otherwise. A handler or a command is a sequence of such calls, kept in a record
per thread, and the sequences of different threads and processes interleave. A
card is a wait: what was read before it may be stale after it. Variables marked
history or ghost are read by no guard.

* **SignIn.** `Resolve`, `Admit` and `Refuse` are the two reads of
  `_account_for_session`; `Login`, `RevokeOld` and `CreateSession` the sign-in;
  `AuthenticateOwn`, `SetPassword`, `Rebind` and `RevokeAccount` a password
  change; `AuthenticateAdmin`, `FindTarget`, one write, then `RevokeAccount`,
  account management; `Command` begins the same writes from the command line,
  which asks for no password and keeps no developer. A client that signs in knew
  the password stored at that moment, and `proved` holds the sessions and
  requests whose holder proved, or set, the credentials the account has *now*.
* **Throttle.** A request asks `_SignInLimit`, hashes in one of two slots, and
  tells the limiter what came out; `guesses` remembers when each wrong one was.
* **GoogleSignIn.** Start, launch, callback, exchange with no lock held,
  complete, cancel, link and unlink; between a link's change and the end of the
  sessions the server may stop.
* **WebRequests.** The checks in front of every route in their order, the body,
  the LAN passcode, what an upload leaves and what retention sweeps.
* **Approvals.** `Audience` is the list `ApprovalBroker.request` takes under its
  lock; `Notify` and `NotifyFails` write the card to one stream of it, in the
  thread that asks; `Wake`, `TimeOut` and `Withdraw` are the wait and what
  follows it, so an answer can come between the timeout and the removal;
  `NoticeStop` is every `check_cancelled`. **Consent** is what this promises, with
  no thread in it, and `Approvals` implements it under the mapping `Phase`.
* **Stopping.** A stop may come before its request and is kept for a minute in a
  table with a bound; a read is ended by shutting its socket, a polled call by
  the request's own look at the stop.
* **Scheduler.** The file, each process's set of running jobs, and the threads
  that claim and run. `Cancelled` and `MarkStopped` are the `except
  OperationCancelled` of `run_due_schedules`; `ClaimFails` and `WriteFails` a
  disk that cannot be written; `Restart` a process that ends at any point.
* **DailyJobs.** `Wall` and `InstantOf` are `on_laptop_clock` both ways, `Target`
  and `IsDue` those of `scheduler.py`; the ticker asks at any instants.
* **Storage** does `atomic_write_text` step by step and implements **Register**.
* **Memory, Jobs, Knowledge.** Each process's copy; which methods reload. `Fresh` is what a
  method of `storage._REFRESH` works on; the others save the copy as it is (`AsItIs`) and
  undo what another process wrote since. `behind` is what a process has not seen,
  `adrift` what such a save may have lost or brought back; a reloading save adds
  nothing to it, so losing there violates `RememberedAsTold`.
* **Reminders, Replies.** The store and what delivers; how a spoken name finds its
  reminder, and "Which one?"; how a short reply is completed from the turns before it. The
  answer to "Which one?" becomes a command: by a place, or a number, of the list
  (`PickWhichOne`), "all" (`AllOfThem`), or any other number or words, which are
  looked for among all reminders, listed or not (`NameWhichOne`, the `else spoken` of
  `_follow_up`).
* **Forms.** The eighteen dispatchers of `_DISPATCH` in their order, each a table of
  the texts it claims, whole or by how they begin; beside them, as they stand in the
  code, the lists kept by hand that must agree with them: what a personal account
  may not and may run (`DevWhole`, `EverydayWhole` of `access.py`), what autopilot may
  (`SafeWhole`, `AutopilotPlans`), what help and an agent's prompt offer. A line is
  said by the owner or a personal account or planned by autopilot; `via` is where it
  stands and `taker` the rule that took it. `FormsAgree` says that no form is claimed
  by an earlier table than its own, that a personal account runs everything that is
  called everyday and nothing that acts beyond its own data, that autopilot
  starts nothing that changes or shows the owner's things, and that what is offered
  exists. Words are model values; each form is tried alone, with something after
  it, and with a table's name or "list" after it.
* **FileChanges, Workspaces.** Check, card, act, for each operation; a path holds
  an object or nothing, and the user changes paths meanwhile. The user may remove a
  folder while it is filled; `write_text` then makes it anew or writes into what took
  its place, and a failed write takes that away. `robbed` remembers whose was removed.
* **MailTokens, Outgoing, Engines, FunctionIds.** What waits for the provider or
  the card with nothing locked, and what is told of it.
* **Models, AgentLoop.** One call to an endpoint with its
  attempts; a stream gives its tokens as they come, thoughts too when the model sends them
  as content; the ladder of tiers and what is remembered of it; a run of steps.
* **Routing, Dispatch, Batches.** A sentence is what the tests in the code find in
  it, and a router may make anything of it; commands run commands, each under
  its session's limits; runs recorded by several processes.
* **Mcp.** One process per server, shared; messages are numbered and lines read
  until one bears the number.
* **Context.** Sizes in hundreds of characters; summaries made in the background.
* **Watches, Dates.** The headlines a check read a while ago are judged by the
  entry there is now (`JudgeNews`, under the lock), and told after it in the file of the
  reminders (`NotifyNews`); in between the check may end (`MinderEnds`). Dates are ordinals, as in Python: holidays, named days, times
  of day, moments, spans and the facts of the calendar, each against a second
  definition that counts or searches. What is asked is enumerated every day of the
  years in the `.cfg`; the clock readings, which no day changes, once a year.
* **Records.** Three stores that have nothing in common: a ring that is merged with its
  file when it is attached, or stands alone when the file cannot be read; a log in which
  a process may die half way through a line, to which the next is then glued; and shared
  samples.
* **Voice.** The page is one record, a callback one step, and generation and epoch
  are compared as the code compares them.

The `MC` modules put parts that share no state into one run: a behaviour is one
part's, the others resting where they started, so the states of a run are the
sum of the parts' and not their product. `InPart` says so, and the proofs use
that a step of the run is a step of every part, all but one stuttering.


## Runs

Twelve runs: six that pass, and six that each refute one sentence of the
repository (see Findings). The bounds stand in the header of each `.cfg`.

| Run | Module | What it shows |
| --- | --- | --- |
| `sign_in` | `MCSignIn` | accepted and admitted mean current; one owner; a developer is left; the device that changes the password stays signed in: two requests, or a request and a command line, on two accounts and two sessions |
| `turns` | `MCTurns` | consent, cards stay with their account, one card at a time, `Consent` is implemented; conversations, spoken names and short replies are followed, and every form of a direct command ends where it should; records are true |
| `scheduler` | `MCScheduler` | jobs: never twice at once, `running` is held, nothing reruns unasked, due jobs run; sentences, requests, engines, things done behind a card |
| `live` | `MCLive` | a store implements its register; reminders are delivered; Stop is obeyed; neither a tool server nor a card holds a lock for good |
| `lists` | `MCLists` | files, folders, memory, index, jobs, voice, commands, daily jobs, mail tokens, dates, watches |
| `service` | `MCService` | the limiter, Google sign-in, model tiers and calls, agent runs, batches, tool servers, function ids |
| `sign_in_enable`, `approvals_dead_stream`, `scheduler_ticker`, `knowledge`, `undo`, `functions` | | Findings |

**Why these are enough.** A stale sign-in takes one account, one session that
should be refused and one change; a race for set-up, or for the last developer,
takes two of everything; a rebind that meets a second change takes two epochs. A
card crosses accounts with two turns and two owners, and an answer is taken for
another card with two cards. Two claims of one job take two threads; a job left
behind by another takes two jobs; another process is needed for a memory that
does not know. The same is so of every pair below: two turns for two changes of
one path, two makers for one folder, two processes for one file and its copies,
two drafts for two resumes, two replies for a sentence of the wrong one, two
requests for a message of the other's. What needs more has more: five frames for
commands inside commands inside a follow-up, three days around a clock change,
three attempts and three tiers as in the code, one line of the log that is cut short, three threads in two processes for
a store, five turns for a summary that leaves some out. Ids are never used
again in the code (cards, tokens, accounts, jobs, messages), so sets of ids, and
counters with a bound, bound only how many are made. Every constant that
stands for a length (`DayLength`, `Cap`, `Budget`, `MinAttempt`, `Waits`) is
smaller than the code's and keeps its order with the others; where a proof
exists, the length is any. Memory has one fact, one note and one item: that a fact's value
is replaced by another is left to the proof, which is of any facts.

**Symmetry** is used only in runs without liveness, over ids that nothing in the
code orders. Where several parts of a run need interchangeable ids, they share
two pairs of model values, so that one permutation serves all.

**Deadlock** is checked in `sign_in`, `sign_in_enable`, `approvals_dead_stream`. The
other runs have counters that reach their bounds, requests that are all answered
and runs that are over: there a part may stop, and the header of the `.cfg` says
so. `Approvals` alone says what rest is (`Rest`); that a thread waits for nothing
that cannot come is stated as liveness: `LocksAreGivenUp`, `StopIsObeyed`,
`DueJobsRun`, and the part of `StoreKeepsItsWord` about its lock.

### Fairness

Nothing is assumed of people: not that they start, answer, stop, leave, sign in
or enable anything; nor that an outside service, a tool server or a disk answers.

* `Approvals`: a thread in the middle of asking keeps running, and so does the
  clock of `Event.wait(120)` (weak fairness of `Proceed(t)`, `TimeOut` in it). The
  gate's lock is an `RLock`, which is not fair: that a turn waiting for it ever
  gets it is *not* claimed, only that its holder gives it up.
* `Scheduler`: the ticker ticks, and a job comes to an end: tools time out, and so
  do the cards they put.
* `Storage`: a thread inside a store's call keeps running. Nothing is said of one
  that waits for the lock.
* `Reminders`: the timer of the page and the loop of the command line run on (weak
  fairness). `Announce` is strongly fair, because a page can be reloaded between a
  poll and its announcement again and again and still be open long enough once.
* `Stopping`: a request's own steps. `Mcp`: a thread's own steps and the deadline
  of a message.

## Proofs

Everything below holds for every value of the constants that the module's `ASSUME`
admits. `SignInProofs` extends its module; `SchedulerProofs`, `TurnsProofs`,
`ServiceProofs`, `ListsProofs` and `LiveProofs` extend `MCScheduler`, `MCTurns`,
`MCService`, `MCLists` and `MCLive`, so that what is proved is what the runs check, and
prove each part by itself first. A step of the run is a step of every part, all but one of them
stuttering (`PartsStep`, `PartsStepsAre`), and an invariant of each part makes one of
the run.

### Sign-in

`TypeCorrect`, `AcceptedSessionsAreCurrent`, `AdmittedRequestsAreCurrent`,
`OnlyOneOwner`, `TheWebAppKeepsADeveloper`, `ChangersStaySignedIn`, from
`SignInAssumption`: `None` is no id, and tokens, requests and command lines do not
overlap.

`AcceptedIsCurrent` is not inductive: a session about to be created, or moved to
another epoch, is not accepted yet. `IInv` adds, for every live session and for
every request that will write one or that carries one past the gate, that its
epoch is at most its account's, and that where the two are level the proof is
still current (`Tracks`). An epoch only grows (`SetPassword`, `Disable`), and each
growth is exactly what removes the proofs it outdates, so after it nothing older
is level: this is the argument `set_password`'s docstring makes in words, that an
epoch ends what a revoke cannot reach. `AdmittedIsCurrent` follows from the part of
`IInv` about a request that has read its session and not its account. `OneOwner`
needs only that a bootstrap finds no account at all and that no other write makes
an owner; `WebKeepsADeveloper` that the three writes that can take a developer away
ask for another one in the step that does it, unless a command line makes them.

`RebindKeepsTheChanger` is an action property, and `IInv` does not reach it: it says
nothing of what a request that has changed its password but not yet rebound its
session carries. `Fresh` adds that: while the proof such a request wrote is current,
the epoch it carries is its account's. Only a write of the account makes that false
or brings it about, every write that moves an epoch outdates the proofs of before
(`EpochsOutdate`), and a request's own write gives it both at once
(`PasswordsAreFresh`).

### Scheduler

`JobsWellTyped`, `JobsRunOnce`, `RunningMeansHeld`, `CutShortStaysCut`, from
`SchedulerAssumption`: the ticker is in the web app's process and every thread in
one of the processes. `NeverTwiceAtOnce` is not inductive, because a claim looks
at the file and at its own process's memory, never at the threads. The invariant
relates the three: a process remembers all that its threads have (`RunnerOK`);
threads of one process have nothing in common, enabled or not (`Apart`); and a job
that is taken, by a thread or by one that was lost, says "running" in the file
unless it is `overtaken` (`JobOK`). So what a claim finds due is nobody's
(`DueIsFree`), and is not what a lost thread left. The opposite half of `JobOK`,
that "running" is always somebody's, is `RunningIsHeld`; it is what makes an
`Enable` of a job nobody runs safe.

### Sentences, acts, questions and requests

The other parts of `MCScheduler`; `EachPartIsItself` makes their theorems ones of
`PartsSpec` (`PartsWellTyped`, `RequestsServed`, `TheOutsideIsMet`).

* `SentencesAreHeeded`, from `RoutingAssumption` (a topic is something a picture can
  be of). What either router answers is at least sayable (`AnswersAreSayable`), and the repairs,
  in the order the code applies them, leave of it only what the sentence or the
  conversation warrants (`PicturesAreOfTheTopic`, `DecidedIsWarranted`): none of them
  brings back what one before it took away.
* `ActsKeepToTheirCards`, from `OutgoingAssumption`. The world changes under an open
  card, so the invariant is about the call alone: what it did and has still to do was
  shown, a kind that does one thing has it before or behind it, and a password is
  never among what a form is about to type (`ActOK`). The old wallpaper is what the
  call found when it began, unless another call set one meanwhile (`OneActs`).
* `QuestionsAreServed`, from `EnginesAssumption`. Engines are asked in their order
  (`InOrder`), so one that is not the last resort is the first of two that was not
  named (`OnlyTheFirstIsPassedOver`), and each kind's handler puts such a one down or
  asks nobody else (`EndIsNoted`, `PassedOver`). What is left of a picture's budget is
  what its next attempt may take (`AllowedIsLeft`, `BudgetOK`). Parakeet looks for Stop
  only when it ends, and ends the question then (`StopOK`).
* `RequestsGetTheirAnswers`, from `RequestsAssumption`. A request that is not answered
  has no status and keeps its body (`CallOK`); one that opened a file
  keeps hold of which, and no file is left twice (`LeftOK`), so one that is gone stays gone. A
  device's wrong guesses and its requests that still guess are together fewer than the limit and
  the most that ever guessed at once, and so are the devices that are tracked or about to be
  (`GuessesOK`): a guess only moves from the one to the other. What the sweep takes
  is outranked by as many of the newest as are kept (`SweptIsOld`), and stays so.

### Approvals

In `TurnsProofs`: `ApprovalsWellTyped`, `CardsComeOneAtATime`, `CardsAreNotOverseen`,
`NothingWithoutConsent`, and `ConsentIsImplemented`, from `ApprovalsAssumption`. The
invariant says of a turn what its step implies about the lock and its card
(`TurnOK`), of a card whose it is and who may have answered it (`CardOK`), that no
two turns share one (`CardsApart`), and of a stream which cards it may have been
given (`StreamsOK`). `ConsentGiven` rests on two facts that are not about the step
that acts: an answer is acknowledged once, because `resolve` answers under the broker's lock only a card
without an answer, and an answer after Stop leaves the turn that has the card
stopped for as long as it has it (`CardOK`). The refinement goes action by action: `Ask` puts a card,
`Resolve` answers it, `Act` performs it, `TimeOut`, `Withdraw` and the end of a
turn let it lapse, and everything else, all of the streams and the lock, is a
stutter of `Consent` (`QuietRefines`).

### Conversations and records

The other parts of `MCTurns`, in `TurnsProofs` too; the theorems are about `TurnsSpec`.
Sums, sequences and orders are reasoned about by the least number at which a claim
fails (`NatLessThanWellFounded`, of sets, which the provers can use).

* `ContextsTellTheConversation`, from `ContextAssumption`: any pieces, budgets, and
  numbers of summaries and contexts kept. `ToldWhatWasSaid` is of the context handed out
  last, and that may come from the memo, made when the conversation was shorter;
  `ContextInv` says it of every context that is kept, for a prefix of what has been said
  since. A summary that is being written from an earlier one tells of its own part
  already (`FoldFrom` looks once, so the base and what it says belong together). What is
  referred to takes its share first (`SharesOf`), so nothing of its length that is shown whole
  leaves it cut.
* `NamingIsRight`, from `NamingAssumption`. A command that names a reminder, and a reply to
  "Which one?" that names one, act on one at most, which bears the words; a reply by place
  acts on what stood there; a number that was not listed on the one of that number. That a
  reply in words stays within the list is *not* claimed: it does not (see below). What a question listed bears the words it was about, for
  as long as it is set (`NamingInv`): ids are not given twice, so an id that another
  window has removed is nobody's. What is found is what bears the words, and what rings
  is looked for first (`FoundOK`).
* `ShortRepliesAreUnderstood`, from `FollowUpsAssumption`. What the assistant has just asked
  is of what pends, and of what that lacks (`FollowUpsInv`); after a first question the
  text before is the request itself, which is why one reply is enough, and after a
  second it is not, which is why the property counts questions.
* `RecordsAreKeptTrue`, from `RecordsAssumption`. While one process writes, its ring is
  the file's with what could not be written since, in order; the file is the newest of
  all it ever held (`FailuresInv`). Who holds the log's lock has a timing no entry
  has, and what a prune leaves is of the days kept (`TimingsInv`).
* `TurnsWellTyped`, with the types of `Forms`.

### Service

* `GuessesAreSlowedDown`. An entry of the limiter has the count and the time of the
  guesses it stands for (`EntriesCount`). While the wait of a guess has not passed,
  the requests in flight for its key and the guesses since it are together fewer
  than the requests there are (`WaitIsHeld`): each of them was let through before,
  and takes one of the places the property leaves. The waits grow (`DelayGrows`).
* `IdentitiesLetIntoTheirAccount`. A flow that is kept has its window, one that links
  has the account that began it, and one that is ready has an identity (`FlowOK`);
  a session that an identity opened is somebody's (`SessionOK`).
* `ModelsAreQuotedHonestly`, `PagesShowOneTier`, `RunsActOnWholeReplies`, together
  `WholeReplies`. While a call is pending, every try so far was worth retrying; while
  a chat shows anything, it is of the tier that is asked, since a stream that breaks off
  is taken back and one that says nothing showed nothing; an agent that acts holds
  a whole reply, and one that has crossed its steps or seen Stop is stopping. "Without
  thoughts" is said of whole replies only, "says when it was cut off" of streams too; a
  turn that an exception ended may leave half an answer on the page.
* `BatchesAreKeptInView`, `ToolServersAreHeld`, together `AccountedWork`. A turn that
  has ended runs nothing, numbers are below the next one, and keeping the latest
  of the latest is keeping the latest (`LatestOfLatest`). Whoever holds a server's
  `_starting` lock is starting it, and `RequestOK` says what a request's step implies
  of the process it uses.
* `NewestIdStays`. One listing is in flight at a time, and it is of the last lookup.
* `ServiceWellTyped`.

### Lists

* `NothingOfOthersIsTaken` (`FilesAreNotOverwritten`, `FoldersAreOnesOwn`). A move that
  waits for its card is between two different paths; the journal says where an
  object was put; whoever fills a folder and is not `robbed` has it, and no other fills a
  folder of that name. What a robbed turn writes into is excepted, until it ends.
* `KeptAndForgotten` (`MemoryIsKept`, `TokensStayForgotten`, the index). A process's
  copy differs from the file only in what it is behind with (`CopiesAgree`), so a save that
  reloads changes nothing but what it was called for, and one that does not undoes at most
  that; index
  ids are unique and below the next, and pruning by name drops nothing twice
  (`PruningByName`, over a bijection of the library). While a mailbox is being
  forgotten the vault is empty of its provider; a refresh that holds a forgotten
  token is in `renewing`, and only that can bring it back.
* `PackagesAreOfThisResume`. `PackagesFit` says it of removed jobs too, because a
  removed job's id may be in a request's hands.
* `NoSilencedSpeech`. At every place speech can wait (being fetched, queued or
  playing), what would still be heard is not of a silenced turn: a fetch only if it
  is of this epoch, and a turn that goes on adding sentences likewise (`Fits`).
* `CommandsAreHeldToTheirAccount`. Of the frames only the topmost waits for a dispatcher,
  and none does once a tool has run that may not have another behind it.
* `WatchesAreQuiet`. Unless requests about one watch overlapped, one at most is under
  way, an entry that has a job holds exactly what was heard, is about to be told, or was
  lost while it was watched; of two checks that are still to tell, no headline is both's
  (`TellApart`); and who ends a watch knows every job of it (`NewsInv`); the time that is kept of a
  kind is that of its latest warning (`HealthInv`).
* `DailyJobsRunOnceADay`. `Target` depends on the day alone (the division lemmas); a
  run began on a day it is for, after that day's target and after the run before
  it had ended; `lastrun` is the latest end (`DailyInv`).
* `CalendarIsKept`: what `Dates` answers, for every day of any set of years from 2 on
  (`DatesAssumption`; `date` knows no year 0, and last year is looked at). Three ways
  of counting carry it. A date is its month's eve and a day, and a month its year's
  `Start` and a fixed number of days, so that what is asked of two dates becomes
  arithmetic of their days; weekdays are what the counted days leave over 7; and
  "the next that fits" is the least element of a set that is not empty (`MinIs`,
  `MaxIs`, over the well-founded order of the numbers). On these rest one lemma per
  conjunct of `DatesAreCounted`, one of which, `EasterIsTheSunday`, is stated of
  every year: the computed Easter is the age of the moon, a way to the next
  Sunday and one correction, and the correction is made exactly when the full
  moon was moved. Python's own last year, 9999, is not modelled.
* `ListsKeepToTheirOwn` says of the run's specification what the parts' theorems
  say of jobs, voice, commands and daily jobs; `ListsWellTyped` their types.

### Storage

`TheStoreIsItsRegister`: every behaviour of `Storage`, alone or with its neighbours in
`MCLive`, is one of `Register`, for any threads, processes and updates. `StorageInv`
says that the backup is at most one update behind an intact file (`VersionsOK`), so
damage costs the newest update or nothing; that one thread is inside the file's lock
and that each update is one thread's (`ThreadsApart`); that a thread between its read
and its replace has what the store holds, and has it in the backup before it touches
the file (`WorkerOK`). `Replace` is the register's write, `Refuse` its refusal, damage
its loss; reading, backing up, waiting and locking stutter.

### Reminders and Stop

`NothingSettledRingsAgain` needs no invariant: every call of the store looks again at
whether the reminder is active, whatever the command found before. `AnEarlyStopIsKept`
does: `StoppingInv` says that a stop that came before its request and found room is
kept, with its time, for as long as it is younger than a minute, and that a request
runs on after it only if it began later than that. `LiveWellTyped` puts the two
together with `StorageInv`.

### Only model-checked

* Liveness: `DueJobsRun`, `StopIsObeyed`, `RemindersAreKept`, `LocksAreGivenUp`, the lock
  of `StoreKeepsItsWord`. Fairness and `ENABLED` are beyond the prover.
* `FormsAgree`, a conjunct of `TheConversationIsFollowed` (the other three are proved): it is
  about one table of rules and one table of lines, without constants or
  bounds, so TLC's run of it looks at every case there is.

## Findings

1. `accounts.py:290`, "so enabling it again brings back no session, however
   late": a password change that authenticated before the disable writes after
   it, and its rebind brings its session to the epoch the account is enabled with by
   a third request, before the disabling one has revoked its sessions (`sign_in_enable`).
2. `approvals.py:101`, "A dead SSE connection must not stop the approval from
   being answerable through the polling route": the streams raise
   `OperationCancelled`, which is not an `Exception`, so the turn that asks ends
   and its card stays open with nobody behind it (`approvals_dead_stream`).
3. `webui.py:666`, "Never let one scheduled run take down the ticker": the same
   exception, out of a job of the ticker, ends its thread (`scheduler_ticker`).
4. `knowledge.py:594`, "a mutator that fails part way through can never leave a dirty
   store behind for a reader to see": it drops the copy before it loads it, changes
   that copy, and fails to save it (`knowledge`).
5. `tools/fileops.py:74`, "so undo never acts on something else put there since":
   the look comes before the card, the move after it (`undo`).
6. `nvcf.py:156`, "with one retry on a current id if the one used has gone": of two
   calls told together that it has gone, the second fails although the first has
   found the current one (`functions`).

Noticed while reading, and not run:

* `transcribe.py:59` says OCR and transcription run locally and need no gate; both
  may go to a cloud engine. `_guess` sends text out before the translation card.
* `websearch.py:245` treats an API that failed as one that found nothing; filling a
  form succeeds with no field filled; a mail whose answer was lost is told as failed.
* `storage.py:1` speaks of "serialized read/modify/write operations" and
  `tests/test_reliability_regressions.py:113` of instances that "preserve all updates": `add_to_list`,
  `remove_from_list`, `clear_list`, `forget_*` and `set_profile_values` of `memory.py` are not in
  `_REFRESH`, and undo what another process wrote since they last read.
* `workspace.py:251`, "everything in it was written by this call, so it all goes": a folder
  that took the place of one that was removed is written into, or goes with all in it.
* `watch.py:97`: headlines are marked as seen before they are told, so those of a check that
  ends in between are never told, although the user was promised to hear "when there's a
  new headline"; a health warning that is lost so keeps its kind quiet for two hours more.
* `openai_compatible.py:508`, "keep the chain-of-thought internal and surface only the final
  answer tokens" (`docs/design/models.md:29` too): thoughts that come as content, as
  lines 81-87 say they do when a model is cut off, are streamed to the page.
* A reply to "Which one?" that is not in the list becomes a command over all reminders: a
  number may remove one that was not listed, a word may end one that repeats or rings, a
  word of no meaning ("the reminder") the first one that repeats, and "all" asks to remove
  all.
* `orchestrator.py:2643` and `2689` keep the last text of the user only as what was
  `before`; `_follow_up` to "the third one" of two raises `IndexError`; "stop the timer"
  also deletes "fix the egg timer"; "undo that" undoes the newest change of any chat.
* "Workflow steps cannot start another workflow." is got round by a batch whose part
  is a workflow.
* A demotion moves no epoch and ends no session; of two password changes at once,
  one signs the other's device out (`sessions.py:114`).
* A refresh of a mailbox token that was forgotten meanwhile brings it back.
* "Next federal holiday", asked on the day off itself, skips it.
* `_mcp_cache` is created without a lock; two restarts of a tool server at once can
  raise `KeyError`; plugins are added while their card is open.
* The failure ring is overwritten between processes, and by one that could not read
  its file; a log's next line is glued to a torn one and lost with it; a late outcome
  replaces a newer one in `ModelStatus`.
* A tab that was left open writes `jarvis_sessions` back after it was cleared.
* Renaming over a file succeeds on POSIX; a stopped run is not recorded; of two
  timer extensions at once one is lost; the command line notes a reminder as
  announced before it has printed it.
* `/api/pair` leaves odd JSON unanswered (`webui.py:1257`); the limiter's power
  overflows past a thousand failures (`webui.py:148`).
* `Models`: the call lets `RemoteDisconnected`, `ConnectionResetError` and `IncompleteRead` pass
  unhandled, and takes a stream that closes without `[DONE]` for a whole one.
* "Compute the average by city in x.csv" is everyday for a personal account (`access.py:8`),
  and `_dispatch_file_intelligence` reads the table for it; "summarize file", which
  autopilot may run, also puts the file in the index.
* "June 5 at 9am", said at ten on 5 June, is put off to 12 June: `timeparse.py:468` speaks of
  a weekday, and `dates.py` says that a date stays on its day. "Tonight at 12" is
  noon.
* Audio clips left by a crash are never swept; a speech chunk can exceed its limit.

## What the models leave out

Of parts that are modelled:

* `SignIn`, `Storage`: ids and tokens are fresh, a hash check is right, and the server
  is not a hosted copy (there every account acts as `personal`).
* `DailyJobs`: the zones are those in which the last hour of a day is not skipped
  and an hour shown twice is of one day (`OfOneDay`); a run that ends after the next
  day's time stands for that day too.
* `Dates`: Easter is run for 1583 to 2399, and proved for every year; 29 February for
  this year and the next. Left out are the words of a phrase and where in a sentence
  it stands, and clock changes (they are in `DailyJobs`).
* `MailTokens`: the vault's encryption, which is Windows' own; attachments that are
  read before the card are in `Outgoing`.
* `Outgoing`: one field per selector, at most twenty; wallpaper changes that overlap
  each other are left out.
* `Watches`: one topic; the three hundred kept headlines are not reached.
* `Replies`: numbers and `#` in a name, which the ids of a list ("#7" in a reminder's text is
  taken for one) and the words of a repeating one ("#3") would be mistaken for; the list of
  eight is not filled; "draw it again".
* `Workspaces`: files the user puts into a folder while it is filled.
* `Mcp`: a write that blocks because the server does not read (`mcp.py:82`, made with the lock
  held at 103) is a step like any other: that the lock is given up is said of reads.
* `Voice`: the greeting and the speech of reminders; a later session than the first is
  hardly reached by TLC, and is in the proof.
* `Batches`: a desk left by a `_solve` that was stopped (`orchestrator.py:5228`) is excepted
  (`left`) until its batch ends, which clears it.
* `Records`: what the ring kept is compared with the file only while one process had it open
  and could read it (`blind`).
* `Forms`: what follows the words that claim a text, for which the patterns have
  limits of their own; the planner and the model, which are asked when no table claims it.
* `WebRequests`: lengths that cannot be read, chunked bodies, a GET with a body, JSON
  of odd types.
* `Engines`: a picture's attempt honours its timeout; Stop is looked for where a wait
  looks for it.
* `MCLive`: the two turns at the gate are of one account.

Not modelled, because there is no state to get wrong: the regular expressions of
the planner (about 2,500 lines), what turns a command's words into arguments and an
answer into text, calculators, units and stocks, the drawing page, and what a tool
does between its request and its answer. The repository's unit tests cover these.

## The plan

1. The agreement of the tables of `Forms` as a theorem.
2. The chats of the page (`app.js`): sessions in local storage, one stream at a time.
