# TaskLine server in TLA+

TaskLine is a support desk whose clients write in the messenger MAX. The server
(TypeScript, PostgreSQL, S3, an AI provider and the external knowledge base
agentmemory) receives what clients write, keeps tickets, delivers what staff
and the bot answer, and learns from closed tickets. This directory holds TLA+
modules of its stateful parts, the TLC configurations that check them and
machine-checked proofs about all of them. Paths below are relative to the
repository; `PROJECT.json` maps each definition to the lines it models.

Contents: 1 the system, 2 the modules, 3 the runs, 4 fairness, 5 the proofs,
6 where code and documents disagree, 7 limits, 8 the plan.

## 1. The system

### How it runs

The HTTP process serves staff, MAX's updates and the event stream. Worker
processes run (a) *poll loops* (`src/app/workers/poll-loop.ts`): one over
clients with unprocessed inputs, one over clients with due deliveries, and (b)
*jobs* (`job-runner.ts`): rows of the table `jobs`, published by the scheduler to
queues of limited width. `maintenance.ts` recovers what was abandoned and drives
the timers. All of it meets in PostgreSQL.

**The unit of atomicity** is the transaction. Everything that writes the rows of
one client first takes `SELECT ... FROM clients ... FOR UPDATE`, so these
transactions are serial per client, and a model takes each as one step. What the
models interleave are the steps *between* transactions: requests to MAX, to the
AI provider and to the knowledge base, each with a time limit, each of which may
be lost, late or answered twice over, and after each of which the process may
have died or been overtaken.

### The parts

| part (source under `src/`) | state it keeps | operations | what is hard | what makes it correct |
|---|---|---|---|---|
| Outgoing queue (`modules/delivery`) | `deliveries`: state, generation, attempts; the mirrored `messages.delivery_state` | claim the head, send, record, sweep stale sends, retry or cancel by hand | crash between sending and recording; a slow worker overtaken by the sweep and by a newer claim; unknown outcomes | nothing twice without an operator's consent, order kept, verdicts true, no row stuck |
| Outbox (`modules/outbox`) | rows of `deliveries` | queue, cancel a client's, a cycle's or a broadcast's rows | cancelling while a row is in flight | a cancelled row stays cancelled, message and delivery agree |
| MAX transport (`integrations/max`) | none | upload, send, answer | which failures prove that nothing arrived | "retry" only for what surely did not arrive |
| Knowledge base (`modules/ai/memory`) | `memory_records`, `memory_external_refs`, `memory_writer` | persist, reconcile, remove, recall | a write whose outcome is unknown; removal against a write in flight; one writer at a time | at most one copy, every copy found again and erased |
| Invalidation (`modules/learning`) | `closures`, jobs | invalidate on reopening, withdrawal, purge | runs against the jobs of the same closure | nothing counts as learned that was invalidated |
| Background jobs (`app/workers`) | `jobs`: state, attempts, reason | publish, claim, complete, defer, fail, recover | slow jobs are recovered and run twice | a job ends or is visible to an administrator |
| AI gateway (`modules/ai/gateway`) | `ai_permits`, `ai_calls` | admit under the cap, call, settle, mark uncertain, resolve | answers after the call was given up; permits of lost calls | cap respected, a call at most once per job and step |
| Triage and learning (`modules/ai`) | `triage`, `closures.learning_status` | run in checkpoints, apply under lock | deadline and consent change while the model answers | a result is applied only if it is still wanted |
| Consent (`modules/consent`) | `clients.consent_*`, `preconsent_buffers` | ask, grant, decline, withdraw, expire | content sent before consent; withdrawal against everything in flight | nothing personal is kept or sent without consent |
| Inbox (`modules/inbox`) | `inbox` | record once, process in order | repeated updates, an input that throws | each input exactly once and in order |
| Tickets (`modules/tickets`) | `tickets`: status, version, lifecycle, assignee | client content, commands, deferred and automatic closing | commands on stale versions, closing against pending work, reopening | one open ticket per client, no input lost by closing |
| Messages (`modules/messages`) | `messages`, `message_revisions`, deferred revisions | add, revise | an edit before its message | the newest edit wins |
| Ratings (`modules/ratings`) | `closures`: rating, expiry, attempts | accept, finish, expire | rating in time, processed late | at most one rating per cycle, in-time ratings count |
| Routing (`modules/routing`, `staff/presence`) | `tickets.offered_to`, assignee, presence, teams | offer, accept, decline, expire, take, release | concurrent offers, presence changes | capacity, no offer to who is away |
| SLA (`modules/sla`) | two clocks per ticket, pauses, stages | start, pause, resume, restart, check | business hours, pauses, settings switched off | a stage fires once and not before it is due |
| Incidents (`modules/incidents`) | `incidents`, links, updates | detect, link, broadcast, resolve, reopen | a broadcast goes ticket by ticket, may be retried, and two of its runs may overlap | a resolution reaches each linked ticket and closes it once |
| Files (`modules/files`) | `attachments`: status | upload, download, scan | a long scan against purge | only clean files are served |
| Privacy (`modules/privacy`) | flags on clients and tickets | erase, purge, retention | against everything that still runs | nothing left, in the knowledge base either |
| Notifications (`modules/notifications`) | `events`, cursors | emit, stream | cursors handed out before commit | no event passed over |
| Administration, dictionaries, macros, templates, profile, reports, sessions, demo access, HTTP, command line | plain rows | create, read, update, delete; rendering | none over several steps | out of scope, see 7 |

The parts call each other inside one transaction (a ticket command queues a
delivery, a withdrawal cancels the queue and invalidates learning), hand over
through rows (`deliveries`, `jobs`, `inbox`) and learn of each other's
changes by reading those rows again at the next transaction: `StillMine`,
`Recheck`, `MayLearn` and `Current` of the models are such second looks. The
hazards that follow from this are listed in `PROJECT.json`, each at its line and
with the properties that would catch it.

## 2. The modules

    Channel              what the outgoing queue promises (abstract)
      ^ refinement
    Delivery             how it is done: rows, workers, MAX, operators
      |- MCDelivery            instances for TLC
      `- Delivery_proofs       safety and refinement, for every value of the constants
    Calls                what jobs may rely on when they ask the model (abstract)
      ^ refinement
    Gateway              permits, calls, the provider, sweep, operators
      |- MCGateway             an instance for TLC
      `- Gateway_proofs        safety and refinement, likewise
    Memory               the knowledge base: writing, reconciling, removing
      |- MCMemory              instances for TLC
      `- Memory_proofs         safety, likewise
    Conversation         inbox, consent, tickets, closing, ratings, erasure of one client
      |- MCConversation        instances for TLC
      `- Conversation_proofs   safety, likewise
    Workflows            triage and learning, on what Calls promises   (Workflows_proofs)
    Routing              offers, taking, presence, blocking            (Routing_proofs)
    Sla                  the two clocks of a ticket in working time    (in Desk_proofs)
    Incidents            linking, updates, the broadcast that closes tickets (Incidents_proofs)
    Files                upload, download, scan and removal of one file (likewise)
      `- Desk                one instance of each of the last five
           |- MCDesk             small instances for TLC
           `- Desk_proofs        the proofs about Files and Sla, and those of three others carried over

### Delivery

The outgoing queue of *one* client (queues of different clients meet only in the
org-wide pacing). Rows are numbered by `chat_seq`; `outbox[d]` holds the columns
`state`, `kind`, `generation` and `attempts`, `message[d]` the mirrored
`delivery_state` of the row's message, `granted` the client's consent.
`worker[w]` is what a call of `DeliveryWorker.deliver` holds in memory: row,
generation, attempts and, once decided, the outcome. It goes
idle -> preparing -> cleared -> done -> idle:

| action | code |
|---|---|
| `MarkSending`, `CancelUnauthorized` | the claiming transaction of `claim.ts` |
| `UploadFails`, `Recheck` | uploading, then `wasCanceledMeanwhile` of `send.ts` |
| `MaxAccepts`, `MaxRefuses` | the request to MAX with what becomes of it and of its reply |
| `Record` | `record-outcome.ts`, fenced by generation and state |
| `Crash` | the process dies, or a transaction of its own fails |
| `MarkStale` | the sweep of `stale-sends.ts`: some sends in flight become unknown |
| `ResolveRetry`, `ResolveCancel` | an operator, `resolve.ts` |
| `Queue`, `Withdraw`, `EraseClient`, `Grant`, `CancelCycle`, `UnlinkIncident` | the callers' transactions that queue and cancel |

`accepted`, `risked` and `resolved` are history: which generations of a row MAX
took, which unknown generations an operator repeated knowingly, which rows an
operator has touched. The six kinds of rows differ exactly where the code looks:
whether a message belongs to the row, whether authorization is checked when
claiming, whether consent is checked again after the upload, and (`answer`) that
the second check is skipped.

`Channel` is the same queue seen from its ends: rows wait, are out, delivered or
dropped; the chat takes an offer at most once and in order; only a try an
operator repeats may be taken beside a newer one. `Promise` in `Delivery` is the
refinement mapping: `Place` folds the eight states into five, generations are
tries.

### Gateway

The way to the language model, for all jobs of the installation. `permit` and
`call` are the tables `ai_permits` and `ai_calls`; `process[c]` is one execution
of `Gateway.complete`, from admission to settling; `working` is what the provider
is busy with, whether or not anybody still listens. A job is only what admission
asks about it: `run` (its generation) and `active` (that run is running and
eligible); requests that are turned down change nothing and are no steps.

| action | code |
|---|---|
| `Admit` | `admitCall` and `takePermit`, one transaction |
| `Unfit`, `Dispatch` | `isStillRunnable`, `callOptions`, then the request |
| `ProviderAnswers`, `ProviderRefuses`, `OutcomeUnknown` | `openai-provider.ts` and `callOutcome` |
| `Settle` | `settle.ts`: row and permit, each under its own condition |
| `Abandon` | the gateway dies, or the database fails while it settles |
| `Sweep` | `recoverAbandonedWork`, also under a gateway that is only slow |
| `ResolvePermit`, `SetCap` | `permit-resolve`, `ai-cap` |

`Calls` is the table as the jobs see it: a step is asked once, a reply stays, a
failure is final. `ImplementsCalls` maps the column `state`.

### Memory

The knowledge-base records of some closures, the jobs `memory` (write) and
`memory_delete` (one per reason) of each, the worker process that runs them and
an operator's `memory-reconcile` next to it. A copy of a record is the number of
the request that wrote it. A request is `inflight` until `Land`: late, or never.
`ClaimWrite`, `Send`, `RecordUpstream`, `Verify`, `FinalizeRecord`,
`WriteUnknown` and `PersistFails` follow `persist.ts` step by step; `ListCopies`
and `Adopt` are `reconcile.ts`; `SelectRefs`, `Forget`, `MarkForgotten` and
`MarkDeleted` are `remove.ts`; `StartJob`, `After`, `Finish` and `RecoverJob` are
the job runner with its three classes of failure (deferred, unknown, retried).

### Conversation

One client and everything that happens to him in one transaction at a time: `db`
is the record of his rows, each action takes it to new rows, so a handler is a
composition of functions on `db` as it is of calls in the code. Texts are named
by the input that brought them.

| action | code |
|---|---|
| `Record`, `IngestConsented` | `record-input.ts`; `ingestConsented` of the loader of test data |
| `Process` | `inbox.ts`: the oldest input through consent gate, buttons, commands, ratings or content |
| `ExpireBuffers`, `ReviseDeferred`, `PublishPolicy` | kept messages expire, a deferred edit is tried, a new edition of the policy |
| `Assign`, `Release`, `Amend`, `Wait`, `StopWaiting`, `Reply`, `Close`, `Reopen` | the commands of the staff under `lockCommandTarget` and `finishCommand` |
| `ReadForClose`, `CloseDeferred`, `GiveUp` | `deferred-close.ts`: it reads, then runs the command with the version it has read |
| `RemindWaiting`, `AutoClose`, `CycleExpires`, `ExpireCycle`, `RemindRating` | the timers of waiting tickets and ratings |
| `CloseForIncident` | `close-ticket.ts` of the incidents: the broadcast of a resolution closes the ticket, half an hour after the resolution over inputs that are still pending |
| `EraseClient`, `PurgeExpired` | `privacy/` |
| `Claim`, `Report` | what Delivery does, as far as the conversation depends on it; `Authorized` is the condition `Delivery` leaves free |

`asked` and `late` of an input are history (which rating was being asked when it
came, and whether its time was over), and so is `before` of a cycle (the last input
there was when its rating was asked over pending ones); `heard` of a ticket says that the client
has written since it began to wait; `fresh` of a deferred close stands for the
version of the ticket.

### Workflows, Routing, Sla, Incidents, Files

The five share the table of tickets, but no property relates two of them, so
`Desk` moves one part at a time and one run checks them all (`incident_reopened`
moves `Incidents` alone). `Desk` has the
constants and variables of all five and says what it assumes of them: rules
assign to teams that exist, the tickets an incident may have are finitely many,
the turns of a conversation are a sequence of names no other phase has, calendars
and targets are such as `saveSlaConfig` lets through (section 5). `MCDesk` is a
small instance whose idle parts begin in one way.

- `Workflows`: the jobs `triage` and `learning` of one ticket with two workers
  that may run the same job. `calls` is `Calls` as the jobs use it: a step that was
  asked gives the reply it gave (`AskTriage`, `AskLearning`), `checkpoints` keeps
  extraction steps. Between two steps the client edits or withdraws, the staff
  classify, close and reopen, the deadline passes (`Deadline`, `Maintain`).
  `ApplyTriage` and `StoreResolution` are the transactions that look again. Each
  reply and record carries the revision of the text it is about.
- `Routing`: two tickets, two employees. A command is `Check` (the employee is
  active, read without a lock) and then its transaction; the timers list
  (`ListOffline`, `ListWaiting`) and then lock one by one; blocking is `StartBlock`
  (the list of his work) and `FinishBlock`. `slipped` is history: tickets an employee
  got although he was blocked or about to be.
- `Sla`: one ticket and its clocks, minute by minute. Business time
  (`AddBusinessTime`, `BusinessMinutesBetween`) is translated as a search over
  at most `SearchDays` days, and a sum over the days of a span, both recursive functions;
  `worked` counts the same time tick by tick, and is what they are checked
  against. `Reclassified`, `Paused`, `Resumed`, `Stopped`, `Restarted` are the
  functions of `clocks.ts`, `CheckTicket` the timer.
- `Incidents`: two tickets, one incident, updates with their broadcast jobs, two
  workers. A run lists tickets, then locks each (`SendToTicket`); it may be paused,
  put off, fail or die (`PauseRun`, `EndRun`, `FailRun`, `Die`), and closes tickets by
  force after half an hour. `RecoverJob` goes by the age of the claim, as
  `maintenance.ts` does: the run it recovers may be alive, and then two runs of one
  job go on side by side; one that was overtaken writes to its job no more (`Leave`)
  but to tickets as before. `told` holds the logical keys of the deliveries,
  `closings` (history) which update closed what, `beside` (history) that another run
  was going when this one began, `excused` to whom something happened that lets him
  stay open.
- `Files`: one file, two processes for its jobs and uploads. No transfer, scan or
  removal holds a lock, so each is split where the code waits, and may be
  recovered under a slow run.

Variants named `X_...` beside a definition `X` are plausible slips of it: they are
the mutants under which TLC finds the properties violated, and no module uses them.

## 3. The runs

| run | checks | result |
|---|---|---|
| `delivery_safety` | `Delivery` with 2 rows, 2 workers, five of the six kinds, one automatic and one operator retry: the safety properties, the inductive invariant, `ImplementsChannel` | holds, 1.05 million states |
| `delivery_live` | `QueueMoves`: a live row is settled in the end | holds, 80 thousand states |
| `unknown_prompt` | `UnknownGetsResolved` | violated, see 6 |
| `gateway_safety` | `Gateway` with two steps, two permits, a cap of one or two, two runs: `WithinCap`, `OneDispatch`, `PermitsAccounted`, `ImplementsCalls`, and that a permit comes back | holds, 173 thousand states |
| `memory_safety` | `Memory` with 2 records, one reason, one mishap: copies, writer, list of copies, learned | holds, 1.8 million states |
| `memory_live` | `RemovalEnds`: a removal is done or visibly stuck | holds, 49 thousand states |
| `memory_erasure` | `DoneMeansErased` | violated, see 6 |
| `memory_writer` | `LearningJobEnds` | violated, see 6 |
| `conversation` | `Conversation` with 3 inputs, 2 closings, 2 lifecycles, 2 editions: the properties below | holds, 1.9 million states |
| `auto_closed_told` | `AutoClosedIsTold` | violated, see 6 |
| `desk` | `Workflows`, `Routing`, `Sla`, `Incidents` and `Files`, one at a time | holds, 1.6 million states |
| `incident_reopened` | `ReopenedAfterClosing`, of `Incidents` with one ticket | violated, see 6 |

What each safety property says of the code, and why it may fail:

- `NoSilentDuplicate`: every generation MAX took, but the current one, was
  repeated by an operator who knew its outcome was open. It relates what MAX did
  to fencing in `record-outcome.ts`, the check after the upload in `send.ts` and
  the sweep; drop any of them and it breaks.
- `VerdictIsTrue`: `delivered` only for what MAX took, `failed` and `retry_wait`
  only for what it did not.
- `HeadOfLine`, `NoOvertaking`: rows go out one at a time and reach the chat in
  order; an unknown row holds the later ones back.
- `SettledForGood`: no late worker, sweep or operator touches a delivered or
  cancelled row.
- `MessageMirrorsDelivery`: seven statements in six files write both states.
- `WithinCap`: the provider works on at most `cap` calls, whatever becomes of
  gateway, replies and runs. It relates the provider, whom the code does not see,
  to the permits; it breaks if an unknown outcome frees its permit.
- `OneDispatch`: a step whose run was lost, recovered or overtaken is not asked
  again unless the provider refused it (`asked` counts; a refusal takes back one).
- `PermitsAccounted`: whatever the provider may work on has a permit, and a taken
  permit and its call name each other in the same state. A late `Settle` meets
  its call swept, written off, and its slot given to another call; it breaks if
  the permit is released by slot alone.
- `ImplementsCalls`: no late answer rewrites a settled row.
- `PermitComesBack`: as liveness; it breaks if the sweep forgets the permits.
- `AtMostOneCopy`, `OneUnconfirmedWrite`, `CopiesAreKnown`, `LearnedIsStored`:
  through crashes, recovered jobs that run twice, lost replies and a
  reconciliation next to the job, a record is sent once, the organization has
  one write of unknown fate, and a removal has the full list of copies.
- `OneOpenTicket`, `OpenMeansConsent`: new tickets, reopening and kept messages
  come to a client in any order, and so do old buttons, withdrawal and erasure.
- `CountsOnlyCurrent`: of several closings of a ticket only the present one counts
  as knowledge. `AnswersItsQuestion`: what is taken for a rating was written after
  that rating was asked, unless the broadcast of an incident asked over it.
  `RatingInTime`: a rating that came in time is not expired by the timer, however
  late the inbox gets to it.
- `ClosedInSilence`, `ClosedAsOrdered`: automatic and deferred closing keep their
  conditions although client, staff and delivery go on between their steps.
- `ErasedIsEmpty`: nothing comes back to an erased client, edits deferred before
  his erasure included.
- `ResultsAreCurrent`: what the model says is used only while it is about the
  ticket as it is, whichever runs overlap; a record that may answer others is
  about the present text.
- `ClockIsFair`: through pauses, releases, other targets and the switch the
  deadline has come exactly when the clock has run its target in working time.
  `ChecksAreScheduled`: the timer never forgets a running clock. `BreachIsTrue`:
  nothing is counted as breached that did not run over.
- `BlockIsExact`: blocking takes all of the employee's tickets and no others,
  although it lists them first.
- `NobodyLeftBehind`: a resolution reaches every ticket of its incident, through
  lost and overlapping runs, postponed tickets, reopening of tickets and of the
  incident. `ClosedOnce`: a run that no other overlaps closes a ticket only if its
  resolution has not closed it before, and never after the incident was opened
  again, whatever runs there were before it. Of runs that overlap neither is true:
  `incident_reopened` shows it of the second half.
- `WaitingFilesMove`: no file waits for a download or a scan that no job will do.

Some of these hold with an exception only, which the module states as a history
variable and section 6 explains: `reopened_off` and `closed_waiting` of `Sla`,
`slipped` of `Routing`, `excused`, `overtaken` and `beside` of `Incidents`, purged tickets
in `Files`, and kept messages and `before` in `AnswersItsQuestion`.

**Bounds.** Two rows give every relation between a row and one behind it; three
concurrent claims would need three rows to be *of the same client*, and the
claims of one row are exhausted by two workers with a crash, since a worker
starts over. `MaxRetriedAttempts = 1` lets a row go through first try, retry and
final failure; `MaxRetries = 1` gives one operator retry, which is enough for the
old and the new claim of a row to be in flight together. The kinds left out of a
run are those that take the same branches (`ticket` behaves as `cycle` without
the authorization check). The live run uses `MaxRetries = 0`: retries by an
operator are bounded, so they cannot stop the queue for ever, and cancelling
remains. In `Memory` two records are needed for the writer lock only; a mishap is
a crash or a job that is recovered while it still runs, and one of them already
makes two runs of a job overlap. `MaxAttempts` (6 in the code) is 1 or 2: the
jobs' failures are free choices, so more attempts only repeat steps. In `Gateway`
two steps are enough for one to take the slot the other has lost, `MaxTaken = 2`
lets a slot be taken while its former call is still being settled, and
`MaxRuns = 2` lets a second run ask what the first one asked. Nothing distinguishes
the steps of one job from those of two but whose run is current (two jobs of one
step, and three takings, were checked once and hold too). The cap of 10 to 15
becomes one or two, so that it is reached and changed.

In `Conversation` three inputs are a first message, a second event and an edit of
either, or the two presses and the text a rating takes; `Share` gives two texts and
two presses and one of each other kind, as no property tells a third apart.
`MaxRare = 2` bounds the steps that come seldom (policy, reply, wait, release,
incident, reopening, retention, erasure): every pair of them in any order, which is
what closing, reopening and purging need. Kinds `info` and `start` are left out of the
run: they do what `void` does. Two closings and two lifecycles show the second
against the first. In `Workflows` three claims of a job give two overlapping runs
and one after them, and two turns every pair of things that happen meanwhile;
one chunk has a checkpoint, more repeat it. In `Routing` two tickets compete for
one place (`Capacity = 1`), in `Incidents` two tickets of one incident and two
updates give an update before, during and after a resolution, and `PerRun = 2`
makes a run pause; two workers make two runs of a job overlap, and a third run
begins when one of them is over. In `Sla` days of four minutes and a week of three days (one
with a gap, one with two intervals, one off, a holiday and a moved working day)
hold every case of the calendar; eight minutes are two days and both targets, and ten days to search (3700 in the
code) hold every target. In
`Files` one death of a process or purge, with any number of failures, recoveries
and retries, and two processes.

`CHECK_DEADLOCK FALSE` in the runs of `Memory`, `Gateway`, `Conversation` and the
desk: once all records are removed, all steps asked, all inputs used up or the
turns taken, nothing is left to do. `Delivery` never stops (consent can always be granted), so
its deadlock check is on.

Each property of a passing run has a mutant in `PROJECT.json`: a plausible bug
in a mapped definition under which TLC finds the property violated, such as
`StillMine_NoGeneration`, `MarkStale_Retries` or `MayWrite_Again`.

## 4. Fairness

- `Delivery`: weak fairness of claiming, sending and recording by each worker and
  of the sweep. The poll loop runs for ever and the sweep is part of it; each
  request has a time limit, so a call of `deliver` that is not killed ends.
  Nothing is assumed of MAX (refusing for ever is allowed) nor of clients.
- `DiligentSpec` adds operators who cancel every unknown row *they can reach*, as
  `runbooks/monitoring.md` asks. Without them an unknown outcome rightly stays.
- `Memory`: weak fairness of each process's steps and of the recovery of
  abandoned jobs; strong fairness of starting each due job, because the scheduler
  publishes every due job again and again and the single worker of `memory-io` is
  free infinitely often; strong fairness of an operator's `memory-reconcile` and of
  its successful continuation. The store itself is under no obligation: a
  request may stay in flight for ever.
- `Gateway`: a gateway that is not killed goes on with its call (each request has
  a time limit), the provider ends what it works on, maintenance runs every
  minute, and operators resolve permits as the alert `AiPermitsUncertain` of
  `runbooks/monitoring.md` asks, once they have the evidence `permit-resolve`
  demands: `ResolvePermit` waits until the provider has ended that call. That is
  the one assumption `WithinCap` makes about people. Jobs need not be run.
- `Conversation` and the desk state safety only, and no fairness. That a ticket of
  a team is offered in the end was tried on `Routing` and does not follow from what
  the timers do: see 6, the fifty oldest.

## 5. The proofs

`tlapm M.tla` checks a module `M_proofs`. The theorems hold for every value of the
constants under the assumptions their modules name.

| module | theorem | property |
|---|---|---|
| `Delivery_proofs` | `TypeCorrect`, `FencingHolds` | `TypeOK`; `FencingInv`, the inductive invariant |
| | `AtMostOnce`, `TrueVerdicts` | `NoSilentDuplicate`, `VerdictIsTrue` |
| | `OneAtATime`, `InOrder` | `HeadOfLine`, `NoOvertaking` |
| | `SettledStays`, `MessagesMirror` | `SettledForGood`, `MessageMirrorsDelivery` |
| | `Refinement` | `ImplementsChannel` |
| `Gateway_proofs` | `TypeCorrect`, `BooksAreKept` | `TypeOK`; `GatewayInv`, the inductive invariant |
| | `EveryCallHasAPermit`, `AskedOnce`, `CapHolds` | `PermitsAccounted`, `OneDispatch`, `WithinCap` |
| | `Refinement` | `ImplementsCalls` |
| `Memory_proofs` | `TypeCorrect`, `KnowledgeIsKept` | `TypeOK`; `MemoryInv`, the inductive invariant |
| | `StoredOnce`, `OneWriter` | `AtMostOneCopy`, `OneUnconfirmedWrite` |
| | `ListIsComplete`, `LearnedHasItsCopy` | `CopiesAreKnown`, `LearnedIsStored` |
| `Conversation_proofs` | `OneTicketSafe`, `ConsentSafe` | `OneOpenTicket`, `OpenMeansConsent` |
| | `CountedSafe`, `ErasedSafe` | `CountsOnlyCurrent`, `ErasedIsEmpty` |
| | `RatingSafe`, `AnswersSafe` | `RatingInTime`, `AnswersItsQuestion` |
| | `SilenceSafe`, `OrderedSafe` | `ClosedInSilence`, `ClosedAsOrdered` |
| | `RowsTyped` | the types of the rows, without the bounds of what is counted |
| | `BroughtByInputs` | `Brought`: at most one ticket or kept message for each handled input |
| | `ConversationTyped` | `TypeOK`, with the bounds |
| `Desk_proofs` | `FilesMove` | `WaitingFilesMove` |
| | `BlockTakes` | `BlockIsExact` |
| | `OnceClosed`, `NobodyIsLeft` | `ClosedOnce`, `NobodyLeftBehind` |
| | `UsedIsCurrent` | `ResultsAreCurrent` |
| | `ClockFair`, `ChecksScheduled`, `BreachTrue` | `ClockIsFair`, `ChecksAreScheduled`, `BreachIsTrue` |
| | `BetweenIsWork`, `AddIsWork` | what business time computes, for every calendar |
| | `DeskTyped` | `TypeOK` of the five parts, with the bounds |

Each property is also checked by a passing run, which shows that the hypotheses
can be met. Every safety property of a passing run is stated by a theorem.

**Delivery.** `NoSilentDuplicate` is not inductive: it says nothing of a worker
that still holds an old generation and is about to send. `FencingInv` adds what
a worker may hold while its row moves on without it:

- `ClaimsAreFenced`: a generation belongs to one claim at most, and no history
  speaks of generations not handed out yet;
- `UnsentIsUnspent`: a claim that may still reach MAX has not done so, and if it is
  outdated an operator took its risk;
- `HeldRows`: while the current claim is held, its row is sending, unknown or
  cancelled, or queued again by an operator: so nobody can claim it anew
  behind the worker's back;
- `DecisionsAreTrue`: what a worker is about to record is what MAX did;
- `RequeuedIsSafe`: a queued row whose generation was taken had its risk taken;
- `RowsInOrder`, `UntouchedRows`: the order half, for rows no operator touched:
  every earlier row is settled before a later one gets a generation.

`Refinement` maps each action to a step of `Channel` or to a stutter: claiming is
`Offer`, a request that arrives is `Take`, recording is `Settle` or `Return`, sweep
and crash are stutters, cancelling and queueing in one transaction is `Edit`.

**Gateway** (permits are finitely many numbers, caps are natural numbers, there is
one at least). `GatewayInv` has, beside `TypeOK` and
`PermitsAccounted`:

- `ExecutionKnows`: an execution that is calling has its request out; where the
  provider works and the execution is over, the outcome is unknown or the
  execution is gone, so its permit is not freed by it;
- `AskedIsRecorded`: what was asked is in a row of `ai_calls`;
- `CapIsKept`: not more slots are taken than the cap, which is never lowered below
  what is taken.

`WithinCap` then follows by counting: the call of each slot is a different one, and
the provider works on calls that have a slot. `SettledRows` is written as a case
distinction for the provers' sake; it means what it meant.

**Memory** (no reason is called like another kind of job, a job has an attempt).
`MemoryInv` says of one record (`RecordInv`) where its copy may be, in terms of how
often it was sent, and that the writer lock is the record's while the copy is
under way; of one process (`ProcessInv`) what it may still believe of a record it
does not lock while it sends, waits, verifies or adopts; and that of two
processes with the same record only one is about to send (`OneSender`). The last one
carries the argument: a recovered job that runs twice gets to `send` once, since
the claim leaves a state that cannot be claimed again (`Claimed`).

**Conversation** (at least one input and one edition of the policy). The handlers
of an input work on one record, the client's rows `data`, as functions of it: so
the proof has one lemma per operator (`Accept`, `Open`, `Close`, `Withdraw`, `Erase`,
...), each saying that the operator keeps `Good(d)`, and the actions only put them
together. `Good` has:

- `OneOpen`, `WithConsent`, `Emptied`: the properties, over the record;
- `Cycled`: a ticket that is worked on has no cycle, one that waits for its rating has
  the last one; `Counted`: a closing that counts is its ticket's present cycle;
  `Messaged`, `Addressed`: what refers to tickets and cycles refers to those there are;
- `Asking`: while a rating is asked for, a pending input was received for it or was
  there when an incident's broadcast asked it (`before`); of the inputs received for
  one rating those that came after its expiry stand behind those that came before.
  Without the last part a late input, handled first, could end a rating while an
  answer in time is pending (`RatingInTime`, `AnswersItsQuestion`);
- `Heard`: while a ticket waits and its client has written, what he wrote is still
  pending, so the timer sees it (`ClosedInSilence`);
- `Ordered`, `Answering`: a job that may close its ticket has read it as it is, and has
  the delivered reply that ordered it (`ClosedAsOrdered`);
- `Handleable`: an input has what its kind needs.

Releasing the messages kept before consent folds `Accept` over them; that each step
keeps `Good` carries over to the whole by the least message where it would not.
TLC confirmed the parts on the run `conversation` before they were proved.

`TypeOK` of `Conversation` bounds how many tickets and kept messages there are and how
often a button was made. No step says so by itself: an input that waits for consent
is kept first and makes a ticket later, an erasure empties both. `Brought` counts
along: before the first input still to be handled, and after the last one, there
are fewer tickets and kept messages together than inputs, and fewer buttons of each
kind. One lemma per operator says how many it brings (`Brings`, one
at most for an input) or that it brings nothing (`Leaves`); `BroughtByInputs` is the
invariant, and `ConversationTyped` puts it together with `Good` and the counters of the
bounds (`BoundsAssumption`: they are natural numbers).

**Desk.** `Desk_proofs` proves the parts `Files` and `Sla` themselves. For the others it shows that
the instance of a module and the instance of its proofs are the same
(`SameRouting`, `SameIncidents`, `SameWorkflows`), and that a part that moves keeps its
invariant whatever the others began with.

- `FilesKept`: a job is enqueued once, so a file that still needs its scan has none
  yet, and a run that is over while it holds its job has left the file in another
  status.
- `RoutingInv`: while an employee is being blocked, what he works on was listed or
  slipped to him (`WorkIsListed`). The proof attempt showed `BlockIsExact` to be
  wrong as it was first stated ("all other tickets keep offers and assignee"):
  a ticket that was closed and reopened may keep an old offer, which blocking then
  takes back from it. Small instances take too few turns to see it. It now says
  that the ticket of another keeps everything but its offer.
- `IncidentsInv`: a member a run has behind it is excused or makes the run come back
  (`Behind`), which holds of each run by itself and so of those that overlap. Of two
  runs of a job the earlier one was overtaken and the later one began beside it, so
  a run that is alone has a list of which nobody was told and an update that is not
  finished (`Owned`), and a resolution that is not finished has its incident
  resolved (`Resolution`). The updates are a sequence that grows, so the lemmas about it come first.
- `WorkflowsInv`: what a run or a stored reply of learning is about is the present
  text, unless the closing was undone since (`Current`), and a closing that was
  undone is never learned from again. The same is then true of the snapshot, the
  checkpoints' replies and the record, at each step a transaction looks again.
  A run of triage is about a text not newer than the present one, and what it
  writes is written only while the text is the first.

- `ClocksKept`, of the row of `Sla`. First business time: `WorkBefore(cal, x)` is the number
  of working minutes before `x`, and by induction over the days and intervals
  `addBusinessTime` is the first instant by which the minutes have passed (`AddIsWork`),
  `businessMinutesBetween` the number of working minutes between two instants
  (`BetweenIsWork`): the two directions of counting agree, for every calendar. The
  invariant then says what deadlines were computed from (`ResponseSet`,
  `ResolutionSet`), that the working time since the start is what the clock has
  run and the pauses (`Measured`), that what ran over is noted and what was reached
  is stored (`Noted`, `Stored`), that nothing is set while SLA is off (`Unset`), and
  when the timer looks (`Scheduled`). `SlaAssumption` asks for calendars whose intervals are
  in order (`assertValidWeek`), for policies with both targets, the first not the larger
  (`assertValidPolicies`), for times the search over days spans (`MaxTime`), and
  that it finds each target with the pauses added (`EnoughTime`). The last one is no check of the
  code: in a calendar with next to no working time `addBusinessTime` gives up after
  3700 days and counts minutes as they pass, and then `ClockIsFair` is not claimed.

`DeskTyped` adds to these invariants what they do not say of the types: in each
module of proofs `Bounds` has the counters and what was noted (`Routing_proofs`,
`Incidents_proofs`, `Workflows_proofs`), for instance that a job that is not failed was
retried less often than it may be. `Sla` needs the most: `Lasted` says that the clock of
the solution has run no longer, and a ticket has waited no longer, than time has
passed. Of a ticket that goes on this follows from `Measured`, since no more
working time than time passes; a closed ticket keeps what it had
(`SameRunStep`). `BoundsAssumption` asks that the bounds are natural numbers and that a
job has an attempt.

An induction over numbers is done by the least number where the statement fails
(`LeastNat`, `Induct`), and a recursive function exists as the graph built up to
its bound (`Recursion`), because the library's theorems take operators.

**Only model-checked.** Liveness (`QueueMoves`, `PermitComesBack`, `RemovalEnds`): it is
outside the prover.

## 6. Where code and documents disagree

1. **`unknown_prompt`**: a row without a message (consent prompt, help, history,
   button answer) whose outcome is unknown cannot be resolved: `resolve.ts` finds
   deliveries by message only, and everything behind it for this client waits.
   `runbooks/monitoring.md` says to resolve it in the system status page.
2. **`incident_reopened`**: `maintenance.ts:72` recovers a job by the age of its claim,
   and nothing stops a run that was only slow. The row of the job is fenced, the
   tickets are not: `sendToTicket` looks at link, ticket and consent, but neither at
   the delivery there is nor at `finished_at` nor at the incident. So one run of a
   resolution finishes it, `reopenIncident`, which refuses while "the incident is
   still closing tickets", lets the incident be opened again, and the other run
   closes a ticket of the open incident as resolved. In the same way it closes
   again a ticket the staff have reopened (`ClosedOnce` is about runs that do not
   overlap).
3. **`memory_erasure`**: a write whose answer is lost, a withdrawal, and a second
   run of the writing job, which overwrites `write_unknown` by `invalidated`: the
   removal then does not look for the unconfirmed copy, reports success, and the
   copy stays in the store.
4. **`memory_writer`**: an unconfirmed write that never arrived keeps the writer
   lock for good; every other record's job is deferred without limit, and
   `memory-reconcile` cannot free it as long as no copy is found.

5. **`auto_closed_told`**: the message that tells a client that his ticket was
   closed for his silence is queued with the rating cycle of a closed ticket, and
   a row with a cycle is claimed only while the ticket waits for a rating: it is
   always cancelled. `close-ticket.ts:76` passes the cycle only if a rating is asked.

Met while modelling, with no run of their own. Where a property would fail for
one of them it has an exception, named here in parentheses.

*Conversation.*
- A client with an open ticket who accepts a new edition of the policy gets a new
  consent revision, and every command on that ticket is refused from then on.
- A ticket purged by retention gets content back when its client edits an old
  message (`revise-message.ts` looks at the consent of the client only).
- A deferred edit may be applied after a newer edit of the same message.
- A deferred close closes the ticket although the client answered after the reply
  was delivered.
- Withdrawal leaves offers and running SLA clocks on the tickets it closes.
- Messages kept until consent count as answers of a rating when they are released
  into a ticket that is being rated (`AnswersItsQuestion` leaves them out).
- The broadcast of an incident closes, half an hour after the resolution, over
  messages of the client that are not processed yet (`broadcast.ts:73,137`). If it
  asks for a rating, a "5" he wrote before becomes the rating, and other words an
  invalid answer: `accept-rating-input.ts:27` looks at the end of the rating only,
  not at its beginning (`before` in `AnswersItsQuestion`).
- An edit by the client just after the closing cancels the question for a rating.

*Sla.*
- `closeForIncident` clears `waiting_since` before it stops the clocks, so the pause
  is not counted and a ticket may be stored as breached (mark `closed_waiting`).
- A ticket reopened while SLA is switched off keeps its minutes and gets no check
  when it is switched on again (mark `reopened_off`). The same may happen to a ticket
  created or reopened just while `saveSlaConfig` switches SLA off, since it takes no
  lock of the clients; `Switch` of `Sla` is a step of its own and does not show it.
- An overdue ticket that is put to wait and closed from there is not stored as
  breached.

*Routing.*
- A command that had found an employee active may give him a ticket after he was
  blocked (`slipped`).
- `offerWaitingTickets` lists the fifty oldest tickets, also those of teams without
  a free employee: fifty of them keep all others from being offered.
- The rule of a ticket is applied by the timer without looking again whether it
  was routed meanwhile; a released ticket goes on waiting for its client.

*Incidents.*
- A new ticket is matched to an incident by a read without a lock and attached
  later: it may be attached to one that is over, and then waits there without
  triage (`excused`).
- Two overlapping runs of a broadcast add a second message that stays `queued`; what
  they do to tickets is `incident_reopened`.
- `unlinkTicket` cancels the queued broadcasts of every incident of the ticket, and
  leaves `delivery_state` of their messages `queued`: every other cancellation writes
  both (`MessageMirrorsDelivery` leaves broadcasts out).
- `reopenIncident` does not look whether a ticket belongs to another open incident.
- A failed `incident_broadcast` job cannot be tried again (`admin-queries.ts:46`
  lists five other kinds; `runbooks/monitoring.md:70` says "retry"): its update is
  never finished, and its incident cannot be reopened.
- A thousand tickets at the head of the list that are gone or skipped starve the
  rest: each run looks at a thousand and begins anew.

*Workflows.*
- An edit of any message of the client cancels a pending triage, though the ticket
  stays `pending` until the deadline.
- A triage that fails records its event twice.
- A slow, overtaken run of learning may set `learned` back to `persistence_pending`
  (`memorize.ts:177`).

*Files.*
- `scan.ts` writes its verdict by id: a draft cancelled or a file purged during its
  scan becomes clean again.
- A purge during a download or upload leaves the object, which nothing removes
  later; so does an upload whose row could not be written. A slot that is still
  `uploading` at an erasure can be filled afterwards.
- An administrator who retries the failed download of a purged ticket brings the
  file back, and if it had been scanned before, it stays in quarantine, because a
  scan is enqueued once (`WaitingFilesMove` leaves purged tickets out).
- An upload whose process dies stays `receiving` and cannot be cancelled.

*Others.* `runbooks/deploy.md` lets a lost volume of the knowledge base be
refilled, while `reconcile.ts` refuses records that count as persisted; the same
page admits that writes acknowledged less than half a second before a stop are
lost, which `Memory` leaves out. `ARCHITECTURE.md` says "Lock order is client →
ticket → closure everywhere"; retention locks tickets only, and blocking an
employee locks him before the clients of his tickets: a deadlock is broken by
PostgreSQL and the transaction is tried again up to three times (`db.ts`).

## 7. Abstractions and limits

- `Gateway`: what 408, 429, 500, 502 and 503 say is believed, as the code does: the
  provider is not working on that request. Between admission and request
  (`preparing`) less than three minutes pass; later a gateway may be as slow as it
  likes. The quota of an organization, the request digest and the deadline of a
  triage only turn calls down.
- Time: `due_at`, backoff, the 550 ms per client and the org-wide pacing only
  delay a step, so any step may happen at any time after it is enabled.
- Whether a guarded row is still authorized (`isStillAuthorized`) is a free choice
  in `Delivery`, except that a personal message without consent never is;
  `Authorized` of `Conversation` has the condition itself.
- Two rows with the same `logical_key` are not inserted; that is the callers'
  affair. Synthetic clients (demo data) never reach MAX and are left out.
- Contents (texts, attachments, keyboards, encryption) are left out. That a
  record is `eligible` only filters what is recalled. The store loses nothing.
- `Conversation`: one client, so nothing about the order between clients. An
  unknown outcome of a delivery stays `sending`. Reminders may be sent again and
  again; a comment to a rating is left out. Commands with an outdated version are
  refused, so they are no steps. Of the broadcast of an incident there is the
  closing; whether its run waits for what is in flight is in `Incidents`, so here it
  may always close. The message `incident_closed` carries no cycle and is left out.
- `Workflows`: what prompts contain and replies say is a choice (good, bad, tools,
  failed, uncertain). One of the two jobs is followed per behaviour.
- `Routing`: rules are a free choice of a team, the three strategies of offering a
  free choice of a free employee.
- `Sla`: minutes are the unit, so rounding of pauses to seconds is not seen, and all
  days are equally long, so neither are time zones that change their offset. What a
  stage makes beside being stored (escalation, notices) is left out. `saveSlaConfig`
  is one step between the others and leaves calendar and targets as they are. A run of a
  command and of the timer take the row in turn.
- `Incidents`: a spike is a number of tickets.
- Not modelled at all. *Notifications and event stream*: the cursor is drawn under
  the row of the organization (`emit`), so events commit in its order, and readers
  only read. *Reports, exports*: read-only SQL, spreadsheets and text. *Staff
  sessions, demo access, HTTP routing, start-up*: checks of signatures, short-lived
  rows and plumbing. *Dictionaries, macros, templates, business profile, settings*:
  each write is one statement under a version. *Loader of test data*: it writes
  finished rows.
- Liveness is only model-checked.

## 8. The plan

1. *(done)* `Channel`, `Delivery` and their proofs; `Memory`; `Calls`, `Gateway`.
2. *(done)* `Conversation`; `Workflows`, `Routing`, `Sla`, `Incidents`, `Files`.
3. *(done)* Proofs: `Delivery`, `Gateway`, `Memory`, `Conversation`, and of the desk
   `Files`, `Routing`, `Incidents`, `Workflows`, `Sla`.
4. *(done)* Proofs of `TypeOK` of `Conversation` and of the desk with their bounds.
