------------------------------- MODULE Memory -------------------------------
(***************************************************************************)
(* The knowledge base: how modules/ai/memory writes the record of a closed *)
(* ticket to the external store (agentmemory) and takes it out again.      *)
(*                                                                         *)
(* The store is written by HTTP requests whose outcome may be lost, so a   *)
(* write goes through claim, request, record and verification, one writer  *)
(* of the organization at a time.  Removal is a job of its own that has to *)
(* find out first whether an unconfirmed write arrived.  Both kinds of job *)
(* run in the queue memory-io, one at a time; an operator may run          *)
(* `memory-reconcile` next to them.  Processes crash, an abandoned job is  *)
(* recovered, tickets are reopened and consents withdrawn at any moment.   *)
(*                                                                         *)
(* Abstracted: that a record is `eligible` (client-confirmed) only filters *)
(* what is recalled; backoff only delays a step; MEMORY_ENABLED is on.     *)
(* The store loses nothing by itself; a request that is lost is one that   *)
(* stays in flight for ever.                                               *)
(***************************************************************************)
EXTENDS Naturals, FiniteSets

CONSTANTS
    Records,        \* memory_records, each of one closure
    None,           \* no record
    Reasons,        \* why a closure is invalidated: reopened, withdrawn, ...
    MaxAttempts,    \* MAX_ATTEMPTS of job-failure.ts (6)
    MaxMishaps      \* bound: mishaps, and jobs so slow that they are recovered

ASSUME NoneAssumption    == None \notin Records
ASSUME ReasonsAssumption == "memory" \notin Reasons /\ "cli" \notin Reasons
ASSUME BoundsAssumption  == MaxAttempts \in Nat \ {0} /\ MaxMishaps \in Nat

VARIABLES
    record,      \* state, upstream_id and write_generation of memory_records
    live,        \* the closure counts: not invalidated, current, consented
    learned,     \* closures.learning_status = 'learned'
    holder,      \* memory_writer.holder, as a set of at most one record
    refs,        \* memory_external_refs
    forgotten,   \* those with deleted_at
    store,       \* the external store: the copies of a record it holds
    inflight,    \* copies sent to the store, not landed yet
    sent,        \* history: how often a record was sent
    job,         \* the jobs 'memory' and 'memory_delete' of a record
    run,         \* what each process is doing
    mishaps      \* bound: number of mishaps and slow jobs

vars == <<record, live, learned, holder, refs, forgotten, store, inflight, sent, job, run, mishaps>>

-----------------------------------------------------------------------------
\* The worker process takes jobs, the operator's command line only reconciles.
Processes == {"worker", "cli"}
JobKinds  == {"memory"} \cup Reasons
Settled   == {"persisted", "deleted"}
Unsure    == {"writing", "write_unknown"}

RecordStates == {"none", "pending", "persisted_index_pending", "invalidated"} \cup Settled \cup Unsure
JobStates    == {"none", "pending", "running", "done", "unknown", "failed"}
Phases == {"idle", "claim", "send", "wait", "verify", "finalize", "release",
           "list", "adopt", "refs", "forget", "mark", "delete"}

\* What a process has in hand: its job, the generation it claimed, the copy it
\* works on and the copies it has yet to deal with.
Idle == [phase |-> "idle", rec |-> None, kind |-> "cli", generation |-> 0, copy |-> 0, known |-> {}]

\* A copy of a record is the number of the request that wrote it, 0 is none.
TypeOK ==
    /\ record \in [Records -> [state : RecordStates, upstream : Nat, generation : Nat]]
    /\ live \in [Records -> BOOLEAN]
    /\ learned \in [Records -> BOOLEAN]
    /\ holder \subseteq Records
    /\ refs \in [Records -> SUBSET Nat]
    /\ forgotten \in [Records -> SUBSET Nat]
    /\ store \in [Records -> SUBSET Nat]
    /\ inflight \in [Records -> SUBSET Nat]
    /\ sent \in [Records -> Nat]
    /\ job \in [Records -> [JobKinds -> [state : JobStates, failures : Nat]]]
    /\ run \in [Processes -> [phase : Phases, rec : Records \cup {None}, kind : JobKinds \cup {"cli"},
                              generation : Nat, copy : Nat, known : SUBSET Nat]]
    /\ mishaps \in Nat

Init ==
    /\ record = [r \in Records |-> [state |-> "none", upstream |-> 0, generation |-> 0]]
    /\ live = [r \in Records |-> TRUE]
    /\ learned = [r \in Records |-> FALSE]
    /\ holder = {}
    /\ refs = [r \in Records |-> {}]
    /\ forgotten = [r \in Records |-> {}]
    /\ store = [r \in Records |-> {}]
    /\ inflight = [r \in Records |-> {}]
    /\ sent = [r \in Records |-> 0]
    /\ job = [r \in Records |-> [k \in JobKinds |-> [state |-> "none", failures |-> 0]]]
    /\ run = [p \in Processes |-> Idle]
    /\ mishaps = 0

External == <<store, inflight, sent>>
Lists    == <<refs, forgotten>>

-----------------------------------------------------------------------------
(* The rest of the application.                                            *)

\* storeResolution: learning stores its result and queues the job 'memory'.
Memorize(r) ==
    /\ record[r].state = "none"
    /\ live[r]
    /\ record' = [record EXCEPT ![r].state = "pending"]
    /\ job' = [job EXCEPT ![r]["memory"].state = "pending"]
    /\ UNCHANGED <<live, learned, holder, Lists, External, run, mishaps>>

\* invalidateLearning: the closure stops counting and a removal is queued,
\* once per record and reason.  It does not touch the job 'memory'.
Invalidate(r, reason) ==
    /\ live[r] \/ record[r].state # "none"
    /\ job[r][reason].state = "none"
    /\ live' = [live EXCEPT ![r] = FALSE]
    /\ learned' = [learned EXCEPT ![r] = FALSE]
    /\ job' = IF record[r].state = "none" THEN job
              ELSE [job EXCEPT ![r][reason].state = "pending"]
    /\ UNCHANGED <<record, holder, Lists, External, run, mishaps>>

\* An administrator repeats a removal that has failed for good.
RetryFailedJob(r, reason) ==
    /\ job[r][reason].state = "failed"
    /\ job' = [job EXCEPT ![r][reason].state = "pending"]
    /\ UNCHANGED <<record, live, learned, holder, Lists, External, run, mishaps>>

-----------------------------------------------------------------------------
(* Jobs and processes (job-runner.ts, job-failure.ts, maintenance.ts).     *)

FirstPhase(r, k) ==
    IF k = "memory" THEN "claim"
    ELSE IF record[r].state \in Unsure THEN "list" ELSE "refs"

\* The worker takes a job; a removal begins by reading the record's state.
StartJob(r, k) ==
    /\ run["worker"].phase = "idle"
    /\ job[r][k].state = "pending"
    /\ job' = [job EXCEPT ![r][k].state = "running"]
    /\ run' = [run EXCEPT !["worker"] = [Idle EXCEPT !.phase = FirstPhase(r, k), !.rec = r, !.kind = k]]
    /\ UNCHANGED <<record, live, learned, holder, Lists, External, mishaps>>

\* memory-reconcile <id>, run by an operator on an unconfirmed write.
StartReconcile(r) ==
    /\ run["cli"].phase = "idle"
    /\ record[r].state \in Unsure
    /\ run' = [run EXCEPT !["cli"] = [Idle EXCEPT !.phase = "list", !.rec = r]]
    /\ UNCHANGED <<record, live, learned, holder, Lists, External, job, mishaps>>

\* Mutant of After: the outcome itself becomes the state of the job.
After_Outcome(j, outcome) == [state |-> outcome, failures |-> j.failures]

\* The state of a job after a run of it: "busy" is deferred without counting,
\* "unknown" waits for an operator, "error" is retried a number of times.
\* Failures matter up to MaxAttempts only.
After(j, outcome) ==
    LET failures == IF j.failures = MaxAttempts THEN j.failures ELSE j.failures + 1
    IN  CASE outcome = "ok"      -> [state |-> "done", failures |-> 0]
          [] outcome = "busy"    -> [j EXCEPT !.state = "pending"]
          [] outcome = "unknown" -> [state |-> "unknown", failures |-> failures]
          [] outcome = "error"   ->
                [state |-> IF failures = MaxAttempts THEN "failed" ELSE "pending", failures |-> failures]

\* The process is through; a job that was recovered meanwhile stays as it is.
Finish(p, outcome) ==
    LET r == run[p].rec
        k == run[p].kind
    IN  /\ run' = [run EXCEPT ![p] = Idle]
        /\ job' = IF k \in JobKinds /\ job[r][k].state = "running"
                  THEN [job EXCEPT ![r][k] = After(@, outcome)]
                  ELSE job

Go(p, phase) ==
    /\ run' = [run EXCEPT ![p].phase = phase]
    /\ UNCHANGED job

\* persistMemory returns: to its job, or to the removal that called it.
Persisted(p) ==
    IF run[p].kind \in Reasons
    THEN /\ run' = [run EXCEPT ![p] = [Idle EXCEPT !.phase = "refs", !.rec = run[p].rec, !.kind = run[p].kind]]
         /\ UNCHANGED job
    ELSE Finish(p, "ok")

Crash(p) ==
    /\ run[p].phase # "idle"
    /\ mishaps < MaxMishaps
    /\ mishaps' = mishaps + 1
    /\ run' = [run EXCEPT ![p] = Idle]
    /\ UNCHANGED <<record, live, learned, holder, Lists, External, job>>

WorkedOn(r, k) == run["worker"].rec = r /\ run["worker"].kind = k

\* Mutant of RecoverJob: only a job that is still worked on is recovered.
RecoverJob_SlowOnly(r, k) ==
    /\ job[r][k].state = "running"
    /\ WorkedOn(r, k) /\ mishaps < MaxMishaps
    /\ mishaps' = mishaps + 1
    /\ job' = [job EXCEPT ![r][k].state = "pending"]
    /\ UNCHANGED <<record, live, learned, holder, Lists, External, run>>

\* recoverAbandonedWork: a job has run for too long; its process died, or it
\* is just slow.
RecoverJob(r, k) ==
    /\ job[r][k].state = "running"
    /\ \/ ~WorkedOn(r, k) /\ UNCHANGED mishaps
       \/ WorkedOn(r, k) /\ mishaps < MaxMishaps /\ mishaps' = mishaps + 1
    /\ job' = [job EXCEPT ![r][k].state = "pending"]
    /\ UNCHANGED <<record, live, learned, holder, Lists, External, run>>

-----------------------------------------------------------------------------
(* Writing a record (persist.ts).                                          *)

Release(r) == holder' = holder \ {r}

\* Mutants of MayWrite: another record may be writing; an unconfirmed write is
\* repeated.
MayWrite_Concurrently(r) == record[r].state \notin Unsure

MayWrite_Again(r) == holder \subseteq {r}

MayWrite(r) ==
    /\ record[r].state \notin Unsure
    /\ holder \subseteq {r}

\* claimWrite: nothing to do, no longer wanted, not now, or claimed.
ClaimWrite(p) ==
    LET r == run[p].rec IN
    /\ run[p].phase = "claim"
    /\ \/ /\ record[r].state \in Settled
          /\ Persisted(p)
          /\ UNCHANGED <<record, holder>>
       \/ /\ record[r].state \notin Settled
          /\ ~live[r]
          /\ record' = [record EXCEPT ![r].state = "invalidated"]
          /\ Persisted(p)
          /\ UNCHANGED holder
       \/ /\ record[r].state \notin Settled
          /\ live[r]
          /\ ~MayWrite(r)
          /\ Finish(p, IF record[r].state \in Unsure THEN "unknown" ELSE "busy")
          /\ UNCHANGED <<record, holder>>
       \/ /\ record[r].state \notin Settled
          /\ live[r]
          /\ MayWrite(r)
          /\ holder' = {r}
          /\ record' = [record EXCEPT
                ![r].state = IF record[r].upstream = 0 THEN "writing" ELSE "persisted_index_pending",
                ![r].generation = @ + 1]
          /\ run' = [run EXCEPT ![p].phase = IF record[r].upstream = 0 THEN "send" ELSE "verify",
                                ![p].generation = record[r].generation + 1,
                                ![p].copy = record[r].upstream]
          /\ UNCHANGED job
    /\ UNCHANGED <<live, learned, Lists, External, mishaps>>

Send(p) ==
    LET r == run[p].rec IN
    /\ run[p].phase = "send"
    /\ sent' = [sent EXCEPT ![r] = @ + 1]
    /\ inflight' = [inflight EXCEPT ![r] = @ \cup {sent[r] + 1}]
    /\ run' = [run EXCEPT ![p].phase = "wait", ![p].copy = sent[r] + 1]
    /\ UNCHANGED <<record, live, learned, holder, Lists, store, job, mishaps>>

\* The store handles a request, whether or not anybody still waits for it.
Land(r, c) ==
    /\ c \in inflight[r]
    /\ inflight' = [inflight EXCEPT ![r] = @ \ {c}]
    /\ store' = [store EXCEPT ![r] = @ \cup {c}]
    /\ UNCHANGED <<record, live, learned, holder, Lists, sent, job, run, mishaps>>

\* The claim is still the record's latest.
Current(p) == record[run[p].rec].generation = run[p].generation

\* Mutant of RecordUpstream: the copy is not put on the list.
RecordUpstream_Unlisted(p) ==
    /\ run[p].phase = "wait"
    /\ run[p].copy \in store[run[p].rec]
    /\ record' = [record EXCEPT ![run[p].rec].upstream = run[p].copy,
                               ![run[p].rec].state = "persisted_index_pending"]
    /\ Go(p, "verify")
    /\ UNCHANGED <<live, learned, holder, Lists, External, mishaps>>

\* The store has answered with the id of the copy, and it is recorded.
RecordUpstream(p) ==
    LET r == run[p].rec
        c == run[p].copy
    IN
    /\ run[p].phase = "wait"
    /\ c \in store[r]
    /\ record' = IF Current(p)
                 THEN [record EXCEPT ![r].upstream = c, ![r].state = "persisted_index_pending"]
                 ELSE record
    /\ refs' = [refs EXCEPT ![r] = @ \cup {c}]
    /\ Go(p, "verify")
    /\ UNCHANGED <<live, learned, holder, forgotten, External, mishaps>>

Verify(p) ==
    /\ run[p].phase = "verify"
    /\ run[p].copy \in store[run[p].rec]
    /\ Go(p, "finalize")
    /\ UNCHANGED <<record, live, learned, holder, Lists, External, mishaps>>

\* Mutant of MayLearn: a closure that was invalidated meanwhile counts again.
MayLearn_Anyway(r) == r \in Records

\* The closure still counts when the write is finalized.
MayLearn(r) == live[r]

\* The transaction after the read-back; the store may or may not have indexed
\* the copy by then.  Without an index entry the job is tried again.
FinalizeRecord(p) ==
    LET r == run[p].rec IN
    /\ run[p].phase = "finalize"
    /\ \E indexed \in BOOLEAN :
        /\ record' = IF Current(p)
                     THEN [record EXCEPT ![r].state = IF indexed THEN "persisted"
                                                      ELSE "persisted_index_pending"]
                     ELSE record
        /\ learned' = [learned EXCEPT ![r] = IF MayLearn(r) THEN indexed ELSE @]
        /\ IF indexed THEN Persisted(p) ELSE Finish(p, "error")
    /\ Release(r)
    /\ UNCHANGED <<live, Lists, External, mishaps>>

\* No answer, a late one or one that makes no sense: the write may have
\* happened.  releaseAfterFailure notes it and keeps the writer lock.
WriteUnknown(p) ==
    LET r == run[p].rec IN
    /\ run[p].phase = "wait"
    /\ record' = IF Current(p) THEN [record EXCEPT ![r].state = "write_unknown"] ELSE record
    /\ \E outcome \in {"error", "unknown"} : Finish(p, outcome)
    /\ UNCHANGED <<live, learned, holder, Lists, External, mishaps>>

\* The id is known but a later step fails: the copy cannot be recorded, is not
\* read back, or the store does not answer.  The writer lock is released.
PersistFails(p) ==
    LET r == run[p].rec IN
    /\ \/ run[p].phase = "wait" /\ run[p].copy \in store[r]
       \/ run[p].phase \in {"verify", "finalize"}
    /\ Release(r)
    /\ Finish(p, "error")
    /\ UNCHANGED <<record, live, learned, Lists, External, mishaps>>

-----------------------------------------------------------------------------
(* Finding an unconfirmed write (reconcile.ts) and removing (remove.ts).   *)

ListCopies(p) ==
    LET r == run[p].rec IN
    /\ run[p].phase = "list"
    /\ \/ /\ record[r].state \notin Unsure
          /\ Finish(p, "error")
       \/ /\ record[r].state \in Unsure
          /\ store[r] = {}
          /\ Finish(p, "unknown")
       \/ /\ record[r].state \in Unsure
          /\ store[r] # {}
          /\ run' = [run EXCEPT ![p].phase = "adopt", ![p].known = store[r]]
          /\ UNCHANGED job
    /\ UNCHANGED <<record, live, learned, holder, Lists, External, mishaps>>

\* The transaction of reconcileMemory, followed by persistMemory.
Adopt(p) ==
    LET r == run[p].rec IN
    /\ run[p].phase = "adopt"
    /\ refs' = [refs EXCEPT ![r] = @ \cup run[p].known]
    /\ \E c \in run[p].known :
        record' = [record EXCEPT ![r].upstream = c, ![r].state = "persisted_index_pending"]
    /\ Release(r)
    /\ run' = [run EXCEPT ![p].phase = "claim", ![p].known = {}]
    /\ UNCHANGED <<live, learned, forgotten, External, job, mishaps>>

SelectRefs(p) ==
    LET known == refs[run[p].rec] \ forgotten[run[p].rec] IN
    /\ run[p].phase = "refs"
    /\ run' = [run EXCEPT ![p].known = known,
                          ![p].phase = IF known = {} THEN "delete" ELSE "forget"]
    /\ UNCHANGED <<record, live, learned, holder, Lists, External, job, mishaps>>

\* forget, and the read that confirms it.
Forget(p) ==
    LET r == run[p].rec IN
    /\ run[p].phase = "forget"
    /\ \E c \in run[p].known :
        /\ store' = [store EXCEPT ![r] = @ \ {c}]
        /\ run' = [run EXCEPT ![p].phase = "mark", ![p].copy = c]
    /\ UNCHANGED <<record, live, learned, holder, Lists, inflight, sent, job, mishaps>>

MarkForgotten(p) ==
    LET r == run[p].rec
        c == run[p].copy
        rest == run[p].known \ {c}
    IN
    /\ run[p].phase = "mark"
    /\ forgotten' = [forgotten EXCEPT ![r] = @ \cup {c}]
    /\ run' = [run EXCEPT ![p].known = rest, ![p].copy = 0,
                          ![p].phase = IF rest = {} THEN "delete" ELSE "forget"]
    /\ UNCHANGED <<record, live, learned, holder, refs, External, job, mishaps>>

MarkDeleted(p) ==
    /\ run[p].phase = "delete"
    /\ record' = [record EXCEPT ![run[p].rec].state = "deleted"]
    /\ Finish(p, "ok")
    /\ UNCHANGED <<live, learned, holder, Lists, External, mishaps>>

\* A request or a statement fails where nothing has to be undone.
Fails(p) ==
    /\ run[p].phase \in {"claim", "list", "adopt", "refs", "forget", "mark", "delete"}
    /\ Finish(p, "error")
    /\ UNCHANGED <<record, live, learned, holder, Lists, External, mishaps>>

-----------------------------------------------------------------------------
Step(p) ==
    \/ ClaimWrite(p) \/ Send(p) \/ RecordUpstream(p) \/ Verify(p) \/ FinalizeRecord(p)
    \/ WriteUnknown(p) \/ PersistFails(p)
    \/ ListCopies(p) \/ Adopt(p) \/ SelectRefs(p) \/ Forget(p) \/ MarkForgotten(p)
    \/ MarkDeleted(p) \/ Fails(p)

Next ==
    \/ \E r \in Records :
        \/ Memorize(r) \/ StartReconcile(r)
        \/ \E reason \in Reasons : Invalidate(r, reason) \/ RetryFailedJob(r, reason)
        \/ \E k \in JobKinds : StartJob(r, k) \/ RecoverJob(r, k)
        \/ \E c \in inflight[r] : Land(r, c)
    \/ \E p \in Processes : Step(p) \/ Crash(p)

Spec == Init /\ [][Next]_vars

\* A process that is not killed finishes what it started (every request has a
\* time limit); abandoned jobs are recovered; the scheduler publishes every
\* due job again and again, so none is passed over for ever; operators keep
\* running memory-reconcile on unconfirmed writes, and its requests do not fail
\* every time.
Fairness ==
    /\ \A p \in Processes : WF_vars(Step(p))
    /\ SF_vars(ListCopies("cli")) /\ SF_vars(Adopt("cli"))
    /\ \A r \in Records : /\ SF_vars(StartReconcile(r))
                          /\ \A k \in JobKinds : SF_vars(StartJob(r, k)) /\ WF_vars(RecoverJob(r, k))

FairSpec == Spec /\ Fairness

-----------------------------------------------------------------------------
(* Safety.                                                                 *)

\* ai.test.ts, 'does not repeat an unknown upstream memory write': the store
\* is asked at most once to keep a record, through crashes, recovered jobs,
\* lost replies and a reconciliation next to the job.
AtMostOneCopy == \A r \in Records : sent[r] <= 1

\* memory_writer: at any time at most one record has a write in the store's
\* hands whose fate nobody knows.
OneUnconfirmedWrite ==
    \A r, s \in Records : (inflight[r] # {} /\ inflight[s] # {}) => r = s

\* Every copy of a record that counts as written is on the list that its
\* removal works from.
CopiesAreKnown ==
    \A r \in Records :
        record[r].state \in {"persisted_index_pending", "persisted"} => store[r] \subseteq refs[r]

\* A closure counts as learned only while the store has its copy.
LearnedIsStored ==
    \A r \in Records : learned[r] => record[r].upstream \in store[r]

\* remove.ts checks that each copy is gone; README: expired and withdrawn
\* records of the knowledge base are erased.
DoneMeansErased ==
    \A r \in Records : \A reason \in Reasons :
        job[r][reason].state = "done" => store[r] = {}

-----------------------------------------------------------------------------
(* Liveness.                                                               *)

\* A queued removal is carried out or ends where operators see it.
RemovalEnds ==
    \A r \in Records : \A reason \in Reasons :
        (job[r][reason].state = "pending")
            ~> (job[r][reason].state \in {"done", "unknown", "failed"})

\* release-gates.md: a closed ticket produces a learning record.  The job that
\* writes it ends, and is not deferred for ever.
LearningJobEnds ==
    \A r \in Records :
        (job[r]["memory"].state = "pending")
            ~> (job[r]["memory"].state \in {"done", "unknown", "failed"})
=============================================================================
