---------------------------- MODULE Memory_proofs ----------------------------
(***************************************************************************)
(* Proofs about Memory for every set of records and of reasons to remove   *)
(* one, and for any number of attempts, crashes and slow jobs.             *)
(***************************************************************************)
EXTENDS Memory, TLAPS

USE NoneAssumption, ReasonsAssumption, BoundsAssumption

-----------------------------------------------------------------------------
(* The invariant.                                                          *)

Removing == {"refs", "forget", "mark", "delete"}

\* A record that was sent, or is about to be, may not be claimed for another
\* request: it is unsure, has its copy, or is not wanted.
Claimed(r) == ~live[r] \/ record[r].state \in Unsure \/ record[r].upstream # 0

\* Of one record: it is sent once, the copy is either in flight, and then the
\* writer is the record's, or it has landed; the id that is recorded is that of
\* the copy, which is listed, and stored as long as the closure counts.
RecordInv(r) ==
    /\ sent[r] <= 1
    /\ store[r] \cup inflight[r] \subseteq 1 .. sent[r]
    /\ store[r] \cap inflight[r] = {}
    /\ sent[r] = 1 => Claimed(r)
    /\ inflight[r] # {} => holder = {r}
    /\ record[r].state \in {"persisted_index_pending", "persisted"} => record[r].upstream # 0
    /\ record[r].upstream # 0 =>
          /\ record[r].upstream = 1 /\ sent[r] = 1 /\ inflight[r] = {} /\ 1 \in refs[r]
          /\ live[r] => 1 \in store[r]
    /\ learned[r] => live[r] /\ record[r].upstream # 0
    /\ \A reason \in Reasons : job[r][reason].state # "none" => ~live[r]

\* Of one process: what it does rests on the state of its record, also after
\* others have worked on it.
ProcessInv(p) ==
    run[p].phase # "idle" =>
        LET r == run[p].rec IN
        /\ r \in Records
        /\ run[p].kind \in Reasons \/ run[p].phase \in Removing => ~live[r]
        /\ run[p].phase = "send" => sent[r] = 0 /\ holder = {r} /\ Claimed(r)
        /\ run[p].phase = "wait" => sent[r] = 1 /\ run[p].copy = 1
        /\ run[p].phase \in {"send", "wait"} => Current(p) \/ record[r].upstream # 0
        /\ run[p].phase \in {"verify", "finalize"} => record[r].upstream # 0
        /\ run[p].phase = "adopt" =>
              /\ run[p].known = {1} /\ sent[r] = 1 /\ inflight[r] = {}
              /\ live[r] => 1 \in store[r]

\* Nobody sends next to another.
OneSender ==
    \A p, q \in Processes :
        run[p].phase = "send" /\ run[q].phase = "send" /\ run[p].rec = run[q].rec => p = q

MemoryInv ==
    /\ TypeOK
    /\ \A r \in Records : RecordInv(r)
    /\ \A p \in Processes : ProcessInv(p)
    /\ OneSender

-----------------------------------------------------------------------------
(* What processes and jobs look like after a step.                         *)

RecordRows == [state : RecordStates, upstream : Nat, generation : Nat]
JobTables  == [JobKinds -> [state : JobStates, failures : Nat]]
ProcessStates ==
    [phase : Phases, rec : Records \cup {None}, kind : JobKinds \cup {"cli"},
     generation : Nat, copy : Nat, known : SUBSET Nat]

Outcomes == {"ok", "busy", "unknown", "error"}

(* A record, a job, or what a process is doing, of which one field is      *)
(* assigned, has its type.                                                 *)
LEMMA RecordTyped ==
  ASSUME TypeOK, NEW r \in Records, NEW state \in RecordStates, NEW n \in Nat
  PROVE  /\ [record EXCEPT ![r].state = state] \in [Records -> RecordRows]
         /\ [record EXCEPT ![r].upstream = n, ![r].state = state] \in [Records -> RecordRows]
         /\ [record EXCEPT ![r].state = state, ![r].generation = n] \in [Records -> RecordRows]
<1>1. record \in [Records -> RecordRows] /\ record[r] \in RecordRows
  BY DEF TypeOK, RecordRows
<1>2. /\ [record[r] EXCEPT !.state = state] \in RecordRows
      /\ [record[r] EXCEPT !.upstream = n, !.state = state] \in RecordRows
      /\ [record[r] EXCEPT !.state = state, !.generation = n] \in RecordRows
  BY <1>1 DEF RecordRows
<1> QED
  BY <1>1, <1>2

LEMMA JobTyped ==
  ASSUME TypeOK, NEW r \in Records, NEW k \in JobKinds, NEW x \in JobStates
  PROVE  [job EXCEPT ![r][k].state = x] \in [Records -> JobTables]
<1>1. job \in [Records -> JobTables] /\ job[r] \in JobTables
  BY DEF TypeOK, JobTables
<1>2. job[r][k] \in [state : JobStates, failures : Nat]
  BY <1>1 DEF JobTables
<1>3. [job[r][k] EXCEPT !.state = x] \in [state : JobStates, failures : Nat]
  BY <1>2
<1>4. [job[r] EXCEPT ![k].state = x] \in JobTables
  BY <1>1, <1>3 DEF JobTables
<1> QED
  BY <1>1, <1>4

LEMMA ProcessTyped ==
  ASSUME NEW x \in ProcessStates, NEW phase \in Phases, NEW generation \in Nat,
         NEW copy \in Nat, NEW known \in SUBSET Nat
  PROVE  /\ [x EXCEPT !.phase = phase] \in ProcessStates
         /\ [x EXCEPT !.phase = phase, !.copy = copy] \in ProcessStates
         /\ [x EXCEPT !.phase = phase, !.known = known] \in ProcessStates
         /\ [x EXCEPT !.phase = phase, !.generation = generation, !.copy = copy] \in ProcessStates
         /\ [x EXCEPT !.phase = phase, !.known = known, !.copy = copy] \in ProcessStates
BY DEF ProcessStates

(* A job that ran has a state of a job afterwards (job-failure.ts).        *)
LEMMA AfterIsAState ==
  ASSUME NEW j \in [state : JobStates, failures : Nat], NEW outcome \in Outcomes
  PROVE  After(j, outcome) \in [state : JobStates, failures : Nat]
<1> DEFINE failures == IF j.failures = MaxAttempts THEN j.failures ELSE j.failures + 1
<1>1. failures \in Nat
  OBVIOUS
<1>2. CASE outcome = "ok"
  BY <1>2 DEF After, JobStates
<1>3. CASE outcome = "busy"
  BY <1>3 DEF After, JobStates
<1>4. CASE outcome = "unknown"
  BY <1>1, <1>4 DEF After, JobStates
<1>5. CASE outcome = "error"
  BY <1>1, <1>5 DEF After, JobStates
<1> QED
  BY <1>2, <1>3, <1>4, <1>5 DEF Outcomes

(* Ending a run, or going on to the removal that called persistMemory,     *)
(* touches one process and at most a job that runs.                        *)
LEMMA Through ==
  ASSUME MemoryInv, NEW p \in Processes, run[p].phase # "idle",
         Persisted(p) \/ \E outcome \in Outcomes : Finish(p, outcome)
  PROVE  /\ run' \in [Processes -> ProcessStates] /\ job' \in [Records -> JobTables]
         /\ \A q \in Processes \ {p} : run'[q] = run[q]
         /\ run'[p].phase # "idle" =>
               /\ run'[p].phase = "refs" /\ run'[p].rec = run[p].rec
               /\ run'[p].kind = run[p].kind /\ run[p].kind \in Reasons
         /\ \A r \in Records : \A k \in Reasons :
               job'[r][k].state # "none" => job[r][k].state # "none"
<1> DEFINE r == run[p].rec
           k == run[p].kind
<1>1. /\ run \in [Processes -> ProcessStates] /\ job \in [Records -> JobTables] /\ r \in Records
      /\ run[p] \in ProcessStates
  BY DEF MemoryInv, TypeOK, ProcessInv, ProcessStates, JobTables
<1>2. Idle \in ProcessStates /\ Idle.phase = "idle"
  BY DEF Idle, ProcessStates, Phases
<1>3. ASSUME NEW outcome \in Outcomes, Finish(p, outcome)
      PROVE  /\ run' = [run EXCEPT ![p] = Idle]
             /\ job' \in [Records -> JobTables]
             /\ \A s \in Records : \A l \in Reasons :
                   job'[s][l].state # "none" => job[s][l].state # "none"
  <2>1. CASE k \in JobKinds /\ job[r][k].state = "running"
    <3>1. After(job[r][k], outcome) \in [state : JobStates, failures : Nat]
      BY <1>1, <2>1, AfterIsAState DEF JobTables
    <3>2. job' = [job EXCEPT ![r][k] = After(job[r][k], outcome)]
      BY <1>3, <2>1 DEF Finish
    <3>3. job' \in [Records -> JobTables]
      BY <1>1, <2>1, <3>1, <3>2 DEF JobTables
    <3>4. ASSUME NEW s \in Records, NEW l \in JobKinds, <<s, l>> # <<r, k>>
          PROVE  job'[s][l] = job[s][l]
      BY <1>1, <3>2, <3>4 DEF JobTables
    <3> QED
      BY <1>3, <2>1, <3>3, <3>4 DEF Finish, JobKinds
  <2>2. CASE ~(k \in JobKinds /\ job[r][k].state = "running")
    BY <1>1, <1>3, <2>2 DEF Finish
  <2> QED
    BY <2>1, <2>2
<1>4. CASE \E outcome \in Outcomes : Finish(p, outcome)
  BY <1>1, <1>2, <1>3, <1>4
<1>5. CASE Persisted(p) /\ k \in Reasons
  <2>1. run' = [run EXCEPT ![p] = [Idle EXCEPT !.phase = "refs", !.rec = r, !.kind = k]] /\ job' = job
    BY <1>5 DEF Persisted
  <2>2. [Idle EXCEPT !.phase = "refs", !.rec = r, !.kind = k] \in ProcessStates
    BY <1>1 DEF Idle, ProcessStates, Phases
  <2> QED
    BY <1>1, <1>5, <2>1, <2>2 DEF Idle
<1>6. CASE Persisted(p) /\ k \notin Reasons
  BY <1>1, <1>2, <1>3, <1>6 DEF Persisted, Outcomes
<1> QED
  BY <1>4, <1>5, <1>6

-----------------------------------------------------------------------------
(* What a step may do to a record without disturbing those who work on it. *)

\* Nothing that RecordInv speaks of changes.
Same(s) ==
    /\ record'[s] = record[s] /\ live'[s] = live[s] /\ learned'[s] = learned[s]
    /\ refs'[s] = refs[s] /\ store'[s] = store[s]
    /\ inflight'[s] = inflight[s] /\ sent'[s] = sent[s]
    /\ holder = {s} => holder' = {s}
    /\ \A reason \in Reasons : job'[s][reason].state # "none" => job[s][reason].state # "none"

\* Nobody can be at work on a record that is not claimed, but to remove it;
\* the writer is kept for one that is about to be sent.
Undisturbed(s) ==
    /\ live'[s] => live[s]
    /\ Claimed(s) =>
          /\ sent'[s] = sent[s]
          /\ record[s].upstream # 0 => record'[s].upstream # 0
          /\ record'[s].generation = record[s].generation \/ record'[s].upstream # 0
          /\ inflight[s] = {} => inflight'[s] = {}
          /\ live'[s] /\ 1 \in store[s] => 1 \in store'[s]
          /\ sent[s] = 0 /\ holder = {s} => holder' = {s} /\ Claimed(s)'

(* A record that a step leaves alone stays in order.                       *)
LEMMA RecordKept ==
  ASSUME NEW s \in Records, RecordInv(s), Same(s)
  PROVE  RecordInv(s)' /\ Undisturbed(s)
<1>1. RecordInv(s)'
  BY DEF RecordInv, Same, Claimed
<1>2. Undisturbed(s)
  BY DEF Same, Undisturbed, Claimed
<1> QED
  BY <1>1, <1>2

(* A process goes on as before when its record is not disturbed.           *)
LEMMA ProcessKept ==
  ASSUME MemoryInv, NEW q \in Processes, run'[q] = run[q],
         run[q].phase # "idle" => Undisturbed(run[q].rec)
  PROVE  ProcessInv(q)'
<1> DEFINE s == run[q].rec
<1> SUFFICES ASSUME run[q].phase # "idle" PROVE ProcessInv(q)'
  BY DEF ProcessInv
<1>1. ProcessInv(q) /\ s \in Records /\ RecordInv(s) /\ Undisturbed(s)
  BY DEF MemoryInv, ProcessInv
<1>2. CASE Claimed(s)
  BY <1>1, <1>2 DEF ProcessInv, RecordInv, Undisturbed, Current, Removing
<1>3. CASE ~Claimed(s)
  BY <1>1, <1>3 DEF ProcessInv, RecordInv, Undisturbed, Claimed, Removing
<1> QED
  BY <1>2, <1>3

(* A step of one process on one record keeps the invariant when that       *)
(* record and that process are in order afterwards.                        *)
LEMMA StepKeeps ==
  ASSUME MemoryInv, TypeOK', NEW p \in Processes, NEW r \in Records,
         \A q \in Processes \ {p} : run'[q] = run[q],
         \A s \in Records \ {r} : Same(s),
         Undisturbed(r), RecordInv(r)',
         run'[p] = run[p] \/ ProcessInv(p)',
         run'[p] = run[p] \/ run'[p].phase # "send"
  PROVE  MemoryInv'
<1>1. ASSUME NEW s \in Records PROVE RecordInv(s)' /\ Undisturbed(s)
  BY RecordKept DEF MemoryInv
<1>2. ASSUME NEW q \in Processes PROVE ProcessInv(q)'
  <2>1. CASE run'[q] = run[q]
    <3>1. run[q].phase # "idle" => Undisturbed(run[q].rec)
      BY <1>1 DEF MemoryInv, ProcessInv
    <3> QED
      BY <2>1, <3>1, ProcessKept
  <2>2. CASE run'[q] # run[q]
    BY <2>2
  <2> QED
    BY <2>1, <2>2
<1>3. OneSender'
  BY DEF MemoryInv, OneSender
<1> QED
  BY <1>1, <1>2, <1>3 DEF MemoryInv

(* A process that is through with its run rests on nothing but that its    *)
(* record is not wanted, if it goes on to remove it.                       *)
LEMMA ThroughKeeps ==
  ASSUME MemoryInv, NEW p \in Processes, run[p].phase # "idle",
         Persisted(p) \/ \E outcome \in Outcomes : Finish(p, outcome),
         live' = live
  PROVE  ProcessInv(p)' /\ run'[p].phase # "send"
<1>1. run[p].rec \in Records /\ (run[p].kind \in Reasons => ~live[run[p].rec])
  BY DEF MemoryInv, ProcessInv
<1>2. run'[p].phase # "idle" =>
         /\ run'[p].phase = "refs" /\ run'[p].rec = run[p].rec
         /\ run'[p].kind = run[p].kind /\ run[p].kind \in Reasons
  BY Through
<1> QED
  BY <1>1, <1>2 DEF ProcessInv

-----------------------------------------------------------------------------
(* The steps.                                                              *)

(* The request goes out, of the one process that claimed (persist.ts).     *)
LEMMA SendStep ==
  ASSUME MemoryInv, NEW p \in Processes, Send(p)
  PROVE  MemoryInv'
<1> DEFINE r == run[p].rec
<1>1. /\ run[p].phase = "send" /\ r \in Records
      /\ sent[r] = 0 /\ holder = {r} /\ Claimed(r) /\ (Current(p) \/ record[r].upstream # 0)
      /\ store[r] = {} /\ inflight[r] = {} /\ record[r].upstream = 0
      /\ run[p].kind \in Reasons => ~live[r]
      /\ TypeOK
  BY DEF MemoryInv, Send, ProcessInv, RecordInv
<1>2. /\ sent' = [sent EXCEPT ![r] = 1]
      /\ inflight' = [inflight EXCEPT ![r] = {1}]
      /\ run' = [run EXCEPT ![p].phase = "wait", ![p].copy = 1]
      /\ UNCHANGED <<record, live, learned, holder, refs, forgotten, store, job, mishaps>>
  BY <1>1 DEF Send, Lists, TypeOK
<1>3. /\ sent'[r] = 1 /\ inflight'[r] = {1}
      /\ run'[p].phase = "wait" /\ run'[p].copy = 1 /\ run'[p].rec = r
      /\ run'[p].kind = run[p].kind /\ run'[p].generation = run[p].generation
      /\ \A q \in Processes \ {p} : run'[q] = run[q]
      /\ \A s \in Records \ {r} : Same(s)
  BY <1>1, <1>2 DEF TypeOK, Same
<1>4. TypeOK'
  <2>1. run' \in [Processes -> ProcessStates]
    <3>1. run \in [Processes -> ProcessStates] /\ run[p] \in ProcessStates
      BY <1>1 DEF TypeOK, ProcessStates
    <3>2. [run[p] EXCEPT !.phase = "wait", !.copy = 1] \in ProcessStates
      BY <3>1, ProcessTyped DEF Phases
    <3> QED
      BY <1>2, <3>1, <3>2
  <2>2. sent' \in [Records -> Nat] /\ inflight' \in [Records -> SUBSET Nat]
    BY <1>1, <1>2 DEF TypeOK
  <2> QED
    BY <1>1, <1>2, <2>1, <2>2 DEF TypeOK, ProcessStates
<1>5. ASSUME NEW s \in Records PROVE RecordInv(s)'
  <2>1. CASE s = r
    BY <1>1, <1>2, <1>3, <2>1 DEF MemoryInv, RecordInv, Claimed
  <2>2. CASE s # r
    BY <1>3, <2>2, RecordKept DEF MemoryInv
  <2> QED
    BY <2>1, <2>2
<1>6. ASSUME NEW q \in Processes PROVE ProcessInv(q)'
  <2>1. CASE q = p
    BY <1>1, <1>2, <1>3, <2>1 DEF ProcessInv, Current, Removing
  <2>2. CASE q # p /\ run[q].phase # "idle" /\ run[q].rec = r
    <3>1. ProcessInv(q) /\ run'[q] = run[q] /\ run[q].phase \notin {"send", "wait", "adopt", "verify", "finalize"}
      BY <1>1, <1>3, <2>2 DEF MemoryInv, ProcessInv, OneSender
    <3> QED
      BY <1>2, <2>2, <3>1 DEF ProcessInv
  <2>3. CASE q # p /\ (run[q].phase # "idle" => run[q].rec # r)
    <3>1. run[q].phase # "idle" => Undisturbed(run[q].rec)
      BY <1>3, <2>3, RecordKept DEF MemoryInv, ProcessInv
    <3> QED
      BY <1>3, <2>3, <3>1, ProcessKept
  <2> QED
    BY <2>1, <2>2, <2>3
<1>7. OneSender'
  BY <1>3 DEF MemoryInv, OneSender
<1> QED
  BY <1>4, <1>5, <1>6, <1>7 DEF MemoryInv

(* A closed ticket's answer is queued (storeResolution).                   *)
LEMMA MemorizeStep ==
  ASSUME MemoryInv, NEW r \in Records, Memorize(r)
  PROVE  MemoryInv'
<1> USE DEF Lists, External
<1>1. TypeOK /\ RecordInv(r) /\ live[r] /\ record[r].state = "none"
  BY DEF MemoryInv, Memorize
<1>2. /\ \A s \in Records \ {r} : record'[s] = record[s]
      /\ record'[r].state = "pending" /\ record'[r].upstream = record[r].upstream
      /\ record'[r].generation = record[r].generation
      /\ \A s \in Records, k \in Reasons : job'[s][k] = job[s][k]
  BY <1>1 DEF Memorize, TypeOK, JobKinds
<1>3. TypeOK'
  <2>1. record' \in [Records -> RecordRows]
    BY <1>1, RecordTyped DEF Memorize, RecordStates
  <2>2. job' \in [Records -> JobTables]
    BY <1>1, JobTyped DEF Memorize, JobKinds, JobStates
  <2> QED
    BY <1>1, <2>1, <2>2 DEF Memorize, TypeOK, RecordRows, JobTables
<1>4. \A s \in Records \ {r} : Same(s)
  BY <1>2 DEF Memorize, Same
<1>5. Undisturbed(r) /\ RecordInv(r)'
  BY <1>1, <1>2 DEF Memorize, Undisturbed, RecordInv, Claimed, Unsure
<1> QED
  BY <1>3, <1>4, <1>5, StepKeeps DEF Memorize, Processes

(* The closure stops counting and a removal is queued, at any moment       *)
(* (invalidateLearning).                                                   *)
LEMMA InvalidateStep ==
  ASSUME MemoryInv, NEW r \in Records, NEW reason \in Reasons, Invalidate(r, reason)
  PROVE  MemoryInv'
<1> USE DEF Lists, External
<1>1. TypeOK /\ RecordInv(r)
  BY DEF MemoryInv
<1>2. /\ \A s \in Records \ {r} : live'[s] = live[s] /\ learned'[s] = learned[s] /\ job'[s] = job[s]
      /\ live'[r] = FALSE /\ learned'[r] = FALSE
  BY <1>1 DEF Invalidate, TypeOK
<1>3. TypeOK'
  <2>1. job' \in [Records -> JobTables]
    BY <1>1, JobTyped DEF Invalidate, TypeOK, JobTables, JobKinds, JobStates
  <2> QED
    BY <1>1, <2>1 DEF Invalidate, TypeOK, JobTables
<1>4. \A s \in Records \ {r} : Same(s)
  BY <1>2 DEF Invalidate, Same
<1>5. Undisturbed(r) /\ RecordInv(r)'
  BY <1>1, <1>2 DEF Invalidate, Undisturbed, RecordInv, Claimed
<1> QED
  BY <1>3, <1>4, <1>5, StepKeeps DEF Invalidate, Processes

(* What happens to jobs alone: a removal that failed is repeated, and a job *)
(* that has run for too long is recovered.                                 *)
LEMMA JobStep ==
  ASSUME MemoryInv, NEW r \in Records, NEW k \in JobKinds,
         (k \in Reasons /\ RetryFailedJob(r, k)) \/ RecoverJob(r, k)
  PROVE  MemoryInv'
<1> USE DEF Lists, External
<1>1. TypeOK /\ RecordInv(r) /\ job[r][k].state # "none"
  BY DEF MemoryInv, RetryFailedJob, RecoverJob
<1>2. /\ job' = [job EXCEPT ![r][k].state = "pending"]
      /\ mishaps' \in Nat
      /\ UNCHANGED <<record, live, learned, holder, refs, forgotten, store, inflight, sent, run>>
  BY <1>1 DEF RetryFailedJob, RecoverJob, TypeOK
<1>3. /\ \A s \in Records, l \in JobKinds : <<s, l>> # <<r, k>> => job'[s][l] = job[s][l]
      /\ \A s \in Records, l \in JobKinds : job'[s][l].state # "none" => job[s][l].state # "none"
  BY <1>1, <1>2 DEF TypeOK
<1>4. TypeOK'
  <2>1. job' \in [Records -> JobTables]
    BY <1>1, <1>2, JobTyped DEF JobStates
  <2> QED
    BY <1>1, <1>2, <2>1 DEF TypeOK, JobTables
<1>5. \A s \in Records : Same(s)
  BY <1>2, <1>3 DEF Same, JobKinds
<1>6. Undisturbed(r) /\ RecordInv(r)'
  BY <1>1, <1>5, RecordKept
<1> QED
  BY <1>2, <1>4, <1>5, <1>6, StepKeeps DEF Processes

(* The store handles a request, when nobody may be waiting any more.       *)
LEMMA LandStep ==
  ASSUME MemoryInv, NEW r \in Records, NEW c \in inflight[r], Land(r, c)
  PROVE  MemoryInv'
<1> USE DEF Lists
<1>1. TypeOK /\ RecordInv(r) /\ sent[r] \in Nat
  BY DEF MemoryInv, TypeOK
<1>2. c = 1 /\ inflight[r] = {1} /\ sent[r] = 1
  BY <1>1 DEF RecordInv
<1>3. /\ inflight' = [inflight EXCEPT ![r] = {}]
      /\ store' = [store EXCEPT ![r] = @ \cup {1}]
      /\ UNCHANGED <<record, live, learned, holder, refs, forgotten, sent, job, run, mishaps>>
  BY <1>1, <1>2 DEF Land
<1>4. TypeOK'
  BY <1>1, <1>3 DEF TypeOK
<1>5. \A s \in Records \ {r} : Same(s)
  BY <1>1, <1>3 DEF TypeOK, Same
<1>6. inflight'[r] = {} /\ store'[r] = store[r] \cup {1}
  BY <1>1, <1>3 DEF TypeOK
<1>7. Undisturbed(r) /\ RecordInv(r)'
  BY <1>1, <1>2, <1>3, <1>6 DEF Undisturbed, RecordInv, Claimed
<1> QED
  BY <1>3, <1>4, <1>5, <1>7, StepKeeps DEF Processes

(* The worker takes a job, or an operator starts a reconciliation: a       *)
(* removal begins only for a closure that does not count any more.         *)
LEMMA StartStep ==
  ASSUME MemoryInv, NEW r \in Records,
         (\E k \in JobKinds : StartJob(r, k)) \/ StartReconcile(r)
  PROVE  MemoryInv'
<1> USE DEF Lists, External
<1>1. TypeOK /\ RecordInv(r)
  BY DEF MemoryInv
<1>2. UNCHANGED <<record, live, learned, holder, refs, forgotten, store, inflight, sent, mishaps>>
  BY DEF StartJob, StartReconcile
<1>3. ASSUME NEW k \in JobKinds, StartJob(r, k)
      PROVE  MemoryInv'
  <2>1. /\ job[r][k].state = "pending"
        /\ job' = [job EXCEPT ![r][k].state = "running"]
        /\ run' = [run EXCEPT !["worker"] = [Idle EXCEPT !.phase = FirstPhase(r, k), !.rec = r, !.kind = k]]
    BY <1>3 DEF StartJob
  <2>2. [Idle EXCEPT !.phase = FirstPhase(r, k), !.rec = r, !.kind = k] \in ProcessStates
    BY DEF FirstPhase, Idle, ProcessStates, Phases
  <2>3. /\ \A q \in Processes \ {"worker"} : run'[q] = run[q]
        /\ run'["worker"].phase = FirstPhase(r, k)
        /\ run'["worker"].rec = r /\ run'["worker"].kind = k
        /\ run' \in [Processes -> ProcessStates]
    BY <1>1, <2>1, <2>2 DEF TypeOK, Processes, Idle, ProcessStates
  <2>4. \A s \in Records, l \in JobKinds : job'[s][l].state # "none" => job[s][l].state # "none"
    BY <1>1, <2>1 DEF TypeOK
  <2>5. TypeOK'
    <3>1. job' \in [Records -> JobTables]
      BY <1>1, <2>1, JobTyped DEF JobStates
    <3> QED
      BY <1>1, <1>2, <2>3, <3>1 DEF TypeOK, ProcessStates, JobTables
  <2>6. \A s \in Records : Same(s)
    BY <1>2, <2>4 DEF Same, JobKinds
  <2>7. Undisturbed(r) /\ RecordInv(r)'
    BY <1>1, <2>6, RecordKept
  <2>8. ProcessInv("worker")'
    <3>1. k \in Reasons => ~live[r]
      BY <1>1, <2>1 DEF RecordInv
    <3> QED
      BY <1>2, <2>3, <3>1 DEF ProcessInv, FirstPhase, JobKinds, Removing
  <2>9. run'["worker"].phase # "send"
    BY <2>3 DEF FirstPhase
  <2> QED
    BY <2>3, <2>5, <2>6, <2>7, <2>8, <2>9, StepKeeps DEF Processes
<1>4. CASE StartReconcile(r)
  <2>1. run' = [run EXCEPT !["cli"] = [Idle EXCEPT !.phase = "list", !.rec = r]] /\ job' = job
    BY <1>4 DEF StartReconcile
  <2>2. [Idle EXCEPT !.phase = "list", !.rec = r] \in ProcessStates
    BY DEF Idle, ProcessStates, Phases
  <2>3. /\ \A q \in Processes \ {"cli"} : run'[q] = run[q]
        /\ run'["cli"].phase = "list" /\ run'["cli"].rec = r /\ run'["cli"].kind = "cli"
        /\ run' \in [Processes -> ProcessStates]
    BY <1>1, <2>1, <2>2 DEF TypeOK, Processes, Idle, ProcessStates
  <2>4. TypeOK'
    BY <1>1, <1>2, <2>1, <2>3 DEF TypeOK, ProcessStates
  <2>5. \A s \in Records : Same(s)
    BY <1>2, <2>1 DEF Same
  <2>6. Undisturbed(r) /\ RecordInv(r)'
    BY <1>1, <2>5, RecordKept
  <2>7. ProcessInv("cli")'
    BY <1>2, <2>3 DEF ProcessInv, Removing
  <2> QED
    BY <2>3, <2>4, <2>5, <2>6, <2>7, StepKeeps DEF Processes
<1> QED
  BY <1>3, <1>4

(* A process dies, at any point.                                           *)
LEMMA CrashStep ==
  ASSUME MemoryInv, NEW p \in Processes, Crash(p)
  PROVE  MemoryInv'
<1> USE DEF Lists, External
<1>0. PICK r \in Records : r = run[p].rec
  BY DEF Crash, MemoryInv, ProcessInv
<1>1. /\ TypeOK
      /\ UNCHANGED <<record, live, learned, holder, refs, forgotten, store, inflight, sent, job>>
      /\ run' = [run EXCEPT ![p] = Idle] /\ mishaps' \in Nat
  BY DEF Crash, MemoryInv, ProcessInv, TypeOK
<1>2. /\ \A q \in Processes \ {p} : run'[q] = run[q]
      /\ run'[p].phase = "idle" /\ run' \in [Processes -> ProcessStates]
  <2>1. Idle \in ProcessStates /\ Idle.phase = "idle"
    BY DEF Idle, ProcessStates, Phases
  <2> QED
    BY <1>1, <2>1 DEF TypeOK, ProcessStates
<1>3. TypeOK'
  BY <1>1, <1>2 DEF TypeOK, ProcessStates
<1>4. \A s \in Records : Same(s)
  BY <1>1 DEF Same
<1>5. Undisturbed(r) /\ RecordInv(r)'
  BY <1>1, <1>4, RecordKept DEF MemoryInv
<1>6. ProcessInv(p)'
  BY <1>2 DEF ProcessInv
<1> QED
  BY <1>1, <1>2, <1>3, <1>4, <1>5, <1>6, StepKeeps

(* Claiming (claimWrite).                                                  *)
LEMMA ClaimWriteStep ==
  ASSUME MemoryInv, NEW p \in Processes, ClaimWrite(p)
  PROVE  MemoryInv'
<1> USE DEF Lists, External
<1>0. PICK r \in Records : r = run[p].rec
  BY DEF MemoryInv, ProcessInv, ClaimWrite
<1>1. /\ TypeOK /\ RecordInv(r) /\ run[p].phase = "claim"
      /\ (run[p].kind \in Reasons => ~live[r])
      /\ UNCHANGED <<live, learned, refs, forgotten, store, inflight, sent, mishaps>>
  BY <1>0 DEF MemoryInv, ProcessInv, ClaimWrite
<1>2. CASE /\ Persisted(p) \/ \E outcome \in Outcomes : Finish(p, outcome)
           /\ UNCHANGED <<record, holder>>
  <2>1. TypeOK'
    BY <1>1, <1>2, Through DEF TypeOK, JobTables, ProcessStates
  <2>2. \A s \in Records : Same(s)
    BY <1>1, <1>2, Through DEF Same
  <2>3. Undisturbed(r) /\ RecordInv(r)'
    BY <1>1, <2>2, RecordKept
  <2> QED
    BY <1>1, <1>2, <2>1, <2>2, <2>3, Through, ThroughKeeps, StepKeeps
<1>3. CASE /\ ~live[r] /\ Persisted(p) /\ UNCHANGED holder
           /\ record' = [record EXCEPT ![r].state = "invalidated"]
  <2>1. /\ record' \in [Records -> RecordRows]
        /\ \A s \in Records \ {r} : record'[s] = record[s]
        /\ record'[r].state = "invalidated" /\ record'[r].upstream = record[r].upstream
        /\ record'[r].generation = record[r].generation
    <3>1. record' \in [Records -> RecordRows]
      BY <1>1, <1>3, RecordTyped DEF RecordStates
    <3> QED
      BY <1>1, <1>3, <3>1 DEF TypeOK
  <2>2. TypeOK'
    BY <1>0, <1>1, <1>3, <2>1, Through DEF TypeOK, RecordRows, JobTables, ProcessStates
  <2>3. \A s \in Records \ {r} : Same(s)
    BY <1>1, <1>3, <2>1, Through DEF Same
  <2>4. \A reason \in Reasons : job'[r][reason].state # "none" => job[r][reason].state # "none"
    BY <1>1, <1>3, Through
  <2>5. Undisturbed(r) /\ RecordInv(r)'
    BY <1>1, <1>3, <2>1, <2>4 DEF RecordInv, Undisturbed, Claimed
  <2> QED
    BY <1>1, <1>3, <2>2, <2>3, <2>5, Through, ThroughKeeps, StepKeeps
<1>4. CASE /\ record[r].state \notin Settled /\ live[r] /\ MayWrite(r)
           /\ holder' = {r} /\ job' = job
           /\ record' = [record EXCEPT
                ![r].state = IF record[r].upstream = 0 THEN "writing" ELSE "persisted_index_pending",
                ![r].generation = @ + 1]
           /\ run' = [run EXCEPT ![p].phase = IF record[r].upstream = 0 THEN "send" ELSE "verify",
                                 ![p].generation = record[r].generation + 1,
                                 ![p].copy = record[r].upstream]
  <2> DEFINE state == IF record[r].upstream = 0 THEN "writing" ELSE "persisted_index_pending"
             phase == IF record[r].upstream = 0 THEN "send" ELSE "verify"
  <2>1. /\ record[r].generation \in Nat /\ record[r].upstream \in Nat
        /\ record' \in [Records -> RecordRows]
        /\ \A s \in Records \ {r} : record'[s] = record[s]
        /\ record'[r].state = state /\ record'[r].upstream = record[r].upstream
        /\ record'[r].generation = record[r].generation + 1
    <3>1. record \in [Records -> RecordRows] /\ record[r] \in RecordRows
      BY <1>1 DEF TypeOK, RecordRows
    <3>2. state \in RecordStates /\ record[r].generation + 1 \in Nat
      BY <3>1 DEF RecordStates, RecordRows, Unsure
    <3>3. record' = [record EXCEPT ![r].state = state, ![r].generation = record[r].generation + 1]
      BY <1>4, <3>1 DEF RecordRows
    <3>4. record' \in [Records -> RecordRows]
      BY <1>1, <3>2, <3>3, RecordTyped
    <3> QED
      BY <3>1, <3>3, <3>4 DEF RecordRows
  <2>2. /\ run' \in [Processes -> ProcessStates]
        /\ \A q \in Processes \ {p} : run'[q] = run[q]
        /\ run'[p].phase = phase /\ run'[p].rec = r /\ run'[p].kind = run[p].kind
        /\ run'[p].generation = record[r].generation + 1
    <3>1. run \in [Processes -> ProcessStates] /\ run[p] \in ProcessStates
      BY <1>1 DEF TypeOK, ProcessStates
    <3>2. [run[p] EXCEPT !.phase = phase, !.generation = record[r].generation + 1,
                         !.copy = record[r].upstream] \in ProcessStates
      <4>1. phase \in Phases /\ record[r].generation + 1 \in Nat
        BY <2>1 DEF Phases
      <4> HIDE DEF phase
      <4> QED
        BY <2>1, <3>1, <4>1, ProcessTyped
    <3> QED
      BY <1>0, <1>4, <3>1, <3>2 DEF ProcessStates
  <2>3. TypeOK'
    <3>1. /\ record' \in [Records -> [state : RecordStates, upstream : Nat, generation : Nat]]
          /\ run' \in [Processes -> [phase : Phases, rec : Records \cup {None}, kind : JobKinds \cup {"cli"},
                                     generation : Nat, copy : Nat, known : SUBSET Nat]]
      BY <2>1, <2>2 DEF RecordRows, ProcessStates
    <3> QED
      BY <1>1, <1>4, <3>1 DEF TypeOK
  <2>4. \A s \in Records \ {r} : Same(s)
    BY <1>1, <1>4, <2>1 DEF Same, MayWrite
  <2>5. record[r].upstream = 0 => ~Claimed(r) /\ sent[r] = 0 /\ inflight[r] = {}
    BY <1>1, <1>4 DEF Claimed, MayWrite, RecordInv, TypeOK
  <2>6. Undisturbed(r) /\ RecordInv(r)'
    BY <1>1, <1>4, <2>1, <2>5 DEF RecordInv, Undisturbed, Claimed, Unsure
  <2>7. ProcessInv(p)'
    BY <1>1, <1>4, <2>1, <2>2, <2>5 DEF ProcessInv, Claimed, Unsure, Current, Removing
  <2>8. CASE record[r].upstream # 0
    BY <2>2, <2>3, <2>4, <2>6, <2>7, <2>8, StepKeeps
  <2>9. CASE record[r].upstream = 0
    <3>1. ASSUME NEW q \in Processes \ {p}, run[q].phase = "send" PROVE run[q].rec # r
      BY <2>5, <2>9, <3>1 DEF MemoryInv, ProcessInv
    <3>2. OneSender'
      BY <2>2, <3>1 DEF MemoryInv, OneSender
    <3>3. ASSUME NEW s \in Records PROVE RecordInv(s)' /\ Undisturbed(s)
      BY <2>4, <2>6, RecordKept DEF MemoryInv
    <3>4. ASSUME NEW q \in Processes \ {p} PROVE ProcessInv(q)'
      <4>1. run[q].phase # "idle" => Undisturbed(run[q].rec)
        BY <3>3 DEF MemoryInv, ProcessInv
      <4> QED
        BY <2>2, <4>1, ProcessKept
    <3> QED
      BY <2>3, <2>7, <3>2, <3>3, <3>4 DEF MemoryInv
  <2> QED
    BY <2>8, <2>9
<1> QED
  BY <1>0, <1>1, <1>2, <1>3, <1>4 DEF ClaimWrite, Outcomes

(* The store has answered; its answer is recorded for the latest claim     *)
(* only, but the copy is listed in any case (persist.ts).                  *)
LEMMA RecordUpstreamStep ==
  ASSUME MemoryInv, NEW p \in Processes, RecordUpstream(p)
  PROVE  MemoryInv'
<1> USE DEF Lists, External
<1>0. PICK r \in Records : r = run[p].rec
  BY DEF MemoryInv, ProcessInv, RecordUpstream
<1>1. /\ TypeOK /\ RecordInv(r) /\ run[p].phase = "wait" /\ sent[r] = 1
      /\ run[p].copy = 1 /\ 1 \in store[r] /\ inflight[r] = {}
      /\ (Current(p) \/ record[r].upstream # 0)
      /\ (run[p].kind \in Reasons => ~live[r])
  BY <1>0 DEF MemoryInv, ProcessInv, RecordUpstream, RecordInv
<1>2. /\ record' = IF Current(p) THEN [record EXCEPT ![r].upstream = 1, ![r].state = "persisted_index_pending"]
                   ELSE record
      /\ refs' = [refs EXCEPT ![r] = @ \cup {1}]
      /\ run' = [run EXCEPT ![p].phase = "verify"]
      /\ UNCHANGED <<live, learned, holder, forgotten, store, inflight, sent, job, mishaps>>
  BY <1>0, <1>1 DEF RecordUpstream, Go
<1>3. /\ run' \in [Processes -> ProcessStates]
      /\ \A q \in Processes \ {p} : run'[q] = run[q]
      /\ run'[p].phase = "verify" /\ run'[p].rec = r /\ run'[p].kind = run[p].kind
  <2>1. run \in [Processes -> ProcessStates] /\ run[p] \in ProcessStates
    BY <1>1 DEF TypeOK, ProcessStates
  <2>2. [run[p] EXCEPT !.phase = "verify"] \in ProcessStates
    BY <2>1, ProcessTyped DEF Phases
  <2> QED
    BY <1>0, <1>2, <2>1, <2>2 DEF ProcessStates
<1>4. /\ record' \in [Records -> RecordRows]
      /\ \A s \in Records \ {r} : record'[s] = record[s]
      /\ record'[r].upstream # 0 /\ record'[r].upstream = 1
  <2>1. record' \in [Records -> RecordRows]
    BY <1>1, <1>2, RecordTyped DEF TypeOK, RecordStates, RecordRows
  <2>2. record[r].upstream # 0 => record[r].upstream = 1
    BY <1>1 DEF RecordInv
  <2> QED
    BY <1>1, <1>2, <2>1, <2>2 DEF TypeOK
<1>5. /\ \A s \in Records \ {r} : refs'[s] = refs[s]
      /\ refs'[r] = refs[r] \cup {1} /\ refs' \in [Records -> SUBSET Nat]
  BY <1>1, <1>2 DEF TypeOK
<1>6. TypeOK'
  <2>1. /\ record' \in [Records -> [state : RecordStates, upstream : Nat, generation : Nat]]
        /\ run' \in [Processes -> [phase : Phases, rec : Records \cup {None}, kind : JobKinds \cup {"cli"},
                                   generation : Nat, copy : Nat, known : SUBSET Nat]]
    BY <1>3, <1>4 DEF RecordRows, ProcessStates
  <2> QED
    BY <1>1, <1>2, <1>5, <2>1 DEF TypeOK
<1>7. \A s \in Records \ {r} : Same(s)
  BY <1>2, <1>4, <1>5 DEF Same
<1>8. Undisturbed(r) /\ RecordInv(r)'
  BY <1>1, <1>2, <1>4, <1>5 DEF RecordInv, Undisturbed, Claimed
<1>9. ProcessInv(p)'
  BY <1>1, <1>2, <1>3, <1>4 DEF ProcessInv, Removing
<1> QED
  BY <1>3, <1>6, <1>7, <1>8, <1>9, StepKeeps

(* Reading the copy back.                                                  *)
LEMMA VerifyStep ==
  ASSUME MemoryInv, NEW p \in Processes, Verify(p)
  PROVE  MemoryInv'
<1> USE DEF Lists, External
<1>0. PICK r \in Records : r = run[p].rec
  BY DEF MemoryInv, ProcessInv, Verify
<1>1. /\ TypeOK /\ run[p].phase = "verify" /\ record[r].upstream # 0
      /\ (run[p].kind \in Reasons => ~live[r])
      /\ run' = [run EXCEPT ![p].phase = "finalize"]
      /\ UNCHANGED <<record, live, learned, holder, refs, forgotten, store, inflight, sent, job, mishaps>>
  BY <1>0 DEF MemoryInv, ProcessInv, Verify, Go
<1>2. /\ run' \in [Processes -> ProcessStates]
      /\ \A q \in Processes \ {p} : run'[q] = run[q]
      /\ run'[p].phase = "finalize" /\ run'[p].rec = r /\ run'[p].kind = run[p].kind
  <2>1. run \in [Processes -> ProcessStates] /\ run[p] \in ProcessStates
    BY <1>1 DEF TypeOK, ProcessStates
  <2>2. [run[p] EXCEPT !.phase = "finalize"] \in ProcessStates
    BY <2>1, ProcessTyped DEF Phases
  <2> QED
    BY <1>0, <1>1, <2>1, <2>2 DEF ProcessStates
<1>3. TypeOK'
  BY <1>1, <1>2 DEF TypeOK, ProcessStates
<1>4. \A s \in Records : Same(s)
  BY <1>1 DEF Same
<1>5. Undisturbed(r) /\ RecordInv(r)'
  BY <1>4, RecordKept DEF MemoryInv
<1>6. ProcessInv(p)'
  BY <1>1, <1>2 DEF ProcessInv, Removing
<1> QED
  BY <1>2, <1>3, <1>4, <1>5, <1>6, StepKeeps

(* The transaction after the read-back: the closure is learned only if it  *)
(* still counts, and the writer is free (persist.ts).                      *)
LEMMA FinalizeRecordStep ==
  ASSUME MemoryInv, NEW p \in Processes, FinalizeRecord(p)
  PROVE  MemoryInv'
<1> USE DEF Lists, External
<1>0. PICK r \in Records : r = run[p].rec
  BY DEF MemoryInv, ProcessInv, FinalizeRecord
<1>1. /\ TypeOK /\ RecordInv(r) /\ run[p].phase # "idle" /\ record[r].upstream # 0
      /\ UNCHANGED <<live, refs, forgotten, store, inflight, sent, mishaps>>
      /\ holder' = holder \ {r}
  BY <1>0 DEF MemoryInv, ProcessInv, FinalizeRecord, Release
<1>2. PICK indexed \in BOOLEAN :
        /\ record' = IF Current(p)
                     THEN [record EXCEPT ![r].state = IF indexed THEN "persisted"
                                                      ELSE "persisted_index_pending"]
                     ELSE record
        /\ learned' = [learned EXCEPT ![r] = IF live[r] THEN indexed ELSE @]
        /\ IF indexed THEN Persisted(p) ELSE Finish(p, "error")
  BY <1>0 DEF FinalizeRecord, MayLearn
<1>3. Persisted(p) \/ \E outcome \in Outcomes : Finish(p, outcome)
  BY <1>2 DEF Outcomes
<1>4. /\ record' \in [Records -> RecordRows]
      /\ \A s \in Records \ {r} : record'[s] = record[s]
      /\ record'[r].upstream = record[r].upstream /\ record'[r].generation = record[r].generation
  <2>1. record' \in [Records -> RecordRows]
    BY <1>1, <1>2, RecordTyped DEF TypeOK, RecordStates, RecordRows, Settled
  <2> QED
    BY <1>1, <1>2, <2>1 DEF TypeOK
<1>5. /\ learned' \in [Records -> BOOLEAN] /\ \A s \in Records \ {r} : learned'[s] = learned[s]
      /\ learned'[r] => live[r]
  BY <1>1, <1>2 DEF TypeOK, RecordInv
<1>6. TypeOK'
  BY <1>1, <1>3, <1>4, <1>5, Through DEF TypeOK, RecordRows, JobTables, ProcessStates
<1>7. \A s \in Records \ {r} : Same(s)
  BY <1>1, <1>3, <1>4, <1>5, Through DEF Same
<1>8. \A reason \in Reasons : job'[r][reason].state # "none" => job[r][reason].state # "none"
  BY <1>1, <1>3, Through
<1>9. Undisturbed(r) /\ RecordInv(r)'
  BY <1>1, <1>4, <1>5, <1>8 DEF RecordInv, Undisturbed, Claimed
<1> QED
  BY <1>1, <1>3, <1>6, <1>7, <1>9, Through, ThroughKeeps, StepKeeps

(* The write may have happened and nobody knows; the writer stays taken    *)
(* (releaseAfterFailure).                                                  *)
LEMMA WriteUnknownStep ==
  ASSUME MemoryInv, NEW p \in Processes, WriteUnknown(p)
  PROVE  MemoryInv'
<1> USE DEF Lists, External
<1>0. PICK r \in Records : r = run[p].rec
  BY DEF MemoryInv, ProcessInv, WriteUnknown
<1>1. /\ TypeOK /\ RecordInv(r) /\ run[p].phase # "idle" /\ sent[r] = 1
      /\ record' = IF Current(p) THEN [record EXCEPT ![r].state = "write_unknown"] ELSE record
      /\ UNCHANGED <<live, learned, holder, refs, forgotten, store, inflight, sent, mishaps>>
      /\ \E outcome \in Outcomes : Finish(p, outcome)
  BY <1>0 DEF MemoryInv, ProcessInv, WriteUnknown, Outcomes
<1>2. /\ record' \in [Records -> RecordRows]
      /\ \A s \in Records \ {r} : record'[s] = record[s]
      /\ record'[r].upstream = record[r].upstream /\ record'[r].generation = record[r].generation
      /\ record'[r].state \in {record[r].state, "write_unknown"}
  <2>1. record' \in [Records -> RecordRows]
    BY <1>1, RecordTyped DEF TypeOK, RecordStates, RecordRows, Unsure
  <2> QED
    BY <1>1, <2>1 DEF TypeOK
<1>3. TypeOK'
  BY <1>1, <1>2, Through DEF TypeOK, RecordRows, JobTables, ProcessStates
<1>4. \A s \in Records \ {r} : Same(s)
  BY <1>1, <1>2, Through DEF Same
<1>5. \A reason \in Reasons : job'[r][reason].state # "none" => job[r][reason].state # "none"
  BY <1>1, Through
<1>6. Undisturbed(r) /\ RecordInv(r)'
  BY <1>1, <1>2, <1>5 DEF RecordInv, Undisturbed, Claimed, Unsure
<1> QED
  BY <1>1, <1>3, <1>4, <1>6, Through, ThroughKeeps, StepKeeps

(* A later step fails: the id is known, so the writer is free (persist.ts). *)
LEMMA PersistFailsStep ==
  ASSUME MemoryInv, NEW p \in Processes, PersistFails(p)
  PROVE  MemoryInv'
<1> USE DEF Lists, External
<1>0. PICK r \in Records : r = run[p].rec
  BY DEF MemoryInv, ProcessInv, PersistFails
<1>1. /\ TypeOK /\ RecordInv(r) /\ run[p].phase # "idle" /\ holder' = holder \ {r}
      /\ UNCHANGED <<record, live, learned, refs, forgotten, store, inflight, sent, mishaps>>
      /\ \E outcome \in Outcomes : Finish(p, outcome)
  BY <1>0 DEF MemoryInv, PersistFails, Release, Outcomes
<1>2. sent[r] = 1 /\ inflight[r] = {}
  <2>1. CASE run[p].phase = "wait" /\ run[p].copy \in store[r]
    BY <1>0, <1>1, <2>1 DEF MemoryInv, ProcessInv, RecordInv
  <2>2. CASE run[p].phase \in {"verify", "finalize"}
    BY <1>0, <1>1, <2>2 DEF MemoryInv, ProcessInv, RecordInv
  <2> QED
    BY <1>0, <2>1, <2>2 DEF PersistFails
<1>3. TypeOK'
  BY <1>1, Through DEF TypeOK, JobTables, ProcessStates
<1>4. \A s \in Records \ {r} : Same(s)
  BY <1>1, Through DEF Same
<1>5. \A reason \in Reasons : job'[r][reason].state # "none" => job[r][reason].state # "none"
  BY <1>1, Through
<1>6. Undisturbed(r) /\ RecordInv(r)'
  BY <1>1, <1>2, <1>5 DEF RecordInv, Undisturbed, Claimed
<1> QED
  BY <1>1, <1>3, <1>4, <1>6, Through, ThroughKeeps, StepKeeps

(* A run ends that has nothing to undo.                                    *)
LEMMA FinishStep ==
  ASSUME MemoryInv, NEW p \in Processes, run[p].phase # "idle",
         NEW outcome \in Outcomes, Finish(p, outcome),
         UNCHANGED <<record, live, learned, holder, refs, forgotten, store, inflight, sent, mishaps>>
  PROVE  MemoryInv'
<1>0. PICK r \in Records : r = run[p].rec
  BY DEF MemoryInv, ProcessInv
<1>1. TypeOK'
  BY Through DEF MemoryInv, TypeOK, JobTables, ProcessStates
<1>2. \A s \in Records : Same(s)
  BY Through DEF Same
<1>3. Undisturbed(r) /\ RecordInv(r)'
  BY <1>2, RecordKept DEF MemoryInv
<1> QED
  BY <1>1, <1>2, <1>3, Through, ThroughKeeps, StepKeeps

(* Looking for an unconfirmed write in the store: what is found there is   *)
(* the one copy that was sent (reconcile.ts).                              *)
LEMMA ListCopiesStep ==
  ASSUME MemoryInv, NEW p \in Processes, ListCopies(p)
  PROVE  MemoryInv'
<1> USE DEF Lists, External
<1>0. PICK r \in Records : r = run[p].rec
  BY DEF MemoryInv, ProcessInv, ListCopies
<1>1. /\ TypeOK /\ RecordInv(r) /\ sent[r] \in Nat /\ run[p].phase = "list"
      /\ UNCHANGED <<record, live, learned, holder, refs, forgotten, store, inflight, sent, mishaps>>
      /\ (run[p].kind \in Reasons => ~live[r])
  BY <1>0 DEF MemoryInv, ListCopies, ProcessInv, TypeOK
<1>2. CASE \E outcome \in Outcomes : Finish(p, outcome)
  BY <1>1, <1>2, FinishStep
<1>3. CASE /\ store[r] # {} /\ job' = job
           /\ run' = [run EXCEPT ![p].phase = "adopt", ![p].known = store[r]]
  <2>1. store[r] = {1} /\ inflight[r] = {} /\ sent[r] = 1
    BY <1>1, <1>3 DEF RecordInv
  <2>2. /\ run' \in [Processes -> ProcessStates]
        /\ \A q \in Processes \ {p} : run'[q] = run[q]
        /\ run'[p].phase = "adopt" /\ run'[p].rec = r /\ run'[p].kind = run[p].kind
        /\ run'[p].known = {1}
    <3>1. run \in [Processes -> ProcessStates] /\ run[p] \in ProcessStates
      BY <1>1 DEF TypeOK, ProcessStates
    <3>2. [run[p] EXCEPT !.phase = "adopt", !.known = {1}] \in ProcessStates
      <4>1. "adopt" \in Phases /\ {1} \in SUBSET Nat
        BY DEF Phases
      <4> QED
        BY <3>1, <4>1, ProcessTyped
    <3> QED
      BY <1>0, <1>3, <2>1, <3>1, <3>2 DEF ProcessStates
  <2>3. TypeOK'
    BY <1>1, <1>3, <2>2 DEF TypeOK, ProcessStates
  <2>4. \A s \in Records : Same(s)
    BY <1>1, <1>3 DEF Same
  <2>5. Undisturbed(r) /\ RecordInv(r)'
    BY <1>1, <2>4, RecordKept
  <2>6. ProcessInv(p)'
    BY <1>1, <2>1, <2>2 DEF ProcessInv, Removing
  <2> QED
    BY <2>2, <2>3, <2>4, <2>5, <2>6, StepKeeps
<1> QED
  BY <1>0, <1>2, <1>3 DEF ListCopies, Outcomes

(* The transaction of reconcileMemory: the copy that was found becomes the *)
(* record's, and the writer is free.                                       *)
LEMMA AdoptStep ==
  ASSUME MemoryInv, NEW p \in Processes, Adopt(p)
  PROVE  MemoryInv'
<1> USE DEF Lists, External
<1>0. PICK r \in Records : r = run[p].rec
  BY DEF MemoryInv, ProcessInv, Adopt
<1>1. /\ TypeOK /\ RecordInv(r) /\ run[p].phase = "adopt"
      /\ (run[p].kind \in Reasons => ~live[r])
      /\ run[p].known = {1} /\ sent[r] = 1 /\ inflight[r] = {} /\ (live[r] => 1 \in store[r])
  BY <1>0 DEF MemoryInv, Adopt, ProcessInv
<1>2. /\ record' = [record EXCEPT ![r].upstream = 1, ![r].state = "persisted_index_pending"]
      /\ refs' = [refs EXCEPT ![r] = @ \cup {1}]
      /\ run' = [run EXCEPT ![p].phase = "claim", ![p].known = {}]
      /\ holder' = holder \ {r}
      /\ UNCHANGED <<live, learned, forgotten, store, inflight, sent, job, mishaps>>
  BY <1>0, <1>1 DEF Adopt, Release
<1>3. /\ record' \in [Records -> RecordRows]
      /\ \A s \in Records \ {r} : record'[s] = record[s]
      /\ record'[r].upstream = 1 /\ record'[r].upstream # 0
  <2>1. record' \in [Records -> RecordRows]
    BY <1>1, <1>2, RecordTyped DEF RecordStates
  <2> QED
    BY <1>1, <1>2, <2>1 DEF TypeOK
<1>4. /\ refs' \in [Records -> SUBSET Nat] /\ refs'[r] = refs[r] \cup {1}
      /\ \A s \in Records \ {r} : refs'[s] = refs[s]
  BY <1>1, <1>2 DEF TypeOK
<1>5. /\ run' \in [Processes -> ProcessStates]
      /\ \A q \in Processes \ {p} : run'[q] = run[q]
      /\ run'[p].phase = "claim" /\ run'[p].rec = r /\ run'[p].kind = run[p].kind
  <2>1. run \in [Processes -> ProcessStates] /\ run[p] \in ProcessStates
    BY <1>1 DEF TypeOK, ProcessStates
  <2>2. [run[p] EXCEPT !.phase = "claim", !.known = {}] \in ProcessStates
    BY <2>1, ProcessTyped DEF Phases
  <2> QED
    BY <1>0, <1>2, <2>1, <2>2 DEF ProcessStates
<1>6. TypeOK'
  <2>1. /\ record' \in [Records -> [state : RecordStates, upstream : Nat, generation : Nat]]
        /\ run' \in [Processes -> [phase : Phases, rec : Records \cup {None}, kind : JobKinds \cup {"cli"},
                                   generation : Nat, copy : Nat, known : SUBSET Nat]]
    BY <1>3, <1>5 DEF RecordRows, ProcessStates
  <2> QED
    BY <1>1, <1>2, <1>4, <2>1 DEF TypeOK
<1>7. \A s \in Records \ {r} : Same(s)
  BY <1>2, <1>3, <1>4 DEF Same
<1>8. Undisturbed(r) /\ RecordInv(r)'
  BY <1>1, <1>2, <1>3, <1>4 DEF RecordInv, Undisturbed, Claimed
<1>9. ProcessInv(p)'
  BY <1>1, <1>2, <1>5 DEF ProcessInv, Removing
<1> QED
  BY <1>5, <1>6, <1>7, <1>8, <1>9, StepKeeps

(* Removing: the copies that are listed are read, forgotten one by one and *)
(* marked; the closure does not count any more (remove.ts).                *)
LEMMA RemovalStep ==
  ASSUME MemoryInv, NEW p \in Processes, SelectRefs(p) \/ Forget(p) \/ MarkForgotten(p)
  PROVE  MemoryInv'
<1> USE DEF Lists, External
<1>0. PICK r \in Records : r = run[p].rec
  BY DEF MemoryInv, ProcessInv, SelectRefs, Forget, MarkForgotten
<1>1. /\ TypeOK /\ RecordInv(r) /\ ~live[r] /\ run[p].phase \in Removing
      /\ UNCHANGED <<record, live, learned, holder, refs, inflight, sent, job, mishaps>>
  BY <1>0 DEF MemoryInv, ProcessInv, SelectRefs, Forget, MarkForgotten, Removing
<1>2. run \in [Processes -> ProcessStates] /\ run[p] \in ProcessStates
  BY <1>1 DEF TypeOK, ProcessStates
<1>3. /\ run' \in [Processes -> ProcessStates]
      /\ \A q \in Processes \ {p} : run'[q] = run[q]
      /\ run'[p].phase \in Removing /\ run'[p].rec = r
  <2>1. CASE SelectRefs(p)
    <3> DEFINE known == refs[r] \ forgotten[r]
               phase == IF known = {} THEN "delete" ELSE "forget"
    <3>1. phase \in Phases \cap Removing /\ known \in SUBSET Nat
      BY <1>1 DEF TypeOK, Phases, Removing
    <3>2. run' = [run EXCEPT ![p].known = known, ![p].phase = phase]
      BY <1>0, <2>1 DEF SelectRefs
    <3> HIDE DEF phase, known
    <3>3. [run[p] EXCEPT !.phase = phase, !.known = known] \in ProcessStates
      BY <1>2, <3>1, ProcessTyped
    <3> QED
      BY <1>0, <1>2, <3>1, <3>2, <3>3 DEF ProcessStates
  <2>2. CASE Forget(p)
    <3>1. PICK c \in run[p].known : run' = [run EXCEPT ![p].phase = "mark", ![p].copy = c]
      BY <2>2 DEF Forget
    <3>2. c \in Nat
      BY <1>2, <3>1 DEF ProcessStates
    <3>3. [run[p] EXCEPT !.phase = "mark", !.copy = c] \in ProcessStates
      BY <1>2, <3>2, ProcessTyped DEF Phases
    <3> QED
      BY <1>0, <1>2, <3>1, <3>3 DEF ProcessStates, Removing
  <2>3. CASE MarkForgotten(p)
    <3> DEFINE rest == run[p].known \ {run[p].copy}
               phase == IF rest = {} THEN "delete" ELSE "forget"
    <3>1. phase \in Phases \cap Removing /\ rest \in SUBSET Nat
      BY <1>2 DEF ProcessStates, Phases, Removing
    <3>2. run' = [run EXCEPT ![p].known = rest, ![p].copy = 0, ![p].phase = phase]
      BY <2>3 DEF MarkForgotten
    <3> HIDE DEF phase, rest
    <3>3. [run[p] EXCEPT !.phase = phase, !.known = rest, !.copy = 0] \in ProcessStates
      BY <1>2, <3>1, ProcessTyped
    <3> QED
      BY <1>0, <1>2, <3>1, <3>2, <3>3 DEF ProcessStates
  <2> QED
    BY <2>1, <2>2, <2>3
<1>4. /\ store' \in [Records -> SUBSET Nat] /\ forgotten' \in [Records -> SUBSET Nat]
      /\ \A s \in Records \ {r} : store'[s] = store[s]
      /\ store'[r] \subseteq store[r]
  <2>1. CASE SelectRefs(p)
    BY <1>1, <2>1 DEF SelectRefs, TypeOK
  <2>2. CASE Forget(p)
    <3>1. PICK c \in run[p].known : store' = [store EXCEPT ![r] = @ \ {c}]
      BY <1>0, <2>2 DEF Forget
    <3>2. forgotten' = forgotten
      BY <2>2 DEF Forget
    <3> QED
      BY <1>1, <3>1, <3>2 DEF TypeOK
  <2>3. CASE MarkForgotten(p)
    <3>1. run[p].copy \in Nat
      BY <1>2 DEF ProcessStates
    <3> QED
      BY <1>0, <1>1, <2>3, <3>1 DEF MarkForgotten, TypeOK
  <2> QED
    BY <2>1, <2>2, <2>3
<1>5. TypeOK'
  BY <1>1, <1>3, <1>4 DEF TypeOK, ProcessStates
<1>6. \A s \in Records \ {r} : Same(s)
  BY <1>1, <1>4 DEF Same
<1>7. Undisturbed(r) /\ RecordInv(r)'
  BY <1>1, <1>4 DEF RecordInv, Undisturbed, Claimed
<1>8. ProcessInv(p)'
  BY <1>1, <1>3 DEF ProcessInv, Removing
<1> QED
  BY <1>3, <1>5, <1>6, <1>7, <1>8, StepKeeps DEF Removing

(* The last statement of a removal (remove.ts).                            *)
LEMMA MarkDeletedStep ==
  ASSUME MemoryInv, NEW p \in Processes, MarkDeleted(p)
  PROVE  MemoryInv'
<1> USE DEF Lists, External
<1>0. PICK r \in Records : r = run[p].rec
  BY DEF MemoryInv, ProcessInv, MarkDeleted
<1>1. /\ TypeOK /\ RecordInv(r) /\ ~live[r] /\ run[p].phase # "idle"
      /\ record' = [record EXCEPT ![r].state = "deleted"]
      /\ UNCHANGED <<live, learned, holder, refs, forgotten, store, inflight, sent, mishaps>>
      /\ \E outcome \in Outcomes : Finish(p, outcome)
  BY <1>0 DEF MemoryInv, ProcessInv, MarkDeleted, Removing, Outcomes
<1>2. /\ record' \in [Records -> RecordRows]
      /\ \A s \in Records \ {r} : record'[s] = record[s]
      /\ record'[r].state = "deleted" /\ record'[r].upstream = record[r].upstream
      /\ record'[r].generation = record[r].generation
  <2>1. record' \in [Records -> RecordRows]
    BY <1>1, RecordTyped DEF RecordStates, Settled
  <2> QED
    BY <1>1, <2>1 DEF TypeOK
<1>3. TypeOK'
  BY <1>1, <1>2, Through DEF TypeOK, RecordRows, JobTables, ProcessStates
<1>4. \A s \in Records \ {r} : Same(s)
  BY <1>1, <1>2, Through DEF Same
<1>5. \A reason \in Reasons : job'[r][reason].state # "none" => job[r][reason].state # "none"
  BY <1>1, Through
<1>6. Undisturbed(r) /\ RecordInv(r)'
  BY <1>1, <1>2, <1>5 DEF RecordInv, Undisturbed, Claimed
<1> QED
  BY <1>1, <1>3, <1>4, <1>6, Through, ThroughKeeps, StepKeeps

-----------------------------------------------------------------------------
(* The theorems.                                                           *)

LEMMA InitInv == Init => MemoryInv
<1> SUFFICES ASSUME Init PROVE MemoryInv
  OBVIOUS
<1>1. TypeOK
  <2>1. Idle \in ProcessStates
    BY DEF Idle, ProcessStates, Phases
  <2>2. run \in [Processes -> ProcessStates] /\ record \in [Records -> RecordRows]
        /\ job \in [Records -> JobTables]
    BY <2>1 DEF Init, RecordRows, RecordStates, JobTables, JobStates
  <2> QED
    BY <2>2 DEF Init, TypeOK, ProcessStates, RecordRows, JobTables
<1>2. \A r \in Records : RecordInv(r)
  BY DEF Init, RecordInv, JobKinds
<1>3. (\A p \in Processes : ProcessInv(p)) /\ OneSender
  BY DEF Init, ProcessInv, OneSender, Idle
<1> QED
  BY <1>1, <1>2, <1>3 DEF MemoryInv

LEMMA StepInv == MemoryInv /\ [Next]_vars => MemoryInv'
<1> SUFFICES ASSUME MemoryInv, [Next]_vars PROVE MemoryInv'
  OBVIOUS
<1>1. ASSUME NEW r \in Records, Memorize(r) \/ StartReconcile(r)
      PROVE  MemoryInv'
  BY <1>1, MemorizeStep, StartStep
<1>2. ASSUME NEW r \in Records, NEW reason \in Reasons,
             Invalidate(r, reason) \/ RetryFailedJob(r, reason)
      PROVE  MemoryInv'
  BY <1>2, InvalidateStep, JobStep DEF JobKinds
<1>3. ASSUME NEW r \in Records, NEW k \in JobKinds, StartJob(r, k) \/ RecoverJob(r, k)
      PROVE  MemoryInv'
  BY <1>3, StartStep, JobStep
<1>4. ASSUME NEW r \in Records, NEW c \in inflight[r], Land(r, c)
      PROVE  MemoryInv'
  BY <1>4, LandStep
<1>5. ASSUME NEW p \in Processes, Step(p)
      PROVE  MemoryInv'
  <2>1. CASE Send(p) \/ ClaimWrite(p) \/ RecordUpstream(p) \/ Verify(p) \/ FinalizeRecord(p)
    BY <2>1, SendStep, ClaimWriteStep, RecordUpstreamStep, VerifyStep, FinalizeRecordStep
  <2>2. CASE WriteUnknown(p) \/ PersistFails(p) \/ ListCopies(p) \/ Adopt(p)
    BY <2>2, WriteUnknownStep, PersistFailsStep, ListCopiesStep, AdoptStep
  <2>3. CASE SelectRefs(p) \/ Forget(p) \/ MarkForgotten(p) \/ MarkDeleted(p)
    BY <2>3, RemovalStep, MarkDeletedStep
  <2>4. CASE Fails(p)
    BY <2>4, FinishStep DEF Fails, Lists, External, Outcomes
  <2> QED
    BY <1>5, <2>1, <2>2, <2>3, <2>4 DEF Step
<1>6. ASSUME NEW p \in Processes, Crash(p)
      PROVE  MemoryInv'
  BY <1>6, CrashStep
<1>7. CASE UNCHANGED vars
  <2>1. UNCHANGED <<record, live, learned, holder, refs, forgotten, store, inflight, sent, job, run, mishaps>>
    BY <1>7 DEF vars
  <2>2. TypeOK'
    BY <2>1 DEF MemoryInv, TypeOK
  <2>3. ASSUME NEW r \in Records PROVE RecordInv(r)'
    BY <2>1, RecordKept DEF MemoryInv, Same
  <2>4. ASSUME NEW p \in Processes PROVE ProcessInv(p)'
    BY <2>1 DEF MemoryInv, ProcessInv, Current, Claimed
  <2>5. OneSender'
    BY <2>1 DEF MemoryInv, OneSender
  <2> QED
    BY <2>2, <2>3, <2>4, <2>5 DEF MemoryInv
<1> QED
  BY <1>1, <1>2, <1>3, <1>4, <1>5, <1>6, <1>7 DEF Next

(* The invariant of the knowledge base: claims, requests, landed copies,   *)
(* lists and what each process is about to do fit together, whoever        *)
(* crashes, whichever job is recovered and whatever is invalidated.        *)
THEOREM KnowledgeIsKept == Spec => []MemoryInv
<1>1. Init => MemoryInv
  BY InitInv
<1>2. MemoryInv /\ [Next]_vars => MemoryInv'
  BY StepInv
<1> QED
  BY <1>1, <1>2, PTL DEF Spec

(* The types of the knowledge base's state.                                *)
THEOREM TypeCorrect == Spec => []TypeOK
<1>1. MemoryInv => TypeOK
  BY DEF MemoryInv
<1> QED
  BY <1>1, KnowledgeIsKept, PTL

(* The store is asked at most once to keep a record (claimWrite does not   *)
(* claim an unconfirmed write again).                                      *)
THEOREM StoredOnce == Spec => []AtMostOneCopy
<1>1. MemoryInv => AtMostOneCopy
  BY DEF MemoryInv, RecordInv, AtMostOneCopy
<1> QED
  BY <1>1, KnowledgeIsKept, PTL

(* At most one record of the organization has a write in flight: the       *)
(* writer is given up only when the copy has arrived (memory_writer).      *)
THEOREM OneWriter == Spec => []OneUnconfirmedWrite
<1>1. MemoryInv => OneUnconfirmedWrite
  BY DEF MemoryInv, RecordInv, OneUnconfirmedWrite
<1> QED
  BY <1>1, KnowledgeIsKept, PTL

(* The list that a removal works from is complete: it holds every copy of  *)
(* a record that counts as written (memory_external_refs).                 *)
THEOREM ListIsComplete == Spec => []CopiesAreKnown
<1>1. MemoryInv => CopiesAreKnown
  <2> SUFFICES ASSUME MemoryInv, NEW r \in Records,
                      record[r].state \in {"persisted_index_pending", "persisted"}
               PROVE  store[r] \subseteq refs[r]
    BY DEF CopiesAreKnown
  <2>1. RecordInv(r) /\ sent[r] \in Nat
    BY DEF MemoryInv, TypeOK
  <2>2. store[r] \subseteq {1} /\ 1 \in refs[r]
    BY <2>1 DEF RecordInv
  <2> QED
    BY <2>2
<1> QED
  BY <1>1, KnowledgeIsKept, PTL

(* A closure is marked as learned only while the store has its copy.       *)
THEOREM LearnedHasItsCopy == Spec => []LearnedIsStored
<1>1. MemoryInv => LearnedIsStored
  BY DEF MemoryInv, RecordInv, LearnedIsStored
<1> QED
  BY <1>1, KnowledgeIsKept, PTL
=============================================================================
