-------------------------- MODULE Workflows_proofs --------------------------
(***************************************************************************)
(* Proofs about Workflows for any number of runs that overlap, any number  *)
(* of extraction steps, and any number of edits, reopenings and crashes.   *)
(***************************************************************************)
EXTENDS Workflows, WellFoundedInduction, TLAPS

\* The extraction steps are in a list, and no step or phase is called like one of them.
ChunksListed ==
    /\ Len(Chunks) \in Nat /\ DOMAIN Chunks = 1 .. Len(Chunks)
    /\ \A n \in DOMAIN Chunks : Chunks[n] \notin {"idle", "begin", "apply", "store", "end"} \cup TriageSteps

-----------------------------------------------------------------------------
(* The invariant.                                                          *)

(* The types, without the bounds of the counters.                          *)
TicketRow == [status : {"open", "closed"}, lifecycle : Nat, granted : BOOLEAN,
              ai : {"pending", "done", "failed", "skipped"}, by : {"nobody", "model", "staff"}, of : Nat,
              touched : BOOLEAN]

ClosureRow == [status : {"none", "queued", "analyzing", "persistence_pending", "learned", "suppressed",
                         "needs_review", "failed", "invalidated"}, snapshot : Nat]

JobRow == [state : {"none", "pending", "running", "done", "failed", "canceled", "unknown"},
           generation : Nat, retries : Nat]

RunRow == [kind : Kinds, generation : Nat, phase : Phases, of : Nat, outcome : {"model", "fallback"},
           end : {"done", "again", "retry", "failed", "canceled", "unknown"}]

CallRow == [reply : Replies, of : Nat]

Shape ==
    /\ text \in Nat /\ ticket \in TicketRow /\ closure \in ClosureRow
    /\ record \in [of : Nat, eligible : BOOLEAN]
    /\ job \in [Kinds -> JobRow] /\ run \in [Runs -> RunRow] /\ calls \in [Steps -> CallRow]
    /\ late \in BOOLEAN

\* A ticket is learned from once, after its first closing, and not after that was undone.
TicketInv ==
    /\ ticket.by = "staff" => ticket.touched
    /\ closure.status = "none" => ticket.lifecycle = 1 /\ job["learning"].state = "none"
    /\ closure.status \notin {"none", "invalidated"} =>
         ticket.status = "closed" /\ ticket.granted /\ ticket.lifecycle = 1
    /\ ticket.status = "closed" /\ ticket.granted => closure.status # "none"

\* What learning rests on is about the text as it is, unless the closing was undone.
Current(of) == closure.status # "none" /\ (closure.status # "invalidated" => of = text)

SnapshotInv == closure.snapshot # Never => Current(closure.snapshot)

Later == LearningSteps \cup {"store"}

RunCurrent(r) == Current(run[r].of)

RunInv(r) ==
    /\ run[r].of <= text
    /\ run[r].kind = "learning" => closure.status # "none"
    /\ run[r].phase \in Later => run[r].kind = "learning" /\ RunCurrent(r)

CallCurrent(s) == Current(calls[s].of)

CallInv(s) ==
    /\ calls[s].of <= text
    /\ s \in LearningSteps /\ calls[s].reply # "none" => CallCurrent(s)

WorkflowsInv ==
    /\ Shape
    /\ TicketInv
    /\ SnapshotInv
    /\ LearnedIsCurrent
    /\ \A r \in Runs : RunInv(r)
    /\ \A s \in Steps : CallInv(s)

-----------------------------------------------------------------------------
(* Steps and rows.                                                         *)

(* No phase is another one.                                                *)
LEMMA StepsApart ==
  ASSUME ChunksListed
  PROVE  /\ Later \cap ({"idle", "begin", "apply", "end"} \cup TriageSteps) = {}
         /\ LearningSteps \cap TriageSteps = {} /\ "store" \notin Steps
         /\ Later \subseteq Phases /\ Steps \subseteq Phases
BY DEF ChunksListed, Later, LearningSteps, TriageSteps, Steps, Phases, Extracts

(* The first chunk that has no checkpoint.                                 *)
LEMMA NextIsThere ==
  ASSUME ChunksListed, ~(Extracts \subseteq checkpoints)
  PROVE  NextChunk \in Extracts
<1> DEFINE left == {n \in DOMAIN Chunks : Chunks[n] \notin checkpoints}
<1>1. left \subseteq Nat /\ left # {}
  BY DEF Extracts, ChunksListed
<1>2. PICK n \in left : \A m \in left : ~(<<m, n>> \in OpToRel(<, Nat))
  BY <1>1, NatLessThanWellFounded, WFMin
<1>3. \A m \in left : ~(m < n)
  BY <1>1, <1>2 DEF OpToRel
<1>4. Chunks[n] \notin checkpoints /\ \A m \in 1 .. n - 1 : Chunks[m] \in checkpoints
  <2>1. \A m \in 1 .. n - 1 : m \in DOMAIN Chunks /\ m < n
    BY <1>1 DEF ChunksListed
  <2> QED
    BY <1>3, <2>1
<1> QED
  BY <1>4 DEF NextChunk, Extracts

(* One run moves.                                                          *)
LEMMA RunSet ==
  ASSUME run \in [Runs -> RunRow], NEW r \in Runs, NEW row \in RunRow, run' = [run EXCEPT ![r] = row]
  PROVE  run' \in [Runs -> RunRow] /\ run'[r] = row /\ \A q \in Runs \ {r} : run'[q] = run[q]
OBVIOUS

(* A run of which only the phase, what it is about and its outcome change. *)
LEMMA RunChanged ==
  ASSUME NEW row \in RunRow, NEW phase \in Phases, NEW of \in Nat, NEW outcome \in {"model", "fallback"},
         NEW end \in {"done", "again", "retry", "failed", "canceled", "unknown"}
  PROVE  /\ LET new == [row EXCEPT !.phase = phase, !.outcome = outcome, !.of = of]
            IN  new \in RunRow /\ new.phase = phase /\ new.of = of /\ new.kind = row.kind
         /\ LET new == [row EXCEPT !.phase = phase, !.of = of]
            IN  new \in RunRow /\ new.phase = phase /\ new.of = of /\ new.kind = row.kind
         /\ LET new == [row EXCEPT !.phase = phase, !.end = end]
            IN  new \in RunRow /\ new.phase = phase /\ new.of = row.of /\ new.kind = row.kind
         /\ LET new == [row EXCEPT !.phase = phase]
            IN  new \in RunRow /\ new.phase = phase /\ new.of = row.of /\ new.kind = row.kind
BY DEF RunRow

(* The end of a run, and nothing to do.                                    *)
LEMMA EndTyped ==
  ASSUME run \in [Runs -> RunRow], NEW r \in Runs,
         NEW end \in {"done", "again", "retry", "failed", "canceled", "unknown"}
  PROVE  \E row \in RunRow : /\ Ends(r, end) = [run EXCEPT ![r] = row]
                             /\ row.phase = "end" /\ row.of = run[r].of /\ row.kind = run[r].kind
<1> DEFINE old == run[r]  row == [old EXCEPT !.phase = "end", !.end = end]
<1>1. Ends(r, end) = [run EXCEPT ![r] = row]
  BY DEF Ends
<1>2. row \in RunRow /\ row.phase = "end" /\ row.of = old.of /\ row.kind = old.kind
  <2>1. old \in RunRow
    OBVIOUS
  <2> HIDE DEF old
  <2> QED
    BY <2>1 DEF RunRow, Phases
<1> QED
  BY <1>1, <1>2

LEMMA IdleTyped == Idle \in RunRow /\ Idle.of = 0 /\ Idle.kind = "triage" /\ Idle.phase = "idle"
BY DEF Idle, RunRow, Kinds, Phases, Never

-----------------------------------------------------------------------------
(* What a step leaves of the invariant.                                    *)

\* The text stays as long as a closing is not undone.
Onward ==
    /\ text' = text \/ (text' = text + 1 /\ closure'.status \in {"none", "invalidated"})
    /\ closure.status # "none" => closure'.status # "none"
    /\ closure.status = "invalidated" => closure'.status = "invalidated"

LEMMA StillCurrent ==
  ASSUME Shape, Onward, NEW of, Current(of)
  PROVE  Current(of)'
BY DEF Shape, Onward, Current

(* What a step does not keep of the runs and calls is all that is looked   *)
(* at.                                                                     *)
LEMMA RestKept ==
  ASSUME WorkflowsInv, Shape', Onward, TicketInv', SnapshotInv', LearnedIsCurrent',
         \A r \in Runs : run'[r] = run[r] \/ RunInv(r)',
         \A s \in Steps : calls'[s] = calls[s] \/ CallInv(s)'
  PROVE  WorkflowsInv'
<1>1. Shape /\ text \in Nat /\ text' \in Nat /\ text <= text'
  BY DEF WorkflowsInv, Onward, Shape
<1>2. ASSUME NEW r \in Runs PROVE RunInv(r)'
  <2>1. run[r].of \in Nat /\ RunInv(r)
    BY DEF WorkflowsInv, Shape, RunRow
  <2>2. CASE run'[r] = run[r]
    <3>1. run'[r].of <= text'
      BY <1>1, <2>1, <2>2 DEF RunInv
    <3>2. run'[r].kind = "learning" => closure'.status # "none"
      BY <2>1, <2>2 DEF RunInv, Onward
    <3>3. run'[r].phase \in Later => run'[r].kind = "learning" /\ RunCurrent(r)'
      <4>1. PICK of : of = run[r].of
        OBVIOUS
      <4>2. Current(of) => Current(of)'
        BY <1>1, StillCurrent
      <4> QED
        BY <2>1, <2>2, <4>1, <4>2 DEF RunInv, RunCurrent, Current
    <3> QED
      BY <3>1, <3>2, <3>3 DEF RunInv
  <2> QED
    BY <2>2
<1>3. ASSUME NEW s \in Steps PROVE CallInv(s)'
  <2>1. calls[s].of \in Nat /\ CallInv(s)
    BY DEF WorkflowsInv, Shape, CallRow
  <2>2. PICK of : of = calls[s].of
    OBVIOUS
  <2>3. Current(of) => Current(of)'
    BY <1>1, StillCurrent
  <2> QED
    BY <1>1, <2>1, <2>2, <2>3 DEF CallInv, CallCurrent, Current
<1> QED
  BY <1>2, <1>3 DEF WorkflowsInv

-----------------------------------------------------------------------------
(* What happens to the ticket meanwhile.                                   *)

LEMMA InitInv ==
  ASSUME ChunksListed, Init
  PROVE  WorkflowsInv
<1>1. Shape
  <2>1. run \in [Runs -> RunRow]
    BY IdleTyped DEF Init
  <2>2. calls \in [Steps -> CallRow]
    BY DEF Init, CallRow, Replies, Never
  <2>3. job \in [Kinds -> JobRow]
    BY DEF Init, JobRow
  <2>4. ticket \in TicketRow
    BY DEF Init, TicketRow, Never
  <2>5. closure \in ClosureRow /\ record \in [of : Nat, eligible : BOOLEAN]
    BY DEF Init, ClosureRow, Never
  <2> QED
    BY <2>1, <2>2, <2>3, <2>4, <2>5 DEF Init, Shape
<1>2. TicketInv /\ SnapshotInv /\ LearnedIsCurrent
  BY DEF Init, TicketInv, SnapshotInv, LearnedIsCurrent, Kinds
<1>3. ASSUME NEW r \in Runs PROVE RunInv(r)
  BY IdleTyped, StepsApart DEF Init, RunInv
<1>4. ASSUME NEW s \in Steps PROVE CallInv(s)
  BY DEF Init, CallInv, Never
<1> QED
  BY <1>1, <1>2, <1>3, <1>4 DEF WorkflowsInv

(* The parts of an undone closing.                                         *)
LEMMA InvalidateTyped ==
  ASSUME Shape, Invalidate
  PROVE  /\ closure' \in ClosureRow /\ record' \in [of : Nat, eligible : BOOLEAN] /\ job' \in [Kinds -> JobRow]
         /\ closure'.status = IF closure.status = "none" THEN "none" ELSE "invalidated"
         /\ closure'.snapshot = closure.snapshot /\ ~record'.eligible
         /\ job["learning"].state = "none" => job'["learning"].state = "none"
<1>1. closure' \in ClosureRow /\ closure'.snapshot = closure.snapshot
      /\ closure'.status = IF closure.status = "none" THEN "none" ELSE "invalidated"
  BY DEF Shape, Invalidate, ClosureRow
<1>2. record' \in [of : Nat, eligible : BOOLEAN] /\ ~record'.eligible
  BY DEF Shape, Invalidate
<1>3. job' \in [Kinds -> JobRow]
  <2>1. ASSUME NEW row \in JobRow PROVE [row EXCEPT !.state = "canceled"] \in JobRow
    BY DEF JobRow
  <2> QED
    BY <2>1 DEF Shape, Invalidate
<1>4. job["learning"].state = "none" => job'["learning"].state = "none"
  BY DEF Invalidate, Active, Kinds
<1> QED
  BY <1>1, <1>2, <1>3, <1>4

LEMMA UndoneStep ==
  ASSUME WorkflowsInv, EditMessage \/ Reopen \/ Withdraw
  PROVE  WorkflowsInv' /\ ~record'.eligible
<1>1. Shape /\ TicketInv /\ SnapshotInv
  BY DEF WorkflowsInv
<1>2. Invalidate /\ OnlyTicket
  BY DEF EditMessage, Reopen, Withdraw
<1>3. /\ closure' \in ClosureRow /\ record' \in [of : Nat, eligible : BOOLEAN] /\ job' \in [Kinds -> JobRow]
      /\ closure'.status = IF closure.status = "none" THEN "none" ELSE "invalidated"
      /\ closure'.snapshot = closure.snapshot /\ ~record'.eligible
      /\ job["learning"].state = "none" => job'["learning"].state = "none"
  BY <1>1, <1>2, InvalidateTyped
<1>4. /\ ticket' \in TicketRow /\ ticket'.by = ticket.by /\ ticket'.touched = ticket.touched
      /\ ticket'.lifecycle = ticket.lifecycle \/ closure.status # "none"
      /\ ticket'.status = "closed" /\ ticket'.granted => closure'.status # "none"
  <2>1. CASE EditMessage
    BY <1>1, <1>3, <2>1 DEF Shape, TicketInv, EditMessage
  <2>2. CASE Reopen
    <3>1. closure.status # "none"
      BY <1>1, <2>2 DEF TicketInv, Reopen
    <3> DEFINE lifecycle == ticket.lifecycle + 1
    <3>2. /\ ticket' = [ticket EXCEPT !.status = "open", !.lifecycle = lifecycle]
          /\ ticket \in TicketRow /\ lifecycle \in Nat
      BY <1>1, <2>2 DEF Shape, Reopen, TicketRow
    <3> HIDE DEF lifecycle
    <3>3. ticket' \in TicketRow /\ ticket'.by = ticket.by /\ ticket'.touched = ticket.touched
          /\ ticket'.status = "open"
      BY <3>2 DEF TicketRow
    <3> QED
      BY <3>1, <3>3
  <2>3. CASE Withdraw
    BY <1>1, <1>3, <2>3 DEF Shape, TicketInv, TicketRow, Withdraw
  <2> QED
    BY <2>1, <2>2, <2>3
<1>5. Shape'
  BY <1>1, <1>2, <1>3, <1>4 DEF Shape, OnlyTicket, EditMessage, Reopen, Withdraw
<1>6. Onward
  BY <1>1, <1>3 DEF Onward, Shape, ClosureRow, EditMessage, Reopen, Withdraw
<1>7. TicketInv' /\ SnapshotInv' /\ LearnedIsCurrent'
  BY <1>1, <1>3, <1>4 DEF TicketInv, SnapshotInv, Current, LearnedIsCurrent
<1> QED
  BY <1>2, <1>3, <1>5, <1>6, <1>7, RestKept DEF OnlyTicket

LEMMA ClassifyStep == WorkflowsInv /\ Classify => WorkflowsInv'
<1> SUFFICES ASSUME WorkflowsInv, Classify PROVE WorkflowsInv'
  OBVIOUS
<1>1. Shape /\ TicketInv /\ SnapshotInv /\ LearnedIsCurrent
  BY DEF WorkflowsInv
<1>2. /\ ticket' \in TicketRow /\ ticket'.touched /\ ticket'.status = ticket.status
      /\ ticket'.granted = ticket.granted /\ ticket'.lifecycle = ticket.lifecycle
  BY <1>1 DEF Shape, TicketRow, Classify, Never
<1>3. Shape' /\ Onward
  BY <1>1, <1>2 DEF Shape, Onward, Classify, OnlyTicket
<1>4. TicketInv' /\ SnapshotInv' /\ LearnedIsCurrent'
  BY <1>1, <1>2 DEF TicketInv, SnapshotInv, Current, LearnedIsCurrent, Classify
<1> QED
  BY <1>3, <1>4, RestKept DEF Classify, OnlyTicket

LEMMA CloseStep == WorkflowsInv /\ Close => WorkflowsInv'
<1> SUFFICES ASSUME WorkflowsInv, Close PROVE WorkflowsInv'
  OBVIOUS
<1>1. Shape /\ TicketInv /\ SnapshotInv /\ LearnedIsCurrent
  BY DEF WorkflowsInv
<1>2. /\ ticket' \in TicketRow /\ ticket'.touched = ticket.touched /\ ticket'.by = ticket.by
      /\ ticket'.status = "closed" /\ ticket'.granted /\ ticket'.lifecycle = ticket.lifecycle
  BY <1>1 DEF Shape, TicketRow, Close
<1>3. /\ closure' \in ClosureRow /\ closure'.status \in {"queued", "suppressed"}
      /\ closure'.snapshot = closure.snapshot
  BY <1>1 DEF Shape, ClosureRow, Close
<1>4. job' \in [Kinds -> JobRow]
  <2>1. \A row \in JobRow : [row EXCEPT !.state = "pending"] \in JobRow /\ [row EXCEPT !.state = row.state] \in JobRow
    BY DEF JobRow
  <2> QED
    BY <1>1, <2>1 DEF Shape, Close, Kinds
<1>5. Shape' /\ Onward
  BY <1>1, <1>2, <1>3, <1>4 DEF Shape, Onward, Close, OnlyTicket
<1>6. TicketInv' /\ SnapshotInv' /\ LearnedIsCurrent'
  BY <1>1, <1>2, <1>3 DEF TicketInv, SnapshotInv, Current, LearnedIsCurrent, Close
<1> QED
  BY <1>5, <1>6, RestKept DEF Close, OnlyTicket

(* The deadline passes; a record is stored where it may be used.           *)
LEMMA DeadlineOrPersist == WorkflowsInv /\ (Deadline \/ Persist) => WorkflowsInv'
<1> SUFFICES ASSUME WorkflowsInv, Deadline \/ Persist PROVE WorkflowsInv'
  OBVIOUS
<1>1. Shape /\ TicketInv /\ SnapshotInv /\ LearnedIsCurrent
  BY DEF WorkflowsInv
<1>2. /\ closure' \in ClosureRow /\ closure'.snapshot = closure.snapshot
      /\ closure' = closure \/ (closure.status = "persistence_pending" /\ closure'.status = "learned")
  BY <1>1 DEF Shape, ClosureRow, Deadline, Persist
<1>3. Shape' /\ Onward
  BY <1>1, <1>2 DEF Shape, Onward, Deadline, Persist
<1>4. TicketInv' /\ SnapshotInv' /\ LearnedIsCurrent'
  BY <1>1, <1>2 DEF TicketInv, SnapshotInv, Current, LearnedIsCurrent, Deadline, Persist
<1> QED
  BY <1>3, <1>4, RestKept DEF Deadline, Persist

LEMMA MaintainStep == WorkflowsInv /\ Maintain => WorkflowsInv'
<1> SUFFICES ASSUME WorkflowsInv, Maintain PROVE WorkflowsInv'
  OBVIOUS
<1>1. Shape /\ TicketInv /\ SnapshotInv /\ LearnedIsCurrent
  BY DEF WorkflowsInv
<1>2. /\ ticket' \in TicketRow /\ ticket'.touched = ticket.touched /\ ticket'.by = ticket.by
      /\ ticket'.status = ticket.status /\ ticket'.granted = ticket.granted /\ ticket'.lifecycle = ticket.lifecycle
  BY <1>1 DEF Shape, TicketRow, Maintain
<1> DEFINE expired == late /\ ticket.ai = "pending"
           settled == [job EXCEPT !["triage"].state = IF expired /\ Active(@) THEN "canceled" ELSE @]
<1>3. \A row \in JobRow : /\ [row EXCEPT !.state = "pending"] \in JobRow
                          /\ [row EXCEPT !.state = IF expired /\ Active(row.state) THEN "canceled" ELSE row.state] \in JobRow
  BY DEF JobRow
<1>4. settled \in [Kinds -> JobRow] /\ settled["learning"] = job["learning"]
  BY <1>1, <1>3 DEF Shape, Kinds
<1>5. PICK old \in SUBSET {k \in Kinds : settled[k].state = "running" /\ (k = "triage" => late)} :
         job' = [k \in Kinds |-> IF k \in old THEN [settled[k] EXCEPT !.state = "pending"] ELSE settled[k]]
  BY DEF Maintain
<1>6. job' \in [Kinds -> JobRow] /\ (job["learning"].state = "none" => job'["learning"].state = "none")
  <2> HIDE DEF settled
  <2>1. job' \in [Kinds -> JobRow]
    BY <1>3, <1>4, <1>5
  <2>2. job["learning"].state = "none" => job'["learning"].state = "none"
    BY <1>4, <1>5 DEF Kinds
  <2> QED
    BY <2>1, <2>2
<1>7. Shape' /\ Onward
  BY <1>1, <1>2, <1>6 DEF Shape, Onward, Maintain
<1>8. TicketInv' /\ SnapshotInv' /\ LearnedIsCurrent'
  BY <1>1, <1>2, <1>6 DEF TicketInv, SnapshotInv, Current, LearnedIsCurrent, Maintain
<1> QED
  BY <1>7, <1>8, RestKept DEF Maintain

-----------------------------------------------------------------------------
(* The job runner.                                                         *)

LEMMA EndRunStep ==
  ASSUME ChunksListed, WorkflowsInv, NEW r \in Runs, EndRun(r)
  PROVE  WorkflowsInv'
<1> DEFINE k == run[r].kind  state == StateAfter(r)
<1>1. Shape /\ TicketInv /\ SnapshotInv /\ LearnedIsCurrent /\ RunInv(r) /\ run[r] \in RunRow
  BY DEF WorkflowsInv, Shape
<1>2. run' \in [Runs -> RunRow] /\ run'[r] = Idle /\ \A q \in Runs \ {r} : run'[q] = run[q]
  BY <1>1, IdleTyped DEF EndRun, Shape
<1>3. RunInv(r)' /\ \A q \in Runs : run'[q] = run[q] \/ RunInv(q)'
  <2>1. text' \in Nat
    BY <1>1 DEF EndRun, Shape
  <2>2. RunInv(r)'
    BY <1>2, <2>1, IdleTyped, StepsApart DEF RunInv
  <2> QED
    BY <1>2, <2>2
<1>4. k \in Kinds /\ job[k] \in JobRow /\ state \in {"pending", "failed", "done", "canceled", "unknown"}
  BY <1>1 DEF StateAfter, RunRow, Shape
<1> HIDE DEF k, state
<1> DEFINE retries == IF run[r].end = "retry" THEN job[k].retries + 1
                      ELSE IF run[r].end = "again" THEN 0 ELSE job[k].retries
<1>5. retries \in Nat /\ (job' = job \/ job' = [job EXCEPT ![k] = [job[k] EXCEPT !.state = state, !.retries = retries]])
  <2>1. retries \in Nat
    BY <1>4 DEF JobRow
  <2>2. ~Holds(r) => job' = job
    BY DEF EndRun
  <2>3. Holds(r) => job' = [job EXCEPT ![k].state = state,
                                       ![k].retries = IF run[r].end = "retry" THEN @ + 1
                                                      ELSE IF run[r].end = "again" THEN 0 ELSE @]
    BY DEF EndRun, k, state
  <2>4. Holds(r) => job' = [job EXCEPT ![k] = [job[k] EXCEPT !.state = state, !.retries = retries]]
    BY <1>1, <1>4, <2>3 DEF Shape
  <2> HIDE DEF retries
  <2> QED
    BY <2>1, <2>2, <2>4
<1> HIDE DEF retries
<1>6. job' \in [Kinds -> JobRow] /\ (closure.status = "none" => job'["learning"] = job["learning"])
  <2>1. [job[k] EXCEPT !.state = state, !.retries = retries] \in JobRow
    BY <1>4, <1>5 DEF JobRow
  <2>2. closure.status = "none" => k # "learning"
    BY <1>1 DEF RunInv, k
  <2> QED
    BY <1>1, <1>4, <1>5, <2>1, <2>2 DEF Shape, Kinds
<1>7. /\ closure' \in ClosureRow /\ closure'.snapshot = closure.snapshot
      /\ closure' = closure \/ (closure.status \notin {"none", "invalidated"}
                                /\ closure'.status \in {"suppressed", "needs_review", "failed"})
  <2>1. k = "learning" => closure.status # "none"
    BY <1>1 DEF RunInv, k
  <2>2. closure' = closure \/ (/\ closure.status \notin {"none", "invalidated"} /\ state \in DOMAIN LearningStatus
                               /\ closure' = [closure EXCEPT !.status = LearningStatus[state]])
    BY <2>1 DEF EndRun, k, state
  <2>3. \A s \in DOMAIN LearningStatus : LearningStatus[s] \in {"suppressed", "needs_review", "failed"}
    BY DEF LearningStatus
  <2> QED
    BY <1>1, <2>2, <2>3 DEF Shape, ClosureRow
<1>8. /\ ticket' \in TicketRow /\ ticket'.touched = ticket.touched /\ ticket'.by = ticket.by
      /\ ticket'.status = ticket.status /\ ticket'.granted = ticket.granted /\ ticket'.lifecycle = ticket.lifecycle
  <2>1. ticket' = ticket \/ ticket' = [ticket EXCEPT !.ai = "failed"]
    BY DEF EndRun
  <2> QED
    BY <1>1, <2>1 DEF Shape, TicketRow
<1>9. Shape' /\ Onward
  BY <1>1, <1>2, <1>6, <1>7, <1>8 DEF Shape, Onward, EndRun
<1>10. TicketInv' /\ SnapshotInv' /\ LearnedIsCurrent'
  BY <1>1, <1>6, <1>7, <1>8 DEF TicketInv, SnapshotInv, Current, LearnedIsCurrent, EndRun
<1> QED
  BY <1>3, <1>9, <1>10, RestKept DEF EndRun

LEMMA CrashStep ==
  ASSUME ChunksListed, WorkflowsInv, NEW r \in Runs, Crash(r)
  PROVE  WorkflowsInv'
<1>1. Shape /\ TicketInv /\ SnapshotInv /\ LearnedIsCurrent
  BY DEF WorkflowsInv
<1>2. run' \in [Runs -> RunRow] /\ run'[r] = Idle /\ \A q \in Runs \ {r} : run'[q] = run[q]
  BY <1>1, IdleTyped DEF Crash, Shape
<1>3. Shape' /\ Onward
  BY <1>1, <1>2 DEF Shape, Onward, Crash
<1>4. RunInv(r)'
  BY <1>2, <1>3, IdleTyped, StepsApart DEF RunInv, Shape
<1>5. TicketInv' /\ SnapshotInv' /\ LearnedIsCurrent'
  BY <1>1 DEF TicketInv, SnapshotInv, Current, LearnedIsCurrent, Crash
<1> QED
  BY <1>2, <1>3, <1>4, <1>5, RestKept DEF Crash

LEMMA ClaimStep ==
  ASSUME ChunksListed, WorkflowsInv, NEW r \in Runs, NEW k \in Kinds, Claim(r, k)
  PROVE  WorkflowsInv'
<1> DEFINE generation == job[k].generation + 1
           row == [Idle EXCEPT !.kind = k, !.generation = generation, !.phase = "begin"]
<1>1. Shape /\ TicketInv /\ SnapshotInv /\ LearnedIsCurrent /\ job[k] \in JobRow
  BY DEF WorkflowsInv, Shape
<1>2. generation \in Nat
  BY <1>1 DEF JobRow
<1>3. row \in RunRow /\ row.kind = k /\ row.phase = "begin" /\ row.of = 0
  <2> HIDE DEF generation
  <2> QED
    BY <1>2, IdleTyped DEF RunRow, Phases
<1>4. run' \in [Runs -> RunRow] /\ run'[r] = row /\ \A q \in Runs \ {r} : run'[q] = run[q]
  <2>1. run' = [run EXCEPT ![r] = row]
    BY DEF Claim
  <2> HIDE DEF row
  <2> QED
    BY <1>1, <1>3, <2>1 DEF Shape
<1> HIDE DEF row
<1>5. job' \in [Kinds -> JobRow] /\ (closure.status = "none" => job'["learning"] = job["learning"])
  <2>1. job' = [job EXCEPT ![k] = [job[k] EXCEPT !.state = "running", !.generation = generation]]
    BY <1>1 DEF Claim, Shape
  <2>2. [job[k] EXCEPT !.state = "running", !.generation = generation] \in JobRow
    <3> HIDE DEF generation
    <3> QED
      BY <1>1, <1>2 DEF JobRow
  <2>3. closure.status = "none" => k # "learning"
    BY <1>1 DEF TicketInv, Claim
  <2> QED
    BY <1>1, <2>1, <2>2, <2>3 DEF Shape, Kinds
<1>6. Shape' /\ Onward
  BY <1>1, <1>4, <1>5 DEF Shape, Onward, Claim
<1>7. RunInv(r)'
  <2>1. k = "learning" => closure.status # "none"
    BY <1>1 DEF TicketInv, Claim
  <2>2. text' \in Nat /\ closure' = closure
    BY <1>6 DEF Shape, Claim
  <2>3. run'[r].kind = k /\ run'[r].of = 0 /\ run'[r].phase \notin Later
    BY <1>3, <1>4, StepsApart
  <2> QED
    BY <2>1, <2>2, <2>3 DEF RunInv
<1>8. TicketInv' /\ SnapshotInv' /\ LearnedIsCurrent'
  BY <1>1, <1>5 DEF TicketInv, SnapshotInv, Current, LearnedIsCurrent, Claim
<1> QED
  BY <1>4, <1>6, <1>7, <1>8, RestKept DEF Claim

-----------------------------------------------------------------------------
(* A run that moves on, with its call.                                     *)

(* A run goes to a phase, about a text that it may be about there.         *)
LEMMA MovesKept ==
  ASSUME WorkflowsInv, NEW r \in Runs, NEW row \in RunRow, NEW of, run' = [run EXCEPT ![r] = row],
         row.kind = run[r].kind, row.of = of, of <= text, text' = text,
         closure.status # "none" => closure'.status # "none",
         row.phase \in Later => row.kind = "learning" /\ Current(of)'
  PROVE  run' \in [Runs -> RunRow] /\ \A q \in Runs : run'[q] = run[q] \/ RunInv(q)'
<1>1. Shape /\ RunInv(r)
  BY DEF WorkflowsInv
<1>2. run' \in [Runs -> RunRow] /\ run'[r] = row /\ \A q \in Runs \ {r} : run'[q] = run[q]
  BY <1>1 DEF Shape
<1>3. RunInv(r)'
  BY <1>1, <1>2 DEF RunInv, RunCurrent, Current
<1> QED
  BY <1>2, <1>3

(* The end of a run, which is in no phase of learning any more.            *)
LEMMA EndsKept ==
  ASSUME ChunksListed, WorkflowsInv, NEW r \in Runs,
         NEW end \in {"done", "again", "retry", "failed", "canceled", "unknown"},
         run' = Ends(r, end), text' = text, closure.status # "none" => closure'.status # "none"
  PROVE  run' \in [Runs -> RunRow] /\ \A q \in Runs : run'[q] = run[q] \/ RunInv(q)'
<1>1. Shape /\ RunInv(r)
  BY DEF WorkflowsInv
<1>2. PICK row \in RunRow : /\ run' = [run EXCEPT ![r] = row]
                            /\ row.phase = "end" /\ row.of = run[r].of /\ row.kind = run[r].kind
  BY <1>1, EndTyped DEF Shape
<1>3. PICK of : of = run[r].of
  OBVIOUS
<1>4. row.of = of /\ of <= text /\ row.phase \notin Later
  BY <1>1, <1>2, <1>3, StepsApart DEF RunInv
<1> QED
  BY <1>2, <1>4, MovesKept

(* The reply that is asked for, or the one that was there.                 *)
LEMMA AskedKept ==
  ASSUME ChunksListed, WorkflowsInv, NEW step \in Steps, NEW of \in Nat, of <= text,
         step \in LearningSteps => Current(of),
         NEW reply \in Replies \cup {"later"}, Asked(step, of, reply), text' = text, closure' = closure
  PROVE  /\ calls' \in [Steps -> CallRow] /\ \A s \in Steps : calls'[s] = calls[s] \/ CallInv(s)'
         /\ \E about \in Nat : /\ about = About(step, of) /\ about <= text
                               /\ step \in LearningSteps => Current(about)
<1>1. Shape /\ CallInv(step) /\ calls[step] \in CallRow
  BY DEF WorkflowsInv, Shape
<1> DEFINE row == [reply |-> reply, of |-> of]
<1>2. calls' = calls \/ (reply # "later" /\ calls' = [calls EXCEPT ![step] = row])
  BY DEF Asked
<1>3. calls' \in [Steps -> CallRow]
  BY <1>1, <1>2 DEF Shape, CallRow
<1>4. CallInv(step)' \/ calls'[step] = calls[step]
  <2>1. SUFFICES ASSUME calls' = [calls EXCEPT ![step] = row] PROVE CallInv(step)'
    BY <1>2
  <2>2. calls'[step].of = of
    BY <1>1, <2>1 DEF Shape
  <2> QED
    BY <2>2 DEF CallInv, CallCurrent, Current
<1>5. \A s \in Steps : calls'[s] = calls[s] \/ CallInv(s)'
  <2>1. \A s \in Steps \ {step} : calls'[s] = calls[s]
    BY <1>1, <1>2 DEF Shape
  <2> QED
    BY <1>4, <2>1
<1>6. CASE calls[step].reply = "none"
  BY <1>3, <1>5, <1>6 DEF About
<1>7. CASE calls[step].reply # "none"
  <2>1. PICK about : about = calls[step].of
    OBVIOUS
  <2>2. about \in Nat /\ about <= text /\ about = About(step, of) /\ (step \in LearningSteps => Current(about))
    BY <1>1, <1>7, <2>1 DEF About, CallRow, CallInv, CallCurrent, Current
  <2> QED
    BY <1>3, <1>5, <2>2
<1> QED
  BY <1>6, <1>7

-----------------------------------------------------------------------------
(* Triage.                                                                 *)

LEMMA BeginTriageStep ==
  ASSUME ChunksListed, WorkflowsInv, NEW r \in Runs, BeginTriage(r)
  PROVE  WorkflowsInv'
<1>1. Shape /\ TicketInv /\ SnapshotInv /\ LearnedIsCurrent /\ run[r] \in RunRow /\ text \in Nat
  BY DEF WorkflowsInv, Shape
<1>2. run' \in [Runs -> RunRow] /\ \A q \in Runs : run'[q] = run[q] \/ RunInv(q)'
  <2>1. CASE Eligible("triage")
    <3> DEFINE row == [run[r] EXCEPT !.phase = "triage-0", !.of = text]
    <3>1. run' = [run EXCEPT ![r] = row]
      BY <1>1, <2>1 DEF BeginTriage, Shape
    <3>2. "triage-0" \in Phases /\ "triage-0" \notin Later
      BY StepsApart DEF TriageSteps, Steps
    <3>3. row \in RunRow /\ row.phase = "triage-0" /\ row.of = text /\ row.kind = run[r].kind
      BY <1>1, <3>2 DEF RunRow
    <3>4. PICK of \in Nat : of = text
      BY <1>1
    <3>5. of <= text /\ row.of = of /\ text' = text /\ closure' = closure
      BY <1>1, <3>3, <3>4 DEF BeginTriage
    <3> HIDE DEF row
    <3> QED
      BY <3>1, <3>2, <3>3, <3>5, MovesKept
  <2>2. CASE ~Eligible("triage")
    BY <2>2, EndsKept DEF BeginTriage
  <2> QED
    BY <2>1, <2>2
<1>3. Shape' /\ Onward
  BY <1>1, <1>2 DEF Shape, Onward, BeginTriage
<1>4. TicketInv' /\ SnapshotInv' /\ LearnedIsCurrent'
  BY <1>1 DEF TicketInv, SnapshotInv, Current, LearnedIsCurrent, BeginTriage
<1> QED
  BY <1>2, <1>3, <1>4, RestKept DEF BeginTriage

(* What a run of triage makes of a reply.                                  *)
LEMMA OutcomeKept ==
  ASSUME ChunksListed, WorkflowsInv, NEW r \in Runs, NEW phase \in TriageSteps \cup {"apply"},
         NEW outcome \in {"model", "fallback"}, NEW of \in Nat, of <= text, Outcome(r, phase, outcome, of),
         text' = text, closure' = closure
  PROVE  run' \in [Runs -> RunRow] /\ \A q \in Runs : run'[q] = run[q] \/ RunInv(q)'
<1> DEFINE row == [run[r] EXCEPT !.phase = phase, !.outcome = outcome, !.of = of]
<1>1. Shape /\ run[r] \in RunRow
  BY DEF WorkflowsInv, Shape
<1>2. run' = [run EXCEPT ![r] = row]
  BY <1>1 DEF Outcome, Shape
<1>3. phase \in Phases /\ phase \notin Later
  BY StepsApart DEF Steps, Phases
<1>4. row \in RunRow /\ row.phase = phase /\ row.of = of /\ row.kind = run[r].kind
  BY <1>1, <1>3 DEF RunRow
<1> HIDE DEF row
<1> QED
  BY <1>2, <1>3, <1>4, MovesKept

LEMMA AskTriageStep ==
  ASSUME ChunksListed, WorkflowsInv, NEW r \in Runs, AskTriage(r)
  PROVE  WorkflowsInv'
<1>1. Shape /\ TicketInv /\ SnapshotInv /\ LearnedIsCurrent /\ RunInv(r) /\ run[r] \in RunRow
  BY DEF WorkflowsInv, Shape
<1>2. PICK of \in Nat : of = run[r].of /\ of <= text
  BY <1>1 DEF RunRow, RunInv
<1>3. PICK step \in TriageSteps, reply \in Replies \cup {"later"} :
        /\ Asked(step, of, reply)
        /\ \/ run' = Ends(r, "again") \/ run' = Ends(r, "retry")
           \/ Outcome(r, "triage-1", "fallback", of) \/ Outcome(r, "triage-repair", "fallback", of)
           \/ Outcome(r, "apply", "fallback", of) \/ Outcome(r, "apply", "model", About(step, of))
  BY <1>2 DEF AskTriage, TriageSteps
<1>4. text' = text /\ closure' = closure
  BY DEF AskTriage
<1>5. step \in Steps /\ step \notin LearningSteps
  BY StepsApart DEF Steps
<1>6. PICK about \in Nat : about = About(step, of) /\ about <= text
  BY <1>2, <1>3, <1>4, <1>5, AskedKept
<1>7. calls' \in [Steps -> CallRow] /\ \A s \in Steps : calls'[s] = calls[s] \/ CallInv(s)'
  BY <1>2, <1>3, <1>4, <1>5, AskedKept
<1>8. run' \in [Runs -> RunRow] /\ \A q \in Runs : run'[q] = run[q] \/ RunInv(q)'
  <2>1. CASE run' = Ends(r, "again") \/ run' = Ends(r, "retry")
    BY <1>4, <2>1, EndsKept
  <2>2. CASE \/ Outcome(r, "triage-1", "fallback", of) \/ Outcome(r, "triage-repair", "fallback", of)
             \/ Outcome(r, "apply", "fallback", of) \/ Outcome(r, "apply", "model", about)
    BY <1>2, <1>4, <1>6, <2>2, OutcomeKept DEF TriageSteps
  <2> QED
    BY <1>3, <1>6, <2>1, <2>2
<1>9. Shape' /\ Onward
  BY <1>1, <1>7, <1>8 DEF Shape, Onward, AskTriage
<1>10. TicketInv' /\ SnapshotInv' /\ LearnedIsCurrent'
  BY <1>1 DEF TicketInv, SnapshotInv, Current, LearnedIsCurrent, AskTriage
<1> QED
  BY <1>7, <1>8, <1>9, <1>10, RestKept

(* What the model says of a ticket is of its first text.                   *)
LEMMA ApplyTriageStep ==
  ASSUME ChunksListed, WorkflowsInv, NEW r \in Runs, ApplyTriage(r)
  PROVE  /\ WorkflowsInv'
         /\ ticket'.by = "model" /\ ticket.by # "model" =>
              /\ ticket'.of \in {text, Never} /\ ticket.by = "nobody"
              /\ ticket.status = "open" /\ ticket.granted /\ ~late
<1>1. Shape /\ TicketInv /\ SnapshotInv /\ LearnedIsCurrent /\ RunInv(r) /\ run[r] \in RunRow /\ ticket \in TicketRow
  BY DEF WorkflowsInv, Shape
<1>2. PICK of \in Nat : of = run[r].of /\ of <= text
  BY <1>1 DEF RunRow, RunInv
<1>3. run' \in [Runs -> RunRow] /\ \A q \in Runs : run'[q] = run[q] \/ RunInv(q)'
  <2>1. run' = Ends(r, "failed") \/ run' = Ends(r, "done")
    BY DEF ApplyTriage
  <2> QED
    BY <2>1, EndsKept DEF ApplyTriage
<1>4. \/ ticket' = ticket
      \/ ticket' = [ticket EXCEPT !.ai = "failed"]
      \/ /\ Eligible("triage") /\ ~Revised /\ ticket.touched
         /\ \E ai \in {"done", "failed"} : ticket' = [ticket EXCEPT !.by = @, !.of = @, !.ai = ai]
      \/ /\ Eligible("triage") /\ ~Revised /\ ~ticket.touched
         /\ \E ai \in {"done", "failed"} : ticket' = [ticket EXCEPT !.by = "model", !.of = of, !.ai = ai]
  BY <1>2 DEF ApplyTriage
<1>5. /\ ticket' \in TicketRow /\ ticket'.touched = ticket.touched
      /\ ticket'.status = ticket.status /\ ticket'.granted = ticket.granted /\ ticket'.lifecycle = ticket.lifecycle
      /\ \/ ticket'.by = ticket.by
         \/ ticket'.by = "model" /\ ticket'.of = of /\ Eligible("triage") /\ ~Revised /\ ~ticket.touched
  BY <1>1, <1>4 DEF TicketRow
<1>6. Shape' /\ Onward
  BY <1>1, <1>3, <1>5 DEF Shape, Onward, ApplyTriage
<1>7. TicketInv' /\ SnapshotInv' /\ LearnedIsCurrent'
  BY <1>1, <1>5 DEF TicketInv, SnapshotInv, Current, LearnedIsCurrent, ApplyTriage
<1>8. WorkflowsInv'
  BY <1>3, <1>6, <1>7, RestKept DEF ApplyTriage
<1>9. ticket'.by = "model" /\ ticket.by # "model" =>
        /\ ticket'.of \in {text, Never} /\ ticket.by = "nobody"
        /\ ticket.status = "open" /\ ticket.granted /\ ~late
  BY <1>1, <1>2, <1>5 DEF TicketRow, TicketInv, Eligible, Revised, Never, Shape
<1> QED
  BY <1>8, <1>9
-----------------------------------------------------------------------------
(* Learning.                                                               *)

LEMMA BeginLearningStep ==
  ASSUME ChunksListed, WorkflowsInv, NEW r \in Runs, BeginLearning(r)
  PROVE  WorkflowsInv'
<1> DEFINE frozen == IF closure.snapshot = Never THEN text ELSE closure.snapshot
           step   == IF record.of # Never THEN "learning-completion"
                     ELSE IF Extracts \subseteq checkpoints THEN "memorize"
                     ELSE NextChunk
           goes   == /\ Eligible("learning")
                     /\ closure' = IF closure.snapshot = Never
                                   THEN [closure EXCEPT !.snapshot = text, !.status = "analyzing"] ELSE closure
                     /\ run' = [run EXCEPT ![r].phase = step, ![r].of = frozen]
<1>1. Shape /\ TicketInv /\ SnapshotInv /\ LearnedIsCurrent /\ RunInv(r) /\ run[r] \in RunRow /\ text \in Nat
      /\ closure \in ClosureRow
  BY DEF WorkflowsInv, Shape
<1>2. run[r].kind = "learning" /\ closure.status # "none" /\ text' = text /\ calls' = calls
  BY <1>1 DEF BeginLearning, RunInv
<1>3. step \in LearningSteps
  BY NextIsThere DEF LearningSteps
<1> HIDE DEF step
<1>4. Eligible("learning") => closure.status # "invalidated" /\ frozen = text
  BY <1>1 DEF Eligible, SnapshotInv, Current
<1> HIDE DEF frozen
<1>5. \/ closure' = closure /\ \E end \in {"canceled", "again"} : run' = Ends(r, end)
      \/ goes
  BY DEF BeginLearning, frozen, step
<1>6. /\ closure' \in ClosureRow
      /\ closure' = closure \/ (closure.status # "invalidated" /\ closure'.status = "analyzing" /\ closure'.snapshot = text)
  <2>1. CASE closure' = closure
    BY <1>1, <2>1
  <2>2. CASE goes
    BY <1>1, <1>4, <2>2 DEF ClosureRow
  <2> QED
    BY <1>5, <2>1, <2>2
<1>7. run' \in [Runs -> RunRow] /\ \A q \in Runs : run'[q] = run[q] \/ RunInv(q)'
  <2>1. CASE \E end \in {"canceled", "again"} : run' = Ends(r, end)
    BY <1>2, <1>6, <2>1, EndsKept
  <2>2. CASE goes
    <3> DEFINE row == [run[r] EXCEPT !.phase = step, !.of = frozen]
    <3>1. run' = [run EXCEPT ![r] = row]
      BY <1>1, <2>2 DEF Shape
    <3>2. step \in Phases
      BY <1>3, StepsApart DEF Later
    <3>3. PICK of \in Nat : of = text
      BY <1>1
    <3>4. frozen \in Nat /\ frozen = of
      BY <1>4, <2>2, <3>3
    <3>5. row \in RunRow /\ row.of = of /\ row.kind = run[r].kind
      BY <1>1, <3>2, <3>4 DEF RunRow
    <3>6. Current(of)'
      BY <1>2, <1>6, <3>3 DEF Current
    <3>7. of <= text /\ closure'.status # "none"
      BY <1>1, <1>2, <1>6, <3>3
    <3> HIDE DEF row
    <3> QED
      BY <1>2, <3>1, <3>5, <3>6, <3>7, MovesKept
  <2> QED
    BY <1>5, <2>1, <2>2
<1>8. Shape' /\ Onward
  BY <1>1, <1>2, <1>6, <1>7 DEF Shape, Onward, BeginLearning
<1>9. TicketInv' /\ SnapshotInv' /\ LearnedIsCurrent'
  BY <1>1, <1>2, <1>4, <1>5, <1>6 DEF TicketInv, SnapshotInv, Current, LearnedIsCurrent, BeginLearning, Eligible
<1> QED
  BY <1>2, <1>7, <1>8, <1>9, RestKept

LEMMA AskLearningStep ==
  ASSUME ChunksListed, WorkflowsInv, NEW r \in Runs, AskLearning(r)
  PROVE  WorkflowsInv'
<1> DEFINE step == run[r].phase
<1>1. Shape /\ TicketInv /\ SnapshotInv /\ LearnedIsCurrent /\ RunInv(r) /\ run[r] \in RunRow
  BY DEF WorkflowsInv, Shape
<1>2. PICK of \in Nat : of = run[r].of /\ of <= text
  BY <1>1 DEF RunRow, RunInv
<1>3. PICK asked \in LearningSteps : asked = step
  BY DEF AskLearning
<1>4. Current(of) /\ run[r].kind = "learning" /\ closure.status # "none"
  BY <1>1, <1>2, <1>3 DEF RunInv, RunCurrent, Later, Current
<1>5. text' = text /\ closure' = closure
  BY DEF AskLearning
<1>6. PICK reply \in {"good", "bad", "failed", "uncertain", "later"} :
        /\ Asked(asked, of, reply)
        /\ \/ \E end \in {"done", "failed", "again", "retry", "unknown"} : run' = Ends(r, end)
           \/ run' = [run EXCEPT ![r].phase = "store", ![r].of = About(asked, @)]
           \/ run' = [run EXCEPT ![r].phase = "memorize-repair"]
  BY <1>2, <1>3 DEF AskLearning, EndOf
<1>7. asked \in Steps /\ reply \in Replies \cup {"later"}
  BY DEF Steps, Replies
<1>8. calls' \in [Steps -> CallRow] /\ \A s \in Steps : calls'[s] = calls[s] \/ CallInv(s)'
  BY <1>2, <1>4, <1>5, <1>6, <1>7, AskedKept
<1>9. PICK about \in Nat : about = About(asked, of) /\ about <= text /\ Current(about)
  BY <1>2, <1>4, <1>5, <1>6, <1>7, AskedKept
<1>10. {"store", "memorize-repair"} \subseteq Phases
  BY StepsApart DEF Later, LearningSteps
<1>11. run' \in [Runs -> RunRow] /\ \A q \in Runs : run'[q] = run[q] \/ RunInv(q)'
  <2>1. CASE \E end \in {"done", "failed", "again", "retry", "unknown"} : run' = Ends(r, end)
    BY <1>5, <2>1, EndsKept
  <2>2. ASSUME NEW phase \in {"store", "memorize-repair"}, NEW now \in Nat, now <= text, Current(now),
               run' = [run EXCEPT ![r] = [run[r] EXCEPT !.phase = phase, !.of = now]]
        PROVE  run' \in [Runs -> RunRow] /\ \A q \in Runs : run'[q] = run[q] \/ RunInv(q)'
    <3> DEFINE row == [run[r] EXCEPT !.phase = phase, !.of = now]
    <3>1. row \in RunRow /\ row.of = now /\ row.kind = run[r].kind
      BY <1>1, <1>10 DEF RunRow
    <3>2. Current(now)'
      BY <1>5, <2>2 DEF Current
    <3>3. run' = [run EXCEPT ![r] = row]
      BY <2>2
    <3> HIDE DEF row
    <3>4. row.kind = run[r].kind /\ row.of = now /\ now <= text /\ text' = text
      BY <1>5, <2>2, <3>1
    <3>5. closure'.status # "none" /\ row.kind = "learning"
      BY <1>4, <1>5, <3>1
    <3> QED
      BY <3>1, <3>2, <3>3, <3>4, <3>5, MovesKept
  <2>3. CASE run' = [run EXCEPT ![r].phase = "store", ![r].of = About(asked, @)]
    <3>1. run' = [run EXCEPT ![r] = [run[r] EXCEPT !.phase = "store", !.of = about]]
      BY <1>1, <1>2, <1>9, <2>3 DEF Shape
    <3> QED
      BY <1>9, <2>2, <3>1
  <2>4. CASE run' = [run EXCEPT ![r].phase = "memorize-repair"]
    <3>1. run' = [run EXCEPT ![r] = [run[r] EXCEPT !.phase = "memorize-repair", !.of = of]]
      <4>1. [run[r] EXCEPT !.phase = "memorize-repair", !.of = of] = [run[r] EXCEPT !.phase = "memorize-repair"]
        BY <1>1, <1>2 DEF RunRow
      <4> QED
        BY <1>1, <2>4, <4>1 DEF Shape
    <3> QED
      BY <1>2, <1>4, <2>2, <3>1
  <2> QED
    BY <1>6, <2>1, <2>3, <2>4
<1>12. Shape' /\ Onward
  BY <1>1, <1>8, <1>11 DEF Shape, Onward, AskLearning
<1>13. TicketInv' /\ SnapshotInv' /\ LearnedIsCurrent'
  BY <1>1 DEF TicketInv, SnapshotInv, Current, LearnedIsCurrent, AskLearning
<1> QED
  BY <1>8, <1>11, <1>12, <1>13, RestKept

(* What is learned is about the text as it is.                             *)
LEMMA StoreStep ==
  ASSUME ChunksListed, WorkflowsInv, NEW r \in Runs, StoreResolution(r)
  PROVE  /\ WorkflowsInv'
         /\ record'.of # record.of =>
              record'.of = text /\ closure.status # "invalidated" /\ ticket.status = "closed" /\ ticket.granted
<1>1. Shape /\ TicketInv /\ SnapshotInv /\ LearnedIsCurrent /\ RunInv(r) /\ run[r] \in RunRow
      /\ record \in [of : Nat, eligible : BOOLEAN]
  BY DEF WorkflowsInv, Shape
<1>2. text' = text /\ ticket' = ticket /\ job' = job /\ calls' = calls /\ late' = late
  BY DEF StoreResolution
<1>3. CASE ~Eligible("learning")
  <2>1. run' = Ends(r, "canceled") /\ closure' = closure /\ record' = record
    BY <1>3 DEF StoreResolution
  <2>2. run' \in [Runs -> RunRow] /\ \A q \in Runs : run'[q] = run[q] \/ RunInv(q)'
    BY <1>2, <2>1, EndsKept
  <2>3. Shape' /\ Onward
    BY <1>1, <1>2, <2>1, <2>2 DEF Shape, Onward
  <2>4. TicketInv' /\ SnapshotInv' /\ LearnedIsCurrent'
    BY <1>1, <1>2, <2>1 DEF TicketInv, SnapshotInv, Current, LearnedIsCurrent
  <2> QED
    BY <1>2, <2>1, <2>2, <2>3, <2>4, RestKept
<1>4. CASE Eligible("learning")
  <2>1. /\ run[r].of = text /\ text \in Nat
        /\ closure.status \notin {"none", "invalidated"}
        /\ ticket.status = "closed" /\ ticket.granted /\ ticket.lifecycle = 1
    BY <1>1, <1>4 DEF StoreResolution, Eligible, RunInv, RunCurrent, Current, Later, TicketInv, Shape
  <2>2. record' \in [of : Nat, eligible : BOOLEAN] /\ (record' = record \/ record'.of = text)
    BY <1>1, <1>4, <2>1 DEF StoreResolution
  <2>3. closure' \in ClosureRow /\ closure'.status = "persistence_pending" /\ closure'.snapshot = closure.snapshot
    BY <1>1, <1>4 DEF StoreResolution, ClosureRow, Shape
  <2>4. run' \in [Runs -> RunRow] /\ \A q \in Runs : run'[q] = run[q] \/ RunInv(q)'
    <3>1. run' = Ends(r, "again")
      BY <1>4 DEF StoreResolution
    <3> QED
      BY <1>2, <2>3, <3>1, EndsKept
  <2>5. Shape' /\ Onward
    BY <1>1, <1>2, <2>1, <2>2, <2>3, <2>4 DEF Shape, Onward
  <2>6. TicketInv' /\ SnapshotInv' /\ LearnedIsCurrent'
    BY <1>1, <1>2, <2>1, <2>2, <2>3 DEF TicketInv, SnapshotInv, Current, LearnedIsCurrent
  <2> QED
    BY <1>2, <2>1, <2>2, <2>4, <2>5, <2>6, RestKept
<1> QED
  BY <1>3, <1>4

-----------------------------------------------------------------------------
(* The invariant is kept, and what it says of a step.                      *)

LEMMA StepInv ==
  ASSUME ChunksListed, WorkflowsInv, [Next]_vars
  PROVE  WorkflowsInv'
<1>1. CASE Meanwhile
  BY <1>1, UndoneStep, ClassifyStep, CloseStep, DeadlineOrPersist, MaintainStep DEF Meanwhile
<1>2. CASE Runner
  BY <1>2, EndRunStep, CrashStep, ClaimStep DEF Runner
<1>3. CASE Triage
  BY <1>3, BeginTriageStep, AskTriageStep, ApplyTriageStep DEF Triage
<1>4. CASE Learning
  BY <1>4, BeginLearningStep, AskLearningStep, StoreStep DEF Learning
<1>5. CASE UNCHANGED vars
  <2>1. /\ text' = text /\ ticket' = ticket /\ closure' = closure /\ record' = record
        /\ job' = job /\ run' = run /\ calls' = calls /\ late' = late
    BY <1>5 DEF vars
  <2>2. Shape' /\ Onward
    BY <2>1 DEF WorkflowsInv, Shape, Onward
  <2>3. TicketInv' /\ SnapshotInv' /\ LearnedIsCurrent'
    BY <2>1 DEF WorkflowsInv, TicketInv, SnapshotInv, Current, LearnedIsCurrent
  <2> QED
    BY <2>1, <2>2, <2>3, RestKept
<1> QED
  BY <1>1, <1>2, <1>3, <1>4, <1>5 DEF Next

LEMMA UsedIsCurrent ==
  ASSUME ChunksListed, WorkflowsInv, [Next]_vars
  PROVE  /\ ticket'.by = "model" /\ ticket.by # "model" =>
              ticket'.of \in {text, Never} /\ ticket.by = "nobody" /\ ticket.status = "open" /\ ticket.granted /\ ~late
         /\ record'.of # record.of =>
              record'.of = text /\ closure.status # "invalidated" /\ ticket.status = "closed" /\ ticket.granted
         /\ LearnedIsCurrent'
<1>1. LearnedIsCurrent'
  BY StepInv DEF WorkflowsInv
<1>2. ticket \in TicketRow /\ record \in [of : Nat, eligible : BOOLEAN]
  BY DEF WorkflowsInv, Shape
<1>3. ticket'.by = "model" /\ ticket.by # "model" => \E r \in Runs : ApplyTriage(r)
  <2>1. ticket'.by = "model" /\ ticket.by # "model" /\ ~(\E r \in Runs : ApplyTriage(r)) => ~Meanwhile
    BY <1>2 DEF Meanwhile, EditMessage, Classify, Close, Reopen, Withdraw, Deadline, Maintain, Persist, TicketRow
  <2>2. ticket'.by = "model" /\ ticket.by # "model" => ~Runner
    <3>1. ASSUME NEW r \in Runs, EndRun(r) PROVE ticket'.by = ticket.by
      BY <1>2, <3>1 DEF EndRun, TicketRow
    <3> QED
      BY <3>1 DEF Runner, Crash, Claim
  <2> QED
    BY <2>1, <2>2 DEF Next, vars, Triage, BeginTriage, AskTriage, Learning, BeginLearning, AskLearning, StoreResolution
<1>4. record'.of # record.of => \E r \in Runs : StoreResolution(r)
  <2>1. Meanwhile => record'.of = record.of
    BY <1>2 DEF Meanwhile, EditMessage, Classify, Close, Reopen, Withdraw, Deadline, Maintain, Persist, Invalidate
  <2> QED
    BY <2>1 DEF Next, vars, Runner, EndRun, Crash, Claim, Triage, BeginTriage, AskTriage, ApplyTriage,
                Learning, BeginLearning, AskLearning
<1> QED
  BY <1>1, <1>3, <1>4, ApplyTriageStep, StoreStep

-----------------------------------------------------------------------------
(* Types: what the invariant above does not say.                           *)

\* A revision and a life of the ticket begin with a turn; nothing is about a revision to come.
Aged ==
    /\ turns \in 0 .. MaxTurns
    /\ text <= turns + 1 /\ ticket.lifecycle >= 1 /\ ticket.lifecycle <= turns + 1
    /\ ticket.of <= text /\ closure.snapshot <= text /\ record.of <= text

\* A job that may be tried again has not failed as often as it may.
Tried(row) ==
    /\ row.generation <= MaxClaims /\ row.retries <= MaxRetries
    /\ row.state # "failed" => row.retries < MaxRetries

Bounds ==
    /\ Aged
    /\ \A k \in Kinds : Tried(job[k])
    /\ \A r \in Runs : run[r].generation <= MaxClaims
    /\ checkpoints \subseteq Steps

Limits == MaxTurns \in Nat /\ MaxClaims \in Nat /\ MaxRetries \in Nat \ {0}

LEMMA BoundsInit == Limits /\ Init => Bounds
<1> SUFFICES ASSUME Limits, Init PROVE Bounds
  OBVIOUS
<1>1. Aged
  BY DEF Limits, Init, Aged, Never
<1>2. \A k \in Kinds : Tried(job[k])
  BY DEF Limits, Init, Tried
<1>3. \A r \in Runs : run[r].generation <= MaxClaims
  <2>1. Idle.generation = 0 /\ 0 <= MaxClaims
    BY DEF Limits, Idle
  <2>2. \A r \in Runs : run[r] = Idle
    BY DEF Init
  <2> QED BY <2>1, <2>2
<1> QED BY <1>1, <1>2, <1>3 DEF Init, Bounds

(* What a step adds.                                                       *)
LEMMA Ages ==
  ASSUME ChunksListed, WorkflowsInv, [Next]_vars
  PROVE  /\ turns' = turns \/ TakeTurn
         /\ text' = text \/ (text' = text + 1 /\ TakeTurn)
         /\ ticket'.lifecycle = ticket.lifecycle \/ (ticket'.lifecycle = ticket.lifecycle + 1 /\ TakeTurn)
         /\ ticket'.of \in {ticket.of, Never} \/ \E r \in Runs : ticket'.of = run[r].of
         /\ closure'.snapshot \in {closure.snapshot, text}
         /\ record'.of = record.of \/ \E r \in Runs : record'.of = run[r].of
<1>1. ticket \in TicketRow /\ closure \in ClosureRow /\ record \in [of : Nat, eligible : BOOLEAN]
  BY DEF WorkflowsInv, Shape
<1>2. turns' = turns \/ TakeTurn
  BY DEF Next, vars, Meanwhile, EditMessage, Classify, Close, Reopen, Withdraw, Deadline, Maintain, Persist,
         Runner, EndRun, Crash, Claim, Triage, BeginTriage, AskTriage, ApplyTriage,
         Learning, BeginLearning, AskLearning, StoreResolution
<1>3. text' = text \/ (text' = text + 1 /\ TakeTurn)
  BY DEF Next, vars, Meanwhile, EditMessage, Classify, Close, Reopen, Withdraw, Deadline, Maintain, Persist,
         Runner, EndRun, Crash, Claim, Triage, BeginTriage, AskTriage, ApplyTriage,
         Learning, BeginLearning, AskLearning, StoreResolution
<1>4. CASE Meanwhile
  <2>1. /\ ticket'.of \in {ticket.of, Never}
        /\ ticket'.lifecycle = ticket.lifecycle \/ (ticket'.lifecycle = ticket.lifecycle + 1 /\ TakeTurn)
    BY <1>1, <1>4 DEF Meanwhile, EditMessage, Classify, Close, Reopen, Withdraw, Deadline, Maintain, Persist, TicketRow
  <2>2. closure'.snapshot = closure.snapshot
    BY <1>1, <1>4 DEF Meanwhile, EditMessage, Classify, Close, Reopen, Withdraw, Deadline, Maintain, Persist,
                      Invalidate, ClosureRow
  <2>3. record'.of = record.of
    BY <1>1, <1>4 DEF Meanwhile, EditMessage, Classify, Close, Reopen, Withdraw, Deadline, Maintain, Persist, Invalidate
  <2> QED BY <1>2, <1>3, <2>1, <2>2, <2>3
<1>5. CASE \/ UNCHANGED vars \/ Runner
           \/ \E r \in Runs : BeginTriage(r) \/ AskTriage(r) \/ AskLearning(r)
  <2>1. record' = record
    BY <1>5 DEF vars, Runner, EndRun, Crash, Claim, BeginTriage, AskTriage, AskLearning
  <2>2. ticket' = ticket \/ ticket' = [ticket EXCEPT !.ai = "failed"]
    BY <1>5 DEF vars, Runner, EndRun, Crash, Claim, BeginTriage, AskTriage, AskLearning
  <2>3. closure' = closure \/ \E status : closure' = [closure EXCEPT !.status = status]
    BY <1>5 DEF vars, Runner, EndRun, Crash, Claim, BeginTriage, AskTriage, AskLearning
  <2>4. ticket'.of = ticket.of /\ ticket'.lifecycle = ticket.lifecycle
    BY <1>1, <2>2 DEF TicketRow
  <2>5. closure'.snapshot = closure.snapshot
    BY <1>1, <2>3 DEF ClosureRow
  <2> QED BY <1>2, <1>3, <2>1, <2>4, <2>5
<1>6. CASE \E r \in Runs : ApplyTriage(r)
  <2>1. PICK r \in Runs : ApplyTriage(r)
    BY <1>6
  <2>2. closure' = closure /\ record' = record
    BY <2>1 DEF ApplyTriage
  <2>3. \/ ticket' = ticket
        \/ \E ai : ticket' = [ticket EXCEPT !.ai = ai]
        \/ \E ai, by, of : of \in {ticket.of, run[r].of} /\ ticket' = [ticket EXCEPT !.by = by, !.of = of, !.ai = ai]
    <3>1. ASSUME NEW ai, NEW by, NEW of
          PROVE  [[ticket EXCEPT !.by = by, !.of = of] EXCEPT !.ai = ai] = [ticket EXCEPT !.by = by, !.of = of, !.ai = ai]
      BY <1>1 DEF TicketRow
    <3> QED BY <2>1, <3>1 DEF ApplyTriage
  <2>4. ticket'.lifecycle = ticket.lifecycle /\ ticket'.of \in {ticket.of, run[r].of}
    BY <1>1, <2>3 DEF TicketRow
  <2> QED BY <1>2, <1>3, <2>1, <2>2, <2>4
<1>7. CASE \E r \in Runs : BeginLearning(r) \/ StoreResolution(r)
  <2>1. PICK r \in Runs : BeginLearning(r) \/ StoreResolution(r)
    BY <1>7
  <2>2. ticket' = ticket
    BY <2>1 DEF BeginLearning, StoreResolution
  <2>3. closure'.snapshot \in {closure.snapshot, text}
    BY <1>1, <2>1 DEF BeginLearning, StoreResolution, ClosureRow
  <2>4. record'.of \in {record.of, run[r].of}
    BY <2>1 DEF BeginLearning, StoreResolution
  <2> QED BY <1>2, <1>3, <2>1, <2>2, <2>3, <2>4
<1> QED BY <1>4, <1>5, <1>6, <1>7 DEF Next, Triage, Learning

LEMMA AgedStep ==
  ASSUME ChunksListed, Limits, WorkflowsInv, Aged, [Next]_vars
  PROVE  Aged'
<1>1. /\ turns \in Nat /\ turns <= MaxTurns /\ MaxTurns \in Nat /\ text \in Nat
      /\ ticket.lifecycle \in Nat /\ ticket.of \in Nat /\ closure.snapshot \in Nat /\ record.of \in Nat
      /\ \A r \in Runs : run[r].of \in Nat /\ run[r].of <= text
  BY DEF Limits, Aged, WorkflowsInv, Shape, TicketRow, ClosureRow, RunRow, RunInv
<1>2. /\ turns' = turns \/ (turns < MaxTurns /\ turns' = turns + 1)
      /\ text' = text \/ (text' = text + 1 /\ turns' = turns + 1)
      /\ ticket'.lifecycle = ticket.lifecycle \/ (ticket'.lifecycle = ticket.lifecycle + 1 /\ turns' = turns + 1)
  BY Ages DEF TakeTurn
<1>3. turns' \in 0 .. MaxTurns /\ turns <= turns' /\ text <= text' /\ text' \in Nat /\ turns' \in Nat
  BY <1>1, <1>2
<1>4. text' <= turns' + 1 /\ ticket'.lifecycle >= 1 /\ ticket'.lifecycle <= turns' + 1
  BY <1>1, <1>2 DEF Aged
<1>5. \A of \in Nat : of <= text => of <= text'
  BY <1>1, <1>3
<1>6. ticket'.of \in Nat /\ ticket'.of <= text
  <2>1. ticket'.of \in {ticket.of, 0} \/ \E r \in Runs : ticket'.of = run[r].of
    BY Ages DEF Never
  <2> QED BY <1>1, <2>1 DEF Aged
<1>7. closure'.snapshot \in Nat /\ closure'.snapshot <= text
  <2>1. closure'.snapshot \in {closure.snapshot, text}
    BY Ages
  <2> QED BY <1>1, <2>1 DEF Aged
<1>8. record'.of \in Nat /\ record'.of <= text
  <2>1. record'.of = record.of \/ \E r \in Runs : record'.of = run[r].of
    BY Ages
  <2> QED BY <1>1, <2>1 DEF Aged
<1> QED BY <1>3, <1>4, <1>5, <1>6, <1>7, <1>8 DEF Aged

(* A step that leaves the counts of a job, and one that failed, as they are. *)
Left(old, new) ==
    /\ new.generation = old.generation /\ new.retries = old.retries
    /\ old.state = "failed" => new.state = "failed"

LEMMA JobsLeft ==
  ASSUME WorkflowsInv, Meanwhile, NEW k \in Kinds
  PROVE  Left(job[k], job'[k])
<1>1. job \in [Kinds -> JobRow] /\ job[k] \in JobRow
  BY DEF WorkflowsInv, Shape
<1>2. ASSUME NEW row \in JobRow, NEW state, row.state # "failed"
      PROVE  Left(row, [row EXCEPT !.state = state])
  BY <1>2 DEF Left, JobRow
<1>3. job'[k] = job[k] => Left(job[k], job'[k])
  BY DEF Left
<1>4. CASE EditMessage \/ Reopen \/ Withdraw
  <2>1. job'[k] = job[k] \/ (Active(job[k].state) /\ job'[k] = [job[k] EXCEPT !.state = "canceled"])
    BY <1>4 DEF EditMessage, Reopen, Withdraw, Invalidate
  <2> QED BY <1>1, <1>2, <1>3, <2>1 DEF Active
<1>5. CASE Close
  <2> DEFINE state == IF ticket.ai = "skipped" THEN "pending" ELSE job["learning"].state
  <2>1. job["learning"].state = "none" /\ "learning" \in Kinds
    BY <1>5 DEF Close, WorkflowsInv, TicketInv, Kinds
  <2>2. job' = [job EXCEPT !["learning"].state = state]
    BY <1>5 DEF Close
  <2>3. job'[k] = IF k = "learning" THEN [job[k] EXCEPT !.state = state] ELSE job[k]
    BY <1>1, <2>1, <2>2
  <2> HIDE DEF state
  <2> QED BY <1>1, <1>2, <1>3, <2>1, <2>3
<1>6. CASE Classify \/ Deadline \/ Persist
  BY <1>3, <1>6 DEF Classify, Deadline, Persist
<1>7. CASE Maintain
  <2> DEFINE expired == late /\ ticket.ai = "pending"
             first   == IF expired /\ Active(job["triage"].state) THEN "canceled" ELSE job["triage"].state
             settled == [job EXCEPT !["triage"].state = IF expired /\ Active(@) THEN "canceled" ELSE @]
  <2>1. settled \in [Kinds -> JobRow] /\ Left(job[k], settled[k])
    <3>1. first \in {"none", "pending", "running", "done", "failed", "canceled", "unknown"} /\ "triage" \in Kinds
      BY <1>1 DEF JobRow, Kinds
    <3>0. settled = [job EXCEPT !["triage"].state = first]
      OBVIOUS
    <3>2. settled[k] = IF k = "triage" THEN [job[k] EXCEPT !.state = first] ELSE job[k]
      BY <1>1, <3>1
    <3>3. k = "triage" /\ job[k].state = "failed" => [job[k] EXCEPT !.state = first] = job[k]
      BY <1>1 DEF Active, JobRow
    <3>4. settled \in [Kinds -> JobRow]
      <4>1. [job["triage"] EXCEPT !.state = first] \in JobRow
        <5>1. job["triage"] \in JobRow
          BY <1>1, <3>1
        <5> HIDE DEF first
        <5> QED BY <3>1, <5>1 DEF JobRow
      <4> HIDE DEF first, settled
      <4> QED BY <1>1, <3>0, <3>1, <4>1
    <3> HIDE DEF first, settled
    <3>5. Left(job[k], settled[k])
      <4>1. CASE k = "triage" /\ job[k].state # "failed"
        BY <1>1, <1>2, <3>2, <4>1
      <4>2. CASE ~(k = "triage" /\ job[k].state # "failed")
        BY <3>2, <3>3, <4>2 DEF Left
      <4> QED BY <4>1, <4>2
    <3> QED BY <3>4, <3>5
  <2>2. \E old \in SUBSET {j \in Kinds : settled[j].state = "running" /\ (j = "triage" => late)} :
          job' = [j \in Kinds |-> IF j \in old THEN [settled[j] EXCEPT !.state = "pending"] ELSE settled[j]]
    BY <1>7 DEF Maintain
  <2> HIDE DEF settled
  <2>3. job'[k] = settled[k] \/ (settled[k].state = "running" /\ job'[k] = [settled[k] EXCEPT !.state = "pending"])
    BY <2>2
  <2>4. Left(settled[k], job'[k])
    <3>1. settled[k] \in JobRow
      BY <2>1
    <3>2. job'[k] = settled[k] => Left(settled[k], job'[k])
      BY DEF Left
    <3> QED BY <1>2, <2>3, <3>1, <3>2
  <2> QED BY <2>1, <2>4 DEF Left
<1> QED BY <1>4, <1>5, <1>6, <1>7 DEF Meanwhile

(* A claim counts a run of the job; a retry fails it when there were enough. *)
LEMMA TriedStep ==
  ASSUME ChunksListed, Limits, WorkflowsInv, Bounds, [Next]_vars
  PROVE  (\A k \in Kinds : Tried(job[k]))' /\ (\A r \in Runs : run[r].generation <= MaxClaims)'
<1>1. /\ job \in [Kinds -> JobRow] /\ run \in [Runs -> RunRow] /\ \A k \in Kinds : Tried(job[k])
      /\ \A r \in Runs : run[r].generation <= MaxClaims
      /\ MaxClaims \in Nat /\ MaxRetries \in Nat /\ 0 < MaxRetries
  BY DEF WorkflowsInv, Shape, Bounds, Limits
<1>2. Idle.generation = 0 /\ 0 <= MaxClaims
  BY <1>1 DEF Idle
<1>3. CASE UNCHANGED vars \/ Triage \/ Learning
  <2>1. job' = job
    BY <1>3 DEF vars, Triage, BeginTriage, AskTriage, ApplyTriage, Learning, BeginLearning, AskLearning, StoreResolution
  <2>2. ASSUME NEW r \in Runs PROVE run'[r].generation = run[r].generation
    <3>1. run' = run \/ \E q \in Runs :
            \/ \E end : run' = Ends(q, end)
            \/ \E phase, outcome, of : Outcome(q, phase, outcome, of)
            \/ \E phase, of : run' = [run EXCEPT ![q].phase = phase, ![q].of = of]
            \/ \E phase : run' = [run EXCEPT ![q].phase = phase]
      <4>1. ASSUME NEW q \in Runs, NEW of
            PROVE  [run EXCEPT ![q].phase = "store", ![q].of = About(run[q].phase, @)]
                     = [run EXCEPT ![q].phase = "store", ![q].of = About(run[q].phase, run[q].of)]
        BY <1>1 DEF RunRow
      <4>2. CASE UNCHANGED vars
        BY <4>2 DEF vars
      <4>3. CASE Triage
        <5>1. PICK q \in Runs : BeginTriage(q) \/ AskTriage(q) \/ ApplyTriage(q)
          BY <4>3 DEF Triage
        <5>2. CASE BeginTriage(q)
          BY <5>2 DEF BeginTriage
        <5>3. CASE AskTriage(q)
          <6>1. (\E end : run' = Ends(q, end)) \/ \E phase, outcome, of : Outcome(q, phase, outcome, of)
            BY <5>3 DEF AskTriage
          <6> QED BY <6>1
        <5>4. CASE ApplyTriage(q)
          <6>1. \E end : run' = Ends(q, end)
            BY <5>4 DEF ApplyTriage
          <6> QED BY <6>1
        <5> QED BY <5>1, <5>2, <5>3, <5>4
      <4>4. CASE Learning
        BY <4>1, <4>4 DEF Learning, BeginLearning, AskLearning, StoreResolution
      <4> QED BY <1>3, <4>2, <4>3, <4>4
    <3>2. ASSUME NEW q \in Runs, NEW end, run' = Ends(q, end) PROVE run'[r].generation = run[r].generation
      BY <1>1, <3>2 DEF Ends, RunRow
    <3>3. ASSUME NEW q \in Runs, NEW phase, NEW outcome, NEW of, Outcome(q, phase, outcome, of)
          PROVE  run'[r].generation = run[r].generation
      BY <1>1, <3>3 DEF Outcome, RunRow
    <3>4. ASSUME NEW q \in Runs, NEW phase, NEW of, run' = [run EXCEPT ![q].phase = phase, ![q].of = of]
          PROVE  run'[r].generation = run[r].generation
      BY <1>1, <3>4 DEF RunRow
    <3>5. ASSUME NEW q \in Runs, NEW phase, run' = [run EXCEPT ![q].phase = phase]
          PROVE  run'[r].generation = run[r].generation
      BY <1>1, <3>5 DEF RunRow
    <3> QED BY <3>1, <3>2, <3>3, <3>4, <3>5
  <2> QED BY <1>1, <2>1, <2>2
<1>4. CASE Meanwhile
  <2>1. run' = run
    BY <1>4 DEF Meanwhile, EditMessage, Classify, Close, Reopen, Withdraw, Deadline, Maintain, Persist, OnlyTicket
  <2>2. ASSUME NEW k \in Kinds PROVE Tried(job'[k])
    BY <1>1, <1>4, JobsLeft DEF Left, Tried
  <2> QED BY <1>1, <2>1, <2>2
<1>5. CASE \E r \in Runs : Crash(r)
  <2>1. PICK r \in Runs : Crash(r)
    BY <1>5
  <2>2. job' = job /\ run' = [run EXCEPT ![r] = Idle]
    BY <2>1 DEF Crash
  <2> QED BY <1>1, <1>2, <2>2
<1>6. CASE \E r \in Runs, k \in Kinds : Claim(r, k)
  <2>1. PICK r \in Runs, k \in Kinds : Claim(r, k)
    BY <1>6
  <2> DEFINE generation == job[k].generation + 1
             row == [Idle EXCEPT !.kind = k, !.generation = generation, !.phase = "begin"]
  <2>2. /\ job[k].state = "pending" /\ job[k].generation < MaxClaims
        /\ job' = [job EXCEPT ![k].state = "running", ![k].generation = @ + 1]
        /\ run' = [run EXCEPT ![r] = row]
    BY <2>1 DEF Claim
  <2>3. job[k] \in JobRow /\ job[k].generation \in Nat
    BY <1>1 DEF JobRow
  <2>4. generation <= MaxClaims
    BY <1>1, <2>2, <2>3
  <2>5. job' = [job EXCEPT ![k] = [job[k] EXCEPT !.state = "running", !.generation = generation]]
    BY <1>1, <2>2
  <2> HIDE DEF generation
  <2>6. row.generation = generation
    BY IdleTyped DEF RunRow
  <2>7. Tried([job[k] EXCEPT !.state = "running", !.generation = generation])
    BY <1>1, <2>2, <2>3, <2>4 DEF Tried, JobRow
  <2> HIDE DEF row
  <2> QED BY <1>1, <2>2, <2>4, <2>5, <2>6, <2>7
<1>7. CASE \E r \in Runs : EndRun(r)
  <2>1. PICK r \in Runs : EndRun(r)
    BY <1>7
  <2>2. run' = [run EXCEPT ![r] = Idle]
    BY <2>1 DEF EndRun
  <2> DEFINE k == run[r].kind  state == StateAfter(r)
             retries == IF run[r].end = "retry" THEN job[k].retries + 1
                        ELSE IF run[r].end = "again" THEN 0 ELSE job[k].retries
  <2>3. job' # job => /\ job[k].state = "running"
                      /\ job' = [job EXCEPT ![k] = [job[k] EXCEPT !.state = state, !.retries = retries]]
    <3>1. job' # job => /\ job[k].state = "running"
                        /\ job' = [job EXCEPT ![k].state = state,
                                              ![k].retries = IF run[r].end = "retry" THEN @ + 1
                                                             ELSE IF run[r].end = "again" THEN 0 ELSE @]
      BY <2>1 DEF EndRun, Holds
    <3>2. [job EXCEPT ![k].state = state,
                      ![k].retries = IF run[r].end = "retry" THEN @ + 1
                                     ELSE IF run[r].end = "again" THEN 0 ELSE @]
            = [job EXCEPT ![k] = [job[k] EXCEPT !.state = state, !.retries = retries]]
      <4>1. k \in Kinds /\ job[k] \in JobRow
        BY <1>1 DEF RunRow
      <4> HIDE DEF k, state
      <4> QED BY <1>1, <4>1
    <3> QED BY <3>1, <3>2
  <2>4. ASSUME job' # job PROVE \A j \in Kinds : Tried(job'[j])
    <3>1. k \in Kinds /\ job[k] \in JobRow /\ job[k].retries \in Nat /\ job[k].retries < MaxRetries
          /\ Tried(job[k])
      <4>1. k \in Kinds /\ job[k] \in JobRow
        BY <1>1 DEF RunRow
      <4> HIDE DEF k
      <4> QED BY <1>1, <2>3, <2>4, <4>1 DEF JobRow, Tried
    <3>2. retries <= MaxRetries /\ (state # "failed" => retries < MaxRetries)
      BY <1>1, <3>1 DEF StateAfter
    <3> HIDE DEF k, state, retries
    <3>3. Tried([job[k] EXCEPT !.state = state, !.retries = retries])
      BY <3>1, <3>2 DEF Tried, JobRow
    <3> QED BY <1>1, <2>3, <2>4, <3>1, <3>3
  <2> QED BY <1>1, <1>2, <2>2, <2>4
<1> QED BY <1>3, <1>4, <1>5, <1>6, <1>7 DEF Next, Runner

LEMMA BoundsStep ==
  ASSUME ChunksListed, Limits, WorkflowsInv, Bounds, [Next]_vars
  PROVE  Bounds'
<1>1. checkpoints' \subseteq Steps
  <2>1. \/ checkpoints' \in {checkpoints, checkpoints \cup {"memorize"}}
        \/ \E r \in Runs : run[r].phase \in LearningSteps /\ checkpoints' \in {checkpoints, checkpoints \cup {run[r].phase}}
    BY DEF Next, vars, Meanwhile, EditMessage, Classify, Close, Reopen, Withdraw, Deadline, Maintain, Persist, OnlyTicket,
           Runner, EndRun, Crash, Claim, Triage, BeginTriage, AskTriage, ApplyTriage,
           Learning, BeginLearning, AskLearning, StoreResolution
  <2> QED BY <2>1 DEF Bounds, Steps, LearningSteps
<1>2. Aged'
  BY AgedStep DEF Bounds
<1> QED BY <1>1, <1>2, TriedStep DEF Bounds

LEMMA Typed == WorkflowsInv /\ Limits /\ Bounds => TypeOK
<1> SUFFICES ASSUME WorkflowsInv, Limits, Bounds PROVE TypeOK
  OBVIOUS
<1>1. Shape /\ Aged
  BY DEF WorkflowsInv, Bounds
<1>2. /\ turns \in 0 .. MaxTurns /\ MaxTurns \in Nat /\ text \in Nat /\ text <= MaxTurns + 1
  BY <1>1 DEF Shape, Aged, Limits
<1>3. ASSUME NEW of \in Nat, of <= text PROVE of \in Revisions
  BY <1>2, <1>3 DEF Revisions
<1>4. text \in Revisions
  BY <1>2 DEF Revisions
<1>5. ticket \in Ticket
  <2>1. ticket \in TicketRow /\ ticket.of \in Revisions /\ ticket.lifecycle \in 1 .. MaxTurns + 1
    BY <1>1, <1>2, <1>3 DEF Shape, Aged, TicketRow
  <2> QED BY <2>1 DEF TicketRow, Ticket
<1>6. closure \in Closure /\ record \in Record
  <2>1. /\ closure \in ClosureRow /\ closure.snapshot \in Revisions
        /\ record \in [of : Nat, eligible : BOOLEAN] /\ record.of \in Revisions
    BY <1>1, <1>3 DEF Shape, Aged, ClosureRow
  <2> QED BY <2>1 DEF ClosureRow, Closure, Record
<1>7. job \in [Kinds -> Job]
  <2> SUFFICES ASSUME NEW k \in Kinds PROVE job[k] \in Job
    BY <1>1 DEF Shape
  <2>1. job[k] \in JobRow /\ job[k].generation \in 0 .. MaxClaims /\ job[k].retries \in 0 .. MaxRetries
    BY <1>1 DEF Shape, JobRow, Bounds, Tried, Limits
  <2> QED BY <2>1 DEF JobRow, Job
<1>8. run \in [Runs -> Run]
  <2> SUFFICES ASSUME NEW r \in Runs PROVE run[r] \in Run
    BY <1>1 DEF Shape
  <2>1. run[r] \in RunRow /\ run[r].generation \in 0 .. MaxClaims
    BY <1>1 DEF Shape, RunRow, Bounds, Limits
  <2>2. run[r].of \in Revisions
    BY <1>3, <2>1 DEF WorkflowsInv, RunInv, RunRow
  <2> QED BY <2>1, <2>2 DEF RunRow, Run
<1>9. calls \in [Steps -> [reply : Replies, of : Revisions]]
  <2> SUFFICES ASSUME NEW s \in Steps PROVE calls[s] \in [reply : Replies, of : Revisions]
    BY <1>1 DEF Shape
  <2>1. calls[s] \in CallRow
    BY <1>1 DEF Shape
  <2>2. calls[s].of \in Revisions
    BY <1>3, <2>1 DEF WorkflowsInv, CallInv, CallRow
  <2> QED BY <2>1, <2>2 DEF CallRow
<1> QED BY <1>1, <1>2, <1>4, <1>5, <1>6, <1>7, <1>8, <1>9 DEF TypeOK, Shape, Bounds
=============================================================================
