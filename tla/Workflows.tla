----------------------------- MODULE Workflows -----------------------------
(***************************************************************************)
(* The two things a language model does for a ticket: triage classifies a  *)
(* new one, learning distils a closed one.  Each is a job, run in steps    *)
(* whose replies stay (Calls): a run that begins anew gets the same reply  *)
(* to the same step, and asks only the rest.                               *)
(*                                                                         *)
(* The model is asked without a lock.  Meanwhile the client may edit the   *)
(* message or withdraw, the staff classify, close or reopen the ticket,    *)
(* the deadline of the triage may pass, and the job may be recovered and   *)
(* be run a second time next to the first.  The result is written in a     *)
(* transaction of its own that looks again.                                *)
(***************************************************************************)
EXTENDS Naturals, Sequences

CONSTANTS
    Runs,           \* workers; two runs of one job may overlap
    Chunks,         \* the extraction steps of learning in their order; none if all fits at once
    MaxClaims,      \* bound: runs of one job
    MaxRetries,     \* attempts of a job before it fails (6)
    MaxTurns        \* bound: turns, of the kinds that TakeTurn lets happen

Kinds == {"triage", "learning"}

\* Turns of the conversation, by their step_key.  A last turn without tools is another step.
Extracts      == {Chunks[n] : n \in DOMAIN Chunks}
TriageSteps   == {"triage-0", "triage-1", "triage-0-late", "triage-repair"}
LearningSteps == {"memorize", "memorize-repair", "learning-completion"} \cup Extracts
Steps         == TriageSteps \cup LearningSteps

VARIABLES
    text,           \* revision of the client's message
    ticket, closure, record, job, run,
    calls,          \* ai_calls: Steps -> the reply and the revision it is about
    checkpoints,    \* steps whose result is in ai_checkpoints
    late,           \* AI_TRIAGE_DEADLINE_SECONDS have passed
    turns

vars == <<text, ticket, closure, record, job, run, calls, checkpoints, late, turns>>

Never == 0          \* no revision

Replies == {"none", "good", "bad", "tools", "failed", "uncertain"}

Revisions == 0 .. MaxTurns + 1

\* by: who set the classification last.  of: the revision the model saw when it did.
Ticket  == [status : {"open", "closed"}, lifecycle : 1 .. MaxTurns + 1, granted : BOOLEAN,
            ai : {"pending", "done", "failed", "skipped"}, by : {"nobody", "model", "staff"}, of : Revisions,
            touched : BOOLEAN]      \* a field has another revision than at first

\* The closure and its frozen snapshot; memory_records, and whether it may be used.
Closure == [status : {"none", "queued", "analyzing", "persistence_pending", "learned", "suppressed",
                      "needs_review", "failed", "invalidated"}, snapshot : Revisions]
Record  == [of : Revisions, eligible : BOOLEAN]

Job == [state : {"none", "pending", "running", "done", "failed", "canceled", "unknown"},
        generation : 0 .. MaxClaims, retries : 0 .. MaxRetries]

Phases == {"idle", "begin", "apply", "store", "end"} \cup Steps

\* of: what the outcome is about.  end: what becomes of the job.
Run == [kind : Kinds, generation : 0 .. MaxClaims, phase : Phases, of : Revisions,
        outcome : {"model", "fallback"}, end : {"done", "again", "retry", "failed", "canceled", "unknown"}]

TypeOK ==
    /\ text \in Revisions /\ ticket \in Ticket /\ closure \in Closure /\ record \in Record
    /\ job \in [Kinds -> Job] /\ run \in [Runs -> Run]
    /\ calls \in [Steps -> [reply : Replies, of : Revisions]]
    /\ checkpoints \subseteq Steps
    /\ late \in BOOLEAN /\ turns \in 0 .. MaxTurns

Idle == [kind |-> "triage", generation |-> 0, phase |-> "idle", of |-> Never, outcome |-> "fallback", end |-> "done"]

\* startTriage, or attachNewTicket that skips it.  One of the two jobs is looked at: a ticket that is
\* triaged is closed without learning.
Init ==
    /\ text = 1
    /\ \E ai \in {"pending", "skipped"} :
         /\ ticket = [status |-> "open", lifecycle |-> 1, granted |-> TRUE, ai |-> ai, by |-> "nobody",
                      of |-> Never, touched |-> FALSE]
         /\ job = [k \in Kinds |-> [state |-> IF k = "triage" /\ ai = "pending" THEN "pending" ELSE "none",
                                    generation |-> 0, retries |-> 0]]
    /\ closure = [status |-> "none", snapshot |-> Never]
    /\ record = [of |-> Never, eligible |-> FALSE]
    /\ run = [r \in Runs |-> Idle]
    /\ calls = [s \in Steps |-> [reply |-> "none", of |-> Never]]
    /\ checkpoints = {} /\ late = FALSE /\ turns = 0

-----------------------------------------------------------------------------
(* What happens to the ticket meanwhile.                                   *)

TakeTurn == turns < MaxTurns /\ turns' = turns + 1

Active(state) == state \in {"pending", "running"}

Invalidate_Jobs ==       \* variant: leaves the record that was made
    /\ closure' = IF closure.status = "none" THEN closure ELSE [closure EXCEPT !.status = "invalidated"]
    /\ UNCHANGED record
    /\ job' = [k \in Kinds |-> IF Active(job[k].state) THEN [job[k] EXCEPT !.state = "canceled"] ELSE job[k]]

\* invalidateLearning: the jobs are canceled, the runs go on.
Invalidate ==
    /\ closure' = IF closure.status = "none" THEN closure ELSE [closure EXCEPT !.status = "invalidated"]
    /\ record' = [record EXCEPT !.eligible = FALSE]
    /\ job' = [k \in Kinds |-> IF Active(job[k].state) THEN [job[k] EXCEPT !.state = "canceled"] ELSE job[k]]

OnlyTicket == UNCHANGED <<run, calls, checkpoints, late>>

\* reviseClientMessage
EditMessage ==
    /\ ticket.granted
    /\ text' = text + 1
    /\ Invalidate /\ TakeTurn /\ OnlyTicket /\ UNCHANGED ticket

Classify ==
    /\ ticket.status = "open"
    /\ ticket' = [ticket EXCEPT !.by = "staff", !.of = Never, !.touched = TRUE]
    /\ TakeTurn /\ OnlyTicket /\ UNCHANGED <<text, closure, record, job>>

\* The first closing.
Close ==
    /\ ticket.status = "open" /\ ticket.granted /\ closure.status = "none"
    /\ ticket' = [ticket EXCEPT !.status = "closed"]
    /\ LET learn == ticket.ai = "skipped" IN
         /\ closure' = [closure EXCEPT !.status = IF learn THEN "queued" ELSE "suppressed"]
         /\ job' = [job EXCEPT !["learning"].state = IF learn THEN "pending" ELSE @]
    /\ OnlyTicket /\ UNCHANGED <<text, record, turns>>

Reopen ==
    /\ ticket.status = "closed" /\ ticket.granted
    /\ ticket' = [ticket EXCEPT !.status = "open", !.lifecycle = @ + 1]
    /\ Invalidate /\ TakeTurn /\ OnlyTicket /\ UNCHANGED text

Withdraw ==
    /\ ticket.granted
    /\ ticket' = [ticket EXCEPT !.status = "closed", !.granted = FALSE,
                                !.ai = IF @ = "pending" THEN "failed" ELSE @]
    /\ Invalidate /\ TakeTurn /\ OnlyTicket /\ UNCHANGED text

Deadline ==
    /\ ~late /\ late' = TRUE
    /\ UNCHANGED <<text, ticket, closure, record, job, run, calls, checkpoints, turns>>

-----------------------------------------------------------------------------
(* The job runner.                                                         *)

Claim(r, k) ==
    /\ run[r].phase = "idle" /\ \A q \in Runs : run[q].phase = "idle" => r <= q
    /\ job[k].state = "pending" /\ job[k].generation < MaxClaims
    /\ job' = [job EXCEPT ![k].state = "running", ![k].generation = @ + 1]
    /\ run' = [run EXCEPT ![r] = [Idle EXCEPT !.kind = k, !.generation = job[k].generation + 1, !.phase = "begin"]]
    /\ UNCHANGED <<text, ticket, closure, record, calls, checkpoints, late, turns>>

Ends(r, end) == [run EXCEPT ![r].phase = "end", ![r].end = end]

\* recordJobFailure and the completion: only the run that holds the job may say what becomes of it.
Holds(r) == job[run[r].kind].state = "running" /\ job[run[r].kind].generation = run[r].generation

StateAfter(r) ==
    LET end == run[r].end
    IN CASE end = "again" -> "pending"
         [] end = "retry" -> IF job[run[r].kind].retries + 1 >= MaxRetries THEN "failed" ELSE "pending"
         [] OTHER         -> end

LearningStatus == [canceled |-> "suppressed", unknown |-> "needs_review", failed |-> "failed"]

EndRun(r) ==
    LET k == run[r].kind  state == StateAfter(r) IN
    /\ run[r].phase = "end"
    /\ run' = [run EXCEPT ![r] = Idle]
    /\ IF ~Holds(r) THEN UNCHANGED <<ticket, closure, job>>
       ELSE /\ job' = [job EXCEPT ![k].state = state,
                                  ![k].retries = IF run[r].end = "retry" THEN @ + 1
                                                 ELSE IF run[r].end = "again" THEN 0 ELSE @]
            /\ closure' = IF k = "learning" /\ state \in DOMAIN LearningStatus
                             /\ closure.status \notin {"invalidated", "learned"}
                          THEN [closure EXCEPT !.status = LearningStatus[state]] ELSE closure
            /\ ticket' = IF k = "triage" /\ state = "failed" /\ ticket.ai = "pending"
                         THEN [ticket EXCEPT !.ai = "failed"] ELSE ticket
    /\ UNCHANGED <<text, record, calls, checkpoints, late, turns>>

Crash(r) ==
    /\ run[r].phase # "idle"
    /\ run' = [run EXCEPT ![r] = Idle]
    /\ TakeTurn
    /\ UNCHANGED <<text, ticket, closure, record, job, calls, checkpoints, late>>

\* runMaintenance, in one transaction: the triage that is late first, then what was claimed long ago, a
\* triage later than its deadline.
Maintain ==
    LET expired == late /\ ticket.ai = "pending"
        settled == [job EXCEPT !["triage"].state = IF expired /\ Active(@) THEN "canceled" ELSE @]
    IN
    /\ ticket' = IF expired THEN [ticket EXCEPT !.ai = "failed"] ELSE ticket
    /\ \E old \in SUBSET {k \in Kinds : settled[k].state = "running" /\ (k = "triage" => late)} :
         job' = [k \in Kinds |-> IF k \in old THEN [settled[k] EXCEPT !.state = "pending"] ELSE settled[k]]
    /\ <<ticket, job>> # <<ticket', job'>>
    /\ UNCHANGED <<text, closure, record, run, calls, checkpoints, late, turns>>

-----------------------------------------------------------------------------
(* Asking the model.                                                       *)

\* eligibleJob
Eligible(k) ==
    IF k = "triage"
    THEN ticket.status = "open" /\ ticket.lifecycle = 1 /\ ticket.granted /\ ticket.ai = "pending" /\ ~late
    ELSE closure.status # "invalidated" /\ ticket.lifecycle = 1 /\ ticket.granted

\* Model.complete: the reply that is there, or a new one.  "later": refused, nothing stays.
Asked(step, of, reply) ==
    \/ /\ calls[step].reply # "none" /\ reply = calls[step].reply
       /\ UNCHANGED calls
    \/ /\ calls[step].reply = "none" /\ reply # "later"
       /\ calls' = [calls EXCEPT ![step] = [reply |-> reply, of |-> of]]
    \/ /\ calls[step].reply = "none" /\ reply = "later"
       /\ UNCHANGED calls

About(step, of) == IF calls[step].reply = "none" THEN of ELSE calls[step].of

\* A call that was uncertain is an error of its own; the rest is tried again.
EndOf(reply) == CASE reply = "later" -> "again" [] reply = "uncertain" -> "unknown" [] OTHER -> "failed"

-----------------------------------------------------------------------------
(* Triage.                                                                 *)

\* startConversation reads the message, whatever its revision is now.
BeginTriage(r) ==
    /\ run[r].phase = "begin" /\ run[r].kind = "triage"
    /\ run' = IF Eligible("triage") THEN [run EXCEPT ![r].phase = "triage-0", ![r].of = text] ELSE Ends(r, "canceled")
    /\ UNCHANGED <<text, ticket, closure, record, job, calls, checkpoints, late, turns>>

Outcome(r, phase, outcome, of) ==
    run' = [run EXCEPT ![r].phase = phase, ![r].outcome = outcome, ![r].of = of]

\* One search at most.  A bad answer is repaired once, if there is time for it; every error but those of
\* a busy model ends in the fallback.  What rests on a memory that is gone by now is dropped, too.
AskTriage(r) ==
    LET phase == run[r].phase IN
    /\ phase \in TriageSteps
    /\ \E step \in {phase} \cup (IF phase = "triage-0" THEN {"triage-0-late"} ELSE {}), reply \in Replies \cup {"later"} :
         /\ reply # "none" /\ (reply = "tools" => step = "triage-0")
         /\ Asked(step, run[r].of, reply)
         /\ CASE reply = "later" -> run' = Ends(r, "again") \/ run' = Ends(r, "retry")
              [] reply = "tools" -> Outcome(r, "triage-1", "fallback", run[r].of)
              [] reply = "good"  -> \/ Outcome(r, "apply", "model", About(step, run[r].of))
                                    \/ Outcome(r, "apply", "fallback", run[r].of)
              [] reply = "bad" /\ step # "triage-repair" ->
                                    \/ Outcome(r, "triage-repair", "fallback", run[r].of)
                                    \/ Outcome(r, "apply", "fallback", run[r].of)
              [] OTHER           -> Outcome(r, "apply", "fallback", run[r].of)
    /\ UNCHANGED <<text, ticket, closure, record, job, checkpoints, late, turns>>

\* The job was made when the message had its first revision.
Revised_Unnoticed == FALSE      \* variant: the revision is not compared

Revised == text # 1

\* A value that has left the dictionary makes the result of the model a failure as well.
ApplyTriage(r) ==
    LET written == [ticket EXCEPT !.by = IF ticket.touched THEN @ ELSE "model",
                                  !.of = IF ticket.touched THEN @ ELSE run[r].of]
    IN
    /\ run[r].phase = "apply"
    /\ \/ ~Eligible("triage") /\ run' = Ends(r, "failed") /\ UNCHANGED ticket
       \/ Eligible("triage") /\ Revised
          /\ ticket' = [ticket EXCEPT !.ai = "failed"] /\ run' = Ends(r, "failed")
       \/ Eligible("triage") /\ ~Revised
          /\ \E success \in {TRUE, FALSE} :
               /\ success => run[r].outcome = "model"
               /\ ticket' = [written EXCEPT !.ai = IF success THEN "done" ELSE "failed"]
               /\ run' = Ends(r, IF success THEN "done" ELSE "failed")
    /\ UNCHANGED <<text, closure, record, job, calls, checkpoints, late, turns>>

-----------------------------------------------------------------------------
(* Learning: a run does one step and the job is pending again.             *)

\* summarizeChunks, reduceSummaries: the first that has no checkpoint.
NextChunk == Chunks[CHOOSE n \in DOMAIN Chunks : Chunks[n] \notin checkpoints
                                                /\ \A m \in 1 .. n - 1 : Chunks[m] \in checkpoints]

\* takeSnapshot freezes the messages once; files may have to be waited for.
BeginLearning(r) ==
    LET frozen == IF closure.snapshot = Never THEN text ELSE closure.snapshot
        step   == IF record.of # Never THEN "learning-completion"
                  ELSE IF Extracts \subseteq checkpoints THEN "memorize"
                  ELSE NextChunk
    IN
    /\ run[r].phase = "begin" /\ run[r].kind = "learning"
    /\ \/ /\ ~Eligible("learning")
          /\ run' = Ends(r, "canceled") /\ UNCHANGED closure
       \/ /\ Eligible("learning") /\ closure.snapshot = Never
          /\ run' = Ends(r, "again") /\ UNCHANGED closure
       \/ /\ Eligible("learning")
          /\ closure' = IF closure.snapshot = Never THEN [closure EXCEPT !.snapshot = text, !.status = "analyzing"]
                        ELSE closure
          /\ run' = [run EXCEPT ![r].phase = step, ![r].of = frozen]
    /\ UNCHANGED <<text, ticket, record, job, calls, checkpoints, late, turns>>

AskLearning(r) ==
    LET step == run[r].phase IN
    /\ step \in LearningSteps
    /\ \E reply \in {"good", "bad", "failed", "uncertain", "later"} :
         /\ Asked(step, run[r].of, reply)
         /\ checkpoints' = IF step \notin {"memorize", "memorize-repair"}
                              /\ (reply = "good" \/ (reply = "bad" /\ step = "learning-completion"))
                           THEN checkpoints \cup {step} ELSE checkpoints
         /\ CASE step = "learning-completion" /\ reply \in {"good", "bad"} -> run' = Ends(r, "done")
              [] step \in {"memorize", "memorize-repair"} /\ reply = "good" ->
                                    run' = [run EXCEPT ![r].phase = "store", ![r].of = About(step, @)]
              [] step = "memorize" /\ reply = "bad" ->
                                    run' = [run EXCEPT ![r].phase = "memorize-repair"] \/ run' = Ends(r, "failed")
              [] step \in Extracts /\ reply = "good" -> run' = Ends(r, "again")
              [] step \in Extracts /\ reply = "bad" ->
                                    run' = Ends(r, "retry") \/ run' = Ends(r, "failed")
              [] OTHER           -> run' = Ends(r, EndOf(reply))
    /\ UNCHANGED <<text, ticket, closure, record, job, late, turns>>

\* One record for a snapshot.  Only what the client confirmed may be used.
StoreResolution(r) ==
    /\ run[r].phase = "store"
    /\ IF ~Eligible("learning")
       THEN run' = Ends(r, "canceled") /\ UNCHANGED <<closure, record, checkpoints>>
       ELSE /\ \E confirmed \in BOOLEAN :
                 record' = IF record.of = Never THEN [of |-> run[r].of, eligible |-> confirmed] ELSE record
            /\ closure' = [closure EXCEPT !.status = "persistence_pending"]
            /\ checkpoints' = checkpoints \cup {"memorize"}
            /\ run' = Ends(r, "again")
    /\ UNCHANGED <<text, ticket, job, calls, late, turns>>

\* The job 'memory' (module Memory).
Persist ==
    /\ record.of # Never /\ closure.status = "persistence_pending"
    /\ closure' = [closure EXCEPT !.status = "learned"]
    /\ UNCHANGED <<text, ticket, record, job, run, calls, checkpoints, late, turns>>

-----------------------------------------------------------------------------

Meanwhile == EditMessage \/ Classify \/ Close \/ Reopen \/ Withdraw \/ Deadline \/ Maintain \/ Persist

Runner == \E r \in Runs : EndRun(r) \/ Crash(r) \/ \E k \in Kinds : Claim(r, k)

Triage == \E r \in Runs : BeginTriage(r) \/ AskTriage(r) \/ ApplyTriage(r)

Learning == \E r \in Runs : BeginLearning(r) \/ AskLearning(r) \/ StoreResolution(r)

Next == Meanwhile \/ Runner \/ Triage \/ Learning

Spec == Init /\ [][Next]_vars

-----------------------------------------------------------------------------
(* Properties.                                                             *)

LearnedIsCurrent == record.eligible => record.of = text /\ ticket.lifecycle = 1 /\ ticket.granted

\* What the model makes of a ticket is used only while it is about the ticket as it is: a classification
\* of the present text, in time, for an open ticket whose client consents, and never in place of one that
\* the staff made; a record of the present text, of a closing nobody undid; and a record may answer others
\* only as long as text, closing and consent stay as they were.  However long the model takes, whichever
\* runs of a job overlap, and whatever step learning is at.
ResultsAreCurrent ==
    [][/\ ticket'.by = "model" /\ ticket.by # "model" =>
            ticket'.of \in {text, Never} /\ ticket.by = "nobody" /\ ticket.status = "open" /\ ticket.granted /\ ~late
       /\ record'.of # record.of =>
            record'.of = text /\ closure.status # "invalidated" /\ ticket.status = "closed" /\ ticket.granted
       /\ LearnedIsCurrent']_vars
=============================================================================
