------------------------------ MODULE Delivery ------------------------------
(***************************************************************************)
(* The outgoing queue of one client: modules/outbox and modules/delivery.  *)
(*                                                                         *)
(* Rows of the table `deliveries` are served in chat_seq order.  A worker  *)
(* claims the head row in one transaction, talks to MAX outside of any     *)
(* transaction, and records the outcome in a second transaction.  Between  *)
(* the two it may be slow, be overtaken by the stale-send sweep, or crash; *)
(* operators meanwhile cancel and retry rows, and the client withdraws or  *)
(* grants consent.  All transactions that write a client's rows hold the   *)
(* row lock of the client (the sweep holds the rows' own locks), so a      *)
(* transaction is one atomic step.                                         *)
(*                                                                         *)
(* Covered: claim, head-of-line blocking, the check after the upload, the  *)
(* outcomes of MAX, the attempts limit, fencing by generation, the sweep   *)
(* of stale sends, operator resolution, the three ways of cancelling       *)
(* queued rows, and the mirrored delivery_state of the messages.           *)
(*                                                                         *)
(* Abstracted: due_at, the 550 ms and the org-wide pacing only delay a     *)
(* step.  Whether a guarded row is still authorized is chosen freely here; *)
(* the module Conversation gives the conditions.  Synthetic clients (demo  *)
(* data) never reach MAX and are not modelled.                             *)
(***************************************************************************)
EXTENDS Naturals, FiniteSets

CONSTANTS
    Deliveries,           \* the chat_seq values rows can get
    Workers,              \* concurrent calls of DeliveryWorker.deliver
    Kinds,                \* the kinds of rows that are queued
    MaxRetriedAttempts,   \* MAX_RETRIED_ATTEMPTS of send.ts (6)
    MaxRetries            \* bound: how often operators retry

AllKinds == {"staff", "incident", "cycle", "ticket", "dialog", "answer"}

\* staff: an employee's reply; incident: a broadcast; cycle: a bot message
\* about a rating cycle; ticket: any other bot message of a ticket; dialog: a
\* bot message without a ticket (consent, help, history); answer: the answer
\* to a button press.
Personal    == {"staff", "incident"}
Guarded     == {"staff", "incident", "cycle"}
WithMessage == {"staff", "incident", "cycle", "ticket"}

ASSUME DeliveriesAssumption == Deliveries \subseteq Nat
ASSUME KindsAssumption      == Kinds \subseteq AllKinds
ASSUME LimitsAssumption     == MaxRetriedAttempts \in Nat /\ MaxRetries \in Nat

VARIABLES
    outbox,       \* the rows of `deliveries`
    message,      \* messages.delivery_state of the row's message
    granted,      \* clients.consent_state = 'granted'
    worker,       \* what each call of deliver() holds in memory
    accepted,     \* history: the generations of a row that MAX took
    risked,       \* history: the unknown generations an operator retried
    resolved,     \* history: the rows an operator retried or cancelled
    retries       \* bound: number of operator retries

vars == <<outbox, message, granted, worker, accepted, risked, resolved, retries>>

-----------------------------------------------------------------------------
Live    == {"queued", "retry_wait", "sending", "unknown"}
Settled == {"delivered", "failed", "canceled"}
States  == Live \cup Settled
Outcomes == {"delivered", "retry_wait", "failed", "unknown", "canceled"}

Row   == [state : States \cup {"absent"}, kind : AllKinds, generation : Nat, attempts : Nat]
Claim == [phase : {"idle", "preparing", "cleared", "done"}, delivery : Nat,
          generation : Nat, attempts : Nat, outcome : Outcomes \cup {"none"}]

NewRow(k) == [state |-> "queued", kind |-> k, generation |-> 0, attempts |-> 0]
NoRow   == [state |-> "absent", kind |-> "dialog", generation |-> 0, attempts |-> 0]
NoClaim == [phase |-> "idle", delivery |-> 0, generation |-> 0, attempts |-> 0,
            outcome |-> "none"]

InState(S) == {d \in Deliveries : outbox[d].state \in S}
HasMessage(d) == outbox[d].kind \in WithMessage
Unsent(w) == worker[w].phase \in {"preparing", "cleared"}

TypeOK ==
    /\ outbox \in [Deliveries -> Row]
    /\ message \in [Deliveries -> States \cup {"absent"}]
    /\ granted \in BOOLEAN
    /\ worker \in [Workers -> Claim]
    /\ \A w \in Workers :
        /\ worker[w].phase # "idle" => worker[w].delivery \in Deliveries
        /\ worker[w].phase = "done" => worker[w].outcome \in Outcomes
    /\ accepted \in [Deliveries -> SUBSET Nat]
    /\ risked \in [Deliveries -> SUBSET Nat]
    /\ resolved \subseteq Deliveries
    /\ retries \in Nat

Init ==
    /\ outbox = [d \in Deliveries |-> NoRow]
    /\ message = [d \in Deliveries |-> "absent"]
    /\ granted = TRUE
    /\ worker = [w \in Workers |-> NoClaim]
    /\ accepted = [d \in Deliveries |-> {}]
    /\ risked = [d \in Deliveries |-> {}]
    /\ resolved = {}
    /\ retries = 0

history == <<accepted, risked, resolved, retries>>

-----------------------------------------------------------------------------
(* Queueing (modules/outbox).  The identity column hands out chat_seq      *)
(* under the lock of the client, so a new row follows every other.         *)

Follows(d) ==
    /\ outbox[d].state = "absent"
    /\ \A e \in Deliveries : outbox[e].state # "absent" <=> e < d

\* Sets the state of the rows D; the messages M follow.
SetStates(D, M, s) ==
    /\ outbox' = [d \in Deliveries |-> IF d \in D THEN [outbox[d] EXCEPT !.state = s]
                                                  ELSE outbox[d]]
    /\ message' = [d \in Deliveries |-> IF d \in M /\ HasMessage(d) THEN s ELSE message[d]]

\* A transaction that cancels the rows D, says so on the messages M and queues
\* a row of kind k, or none.  Past the last position nothing is queued.
Edit(D, M, k) ==
    LET new == {d \in Deliveries : k # "none" /\ Follows(d)} IN
    /\ outbox' = [d \in Deliveries |->
            IF d \in D THEN [outbox[d] EXCEPT !.state = "canceled"]
            ELSE IF d \in new THEN NewRow(k) ELSE outbox[d]]
    /\ message' = [d \in Deliveries |->
            IF d \in M /\ HasMessage(d) THEN "canceled"
            ELSE IF d \in new /\ k \in WithMessage THEN "queued" ELSE message[d]]

\* queueStaffReply, queueBotMessage, queueHistoryPage, queueCallbackAnswer and
\* the rows of a broadcast.
Queue(k) ==
    /\ k \in Personal => granted
    /\ \E d \in Deliveries : Follows(d)
    /\ Edit({}, {}, k)
    /\ UNCHANGED <<granted, worker, history>>

Cancelable == InState({"queued", "retry_wait"})

\* Mutant of CancelClient: the messages of the cancelled rows are left alone.
CancelClient_ForgetsMessages(k) == Edit(Cancelable, InState({"canceled"}), k)

\* cancelClientDeliveries also rewrites the messages of the rows that were
\* cancelled before.
CancelClient(k) == Edit(Cancelable, Cancelable \cup InState({"canceled"}), k)

\* withdrawConsent, at any time, ends with a notice to the client.
Withdraw ==
    /\ granted' = FALSE
    /\ CancelClient("dialog")
    /\ UNCHANGED <<worker, history>>

\* eraseClient, ordered by an administrator.
EraseClient ==
    /\ granted' = FALSE
    /\ CancelClient("none")
    /\ UNCHANGED <<worker, history>>

\* grantConsent, for the first time or to a new policy.
Grant ==
    /\ granted' = TRUE
    /\ Edit({}, {}, "dialog")
    /\ UNCHANGED <<worker, history>>

\* cancelCycleDeliveries: the rows of one cycle, which are some of the rows of
\* kind "cycle".  Its callers answer with at most one message of the ticket.
CancelCycle ==
    /\ \E D \in SUBSET {d \in Cancelable : outbox[d].kind = "cycle"} :
        \E k \in {"none", "cycle", "ticket"} : Edit(D, D, k)
    /\ UNCHANGED <<granted, worker, history>>

\* unlinkTicket cancels the pending broadcasts of one ticket, but not on their
\* messages.
UnlinkIncident ==
    /\ \E D \in SUBSET {d \in Cancelable : outbox[d].kind = "incident"} : Edit(D, {}, "none")
    /\ UNCHANGED <<granted, worker, history>>

-----------------------------------------------------------------------------
(* Claiming (claim.ts): the lowest live row, if it is not in flight.       *)

\* Mutants of IsHead: a row in flight, or an unknown one, does not block.
IsHead_IgnoresInFlight(d) ==
    /\ outbox[d].state \in Live
    /\ \A e \in InState({"queued", "retry_wait", "unknown"}) : d <= e

IsHead_IgnoresUnknown(d) ==
    /\ outbox[d].state \in Live
    /\ \A e \in InState(Live \ {"unknown"}) : d <= e

IsHead(d) ==
    /\ outbox[d].state \in Live
    /\ \A e \in Deliveries : outbox[e].state \in Live => d <= e

\* Mutant of Due: a row waiting for its retry is not picked up.
Due_ForgetsRetries(d) == IsHead(d) /\ outbox[d].state = "queued"

Due(d) == IsHead(d) /\ outbox[d].state \in {"queued", "retry_wait"}

\* Mutant of MarkSending: the second claim of a row keeps its generation.
MarkSending_SameGeneration(w, d) ==
    /\ worker[w].phase = "idle"
    /\ Due(d)
    /\ outbox' = [outbox EXCEPT ![d].state = "sending", ![d].generation = 1,
                                ![d].attempts = @ + 1]
    /\ message' = [message EXCEPT ![d] = IF HasMessage(d) THEN "sending" ELSE @]
    /\ worker' = [worker EXCEPT ![w] =
                    [phase |-> "preparing", delivery |-> d, generation |-> 1,
                     attempts |-> outbox[d].attempts + 1, outcome |-> "none"]]
    /\ UNCHANGED <<granted, history>>

\* isStillAuthorized fails for certain when the consent is gone, and may fail
\* for other reasons where it looks at all.
MayRefuse(d) == outbox[d].kind \in Guarded
MustRefuse(d) == outbox[d].kind \in Personal /\ ~granted

MarkSending(w, d) ==
    /\ worker[w].phase = "idle"
    /\ Due(d)
    /\ ~MustRefuse(d)
    /\ outbox' = [outbox EXCEPT ![d].state = "sending",
                                ![d].generation = @ + 1,
                                ![d].attempts = @ + 1]
    /\ message' = [message EXCEPT ![d] = IF HasMessage(d) THEN "sending" ELSE @]
    /\ worker' = [worker EXCEPT ![w] =
                    [phase |-> "preparing", delivery |-> d,
                     generation |-> outbox[d].generation + 1,
                     attempts |-> outbox[d].attempts + 1,
                     outcome |-> "none"]]
    /\ UNCHANGED <<granted, history>>

CancelUnauthorized(w, d) ==
    /\ worker[w].phase = "idle"
    /\ Due(d)
    /\ MayRefuse(d)
    /\ SetStates({d}, {d}, "canceled")
    /\ UNCHANGED <<granted, worker, history>>

-----------------------------------------------------------------------------
(* Sending (send.ts), outside of any transaction.                          *)

\* Mutant of Decide: the branch forgets to return its outcome.
Decide_NoOutcome(w, outcome) == worker' = [worker EXCEPT ![w].phase = "done"]

Decide(w, outcome) ==
    worker' = [worker EXCEPT ![w].phase = "done", ![w].outcome = outcome]

\* failureState: a retriable failure is final once the attempts are used up.
FailureState(w) ==
    IF worker[w].attempts <= MaxRetriedAttempts THEN "retry_wait" ELSE "failed"

\* An attachment of a reply could not be uploaded: nothing reached the chat.
UploadFails(w) ==
    /\ worker[w].phase = "preparing"
    /\ outbox[worker[w].delivery].kind = "staff"
    /\ \E outcome \in {FailureState(w), "failed"} : Decide(w, outcome)
    /\ UNCHANGED <<outbox, message, granted, history>>

\* wasCanceledMeanwhile: it reads the row, whatever generation it is now.
CanceledMeanwhile(d) ==
    \/ outbox[d].state # "sending"
    \/ outbox[d].kind \in Personal /\ ~granted

\* The check, which counts as an unknown outcome when it fails itself.
Recheck(w) ==
    /\ worker[w].phase = "preparing"
    /\ outbox[worker[w].delivery].kind # "answer"
    /\ \/ IF CanceledMeanwhile(worker[w].delivery)
          THEN Decide(w, "canceled")
          ELSE worker' = [worker EXCEPT ![w].phase = "cleared"]
       \/ Decide(w, "unknown")
    /\ UNCHANGED <<outbox, message, granted, history>>

Ready(w) ==
    \/ worker[w].phase = "cleared"
    \/ worker[w].phase = "preparing" /\ outbox[worker[w].delivery].kind = "answer"

\* Mutant of MaxAccepts: a reply that does not arrive in time means a retry.
MaxAccepts_TimeoutIsFailure(w) ==
    /\ Ready(w)
    /\ accepted' = [accepted EXCEPT ![worker[w].delivery] = @ \cup {worker[w].generation}]
    /\ \E outcome \in {"delivered", FailureState(w)} : Decide(w, outcome)
    /\ UNCHANGED <<outbox, message, granted, risked, resolved, retries>>

\* MAX takes the message; its reply arrives, or is lost, late or malformed.
MaxAccepts(w) ==
    /\ Ready(w)
    /\ accepted' = [accepted EXCEPT ![worker[w].delivery] = @ \cup {worker[w].generation}]
    /\ \E outcome \in {"delivered", "unknown"} : Decide(w, outcome)
    /\ UNCHANGED <<outbox, message, granted, risked, resolved, retries>>

\* MAX refuses it (for now or for good), or the request gets lost on the way.
MaxRefuses(w) ==
    /\ Ready(w)
    /\ \E outcome \in {FailureState(w), "failed", "unknown"} : Decide(w, outcome)
    /\ UNCHANGED <<outbox, message, granted, history>>

-----------------------------------------------------------------------------
(* Recording (record-outcome.ts), fenced by the generation and the state.  *)

\* Mutants of StillMine: no fencing by generation, none by state.
StillMine_NoGeneration(w) == outbox[worker[w].delivery].state = "sending"

StillMine_NoState(w) == outbox[worker[w].delivery].generation = worker[w].generation

StillMine(w) ==
    /\ outbox[worker[w].delivery].generation = worker[w].generation
    /\ outbox[worker[w].delivery].state = "sending"

Record(w) ==
    /\ worker[w].phase = "done"
    /\ IF StillMine(w)
       THEN SetStates({worker[w].delivery}, {worker[w].delivery}, worker[w].outcome)
       ELSE UNCHANGED <<outbox, message>>
    /\ worker' = [worker EXCEPT ![w] = NoClaim]
    /\ UNCHANGED <<granted, history>>

\* The process dies, or a transaction of it fails: only the row is left.
Crash(w) ==
    /\ worker[w].phase # "idle"
    /\ worker' = [worker EXCEPT ![w] = NoClaim]
    /\ UNCHANGED <<outbox, message, granted, history>>

\* Mutant of MarkStale: a stale send is simply retried.
MarkStale_Retries ==
    /\ \E D \in SUBSET InState({"sending"}) :
        /\ D # {}
        /\ SetStates(D, D, "retry_wait")
    /\ UNCHANGED <<granted, worker, history>>

\* stale-sends.ts: the sends that have taken too long, the slow and the dead.
MarkStale ==
    /\ \E D \in SUBSET InState({"sending"}) :
        /\ D # {}
        /\ SetStates(D, D, "unknown")
    /\ UNCHANGED <<granted, worker, history>>

-----------------------------------------------------------------------------
(* Operators (resolve.ts) name a message, so they reach only its delivery. *)

Resolve(d, s) ==
    /\ HasMessage(d)
    /\ SetStates({d}, {d}, s)
    /\ resolved' = resolved \cup {d}
    /\ UNCHANGED <<granted, worker, accepted>>

ResolveRetry(d) ==
    /\ outbox[d].state \in {"failed", "unknown"}
    /\ retries < MaxRetries
    /\ retries' = retries + 1
    /\ risked' = IF outbox[d].state = "unknown"
                 THEN [risked EXCEPT ![d] = @ \cup {outbox[d].generation}]
                 ELSE risked
    /\ Resolve(d, "queued")

ResolveCancel(d) ==
    /\ outbox[d].state \in {"queued", "retry_wait", "failed", "unknown"}
    /\ Resolve(d, "canceled")
    /\ UNCHANGED <<risked, retries>>

-----------------------------------------------------------------------------
Application ==
    \/ \E k \in Kinds : Queue(k)
    \/ Withdraw \/ EraseClient \/ Grant \/ CancelCycle \/ UnlinkIncident
Send(w) == UploadFails(w) \/ Recheck(w) \/ MaxAccepts(w) \/ MaxRefuses(w)
ClaimNext(w) == \E d \in Deliveries : MarkSending(w, d) \/ CancelUnauthorized(w, d)
Operator == \E d \in Deliveries : ResolveRetry(d) \/ ResolveCancel(d)

Next ==
    \/ Application
    \/ \E w \in Workers : ClaimNext(w) \/ Send(w) \/ Record(w) \/ Crash(w)
    \/ MarkStale
    \/ Operator

Spec == Init /\ [][Next]_vars

\* The poll loop keeps claiming and sweeping; a call of deliver() that is not
\* killed runs to its end, because every request it makes has a time limit.
Fairness ==
    /\ \A w \in Workers : WF_vars(ClaimNext(w)) /\ WF_vars(Send(w)) /\ WF_vars(Record(w))
    /\ WF_vars(MarkStale)

FairSpec == Spec /\ Fairness

-----------------------------------------------------------------------------
(* Safety.                                                                 *)

\* The client gets a message a second time only if an operator retried it
\* after its outcome was unknown: every accepted generation but the current
\* one had its risk accepted.  Fencing, the check after the upload and the
\* sweep have to agree for this (claim.ts, send.ts, record-outcome.ts).
NoSilentDuplicate ==
    \A d \in Deliveries : \A g \in accepted[d] :
        g < outbox[d].generation => g \in risked[d]

\* The recorded verdict is what MAX did with this generation: 'delivered' only
\* if it was taken, 'failed' and 'retry_wait' only if it was not.
VerdictIsTrue ==
    \A d \in Deliveries :
        /\ outbox[d].state = "delivered" => outbox[d].generation \in accepted[d]
        /\ outbox[d].state \in {"failed", "retry_wait"} =>
              outbox[d].generation \notin accepted[d]

\* A row goes out while an earlier one is live only if an operator revived the
\* earlier one: otherwise sends of one client never overlap and an unknown
\* outcome is not overtaken.
HeadOfLine ==
    \A d, e \in Deliveries :
        (d < e /\ outbox[e].state = "sending" /\ outbox[d].state \in Live)
            => d \in resolved

Mirrors(d) == HasMessage(d) => message[d] = outbox[d].state

\* messages.delivery_state is the state of the delivery, whichever of claim,
\* recording, sweep, cancellation and resolution wrote it last.  It is not for
\* a broadcast: unlinking its ticket cancels the delivery and forgets the message.
MessageMirrorsDelivery ==
    \A d \in Deliveries : outbox[d].kind # "incident" => Mirrors(d)

\* The chat keeps the order of the queue: MAX takes a row for the first time
\* and before any later row, unless an operator touched the row.
NoOvertaking ==
    [][\A d \in Deliveries : accepted'[d] # accepted[d] =>
          \/ d \in resolved
          \/ \A e \in Deliveries : d <= e => accepted[e] = {}]_vars

\* A delivered or cancelled row is never touched again, by a late worker, the
\* sweep or an operator.
SettledForGood ==
    [][\A d \in Deliveries : outbox[d].state \in {"delivered", "canceled"} =>
          outbox'[d] = outbox[d]]_vars

-----------------------------------------------------------------------------
(* The inductive strengthening of the safety properties: what a worker may *)
(* hold in memory while the row moves on without it.                       *)

Busy(w) == worker[w].phase # "idle"

\* Generations are handed out once each, and history speaks only of those.
ClaimsAreFenced ==
    /\ \A d \in Deliveries :
        /\ accepted[d] \cup risked[d] \subseteq 1..outbox[d].generation
        /\ outbox[d].state = "absent" => outbox[d].generation = 0
        /\ outbox[d].state \in {"sending", "unknown"} => outbox[d].generation > 0
    /\ \A w \in Workers : Busy(w) =>
        worker[w].generation \in 1..outbox[worker[w].delivery].generation
    /\ \A v, w \in Workers :
        (/\ Busy(v) /\ Busy(w)
         /\ worker[v].delivery = worker[w].delivery
         /\ worker[v].generation = worker[w].generation) => v = w

\* Rows appear in the order of their chat_seq.
RowsInOrder ==
    \A d, e \in Deliveries :
        (d < e /\ outbox[e].state # "absent") => outbox[d].state # "absent"

\* A claim that may still reach MAX has not done so, and is the current one or
\* one whose risk an operator took.
UnsentIsUnspent ==
    \A w \in Workers : Unsent(w) =>
        /\ worker[w].generation \notin accepted[worker[w].delivery]
        /\ worker[w].generation < outbox[worker[w].delivery].generation =>
              worker[w].generation \in risked[worker[w].delivery]

\* While the current claim is held, only the sweep and operators move the row.
HeldRows ==
    \A w \in Workers :
        (Busy(w) /\ worker[w].generation = outbox[worker[w].delivery].generation) =>
            \/ outbox[worker[w].delivery].state \in {"sending", "unknown", "canceled"}
            \/ /\ outbox[worker[w].delivery].state = "queued"
               /\ worker[w].generation \in risked[worker[w].delivery]

\* What a worker is about to record is what MAX did.
DecisionsAreTrue ==
    \A w \in Workers : worker[w].phase = "done" =>
        /\ worker[w].outcome = "delivered" =>
              worker[w].generation \in accepted[worker[w].delivery]
        /\ worker[w].outcome \in {"failed", "retry_wait", "canceled"} =>
              worker[w].generation \notin accepted[worker[w].delivery]

\* A row is queued again only after its risk was taken, or when there is none.
RequeuedIsSafe ==
    \A d \in Deliveries :
        (outbox[d].state = "queued" /\ outbox[d].generation \in accepted[d]) =>
            outbox[d].generation \in risked[d]

\* Without an operator a row only moves forward, and the queue with it.
UntouchedRows ==
    \A d \in Deliveries \ resolved :
        /\ risked[d] = {}
        /\ \A w \in Workers : (Unsent(w) /\ worker[w].delivery = d) =>
              outbox[d].state \in {"sending", "unknown"}
        /\ \A e \in Deliveries : (d < e /\ outbox[e].generation > 0) =>
              outbox[d].state \in Settled

FencingInv ==
    /\ TypeOK
    /\ RowsInOrder
    /\ ClaimsAreFenced
    /\ UnsentIsUnspent
    /\ HeldRows
    /\ DecisionsAreTrue
    /\ RequeuedIsSafe
    /\ UntouchedRows
    /\ NoSilentDuplicate
    /\ VerdictIsTrue

-----------------------------------------------------------------------------
(* What the queue promises is the specification of the module Channel.     *)

Place(s) ==
    CASE s \in {"queued", "retry_wait"} -> "waiting"
      [] s \in {"sending", "unknown"}   -> "out"
      [] s \in {"failed", "canceled"}   -> "dropped"
      [] s \in {"absent", "delivered"}  -> s

Promise == INSTANCE Channel WITH
    row      <- [d \in Deliveries |-> Place(outbox[d].state)],
    try      <- [d \in Deliveries |-> outbox[d].generation],
    taken    <- accepted,
    repeated <- risked,
    touched  <- resolved

\* Workers, claims, the sweep, crashes and cancellations together are an
\* in-order queue that never delivers twice by itself.
ImplementsChannel == Promise!Spec

-----------------------------------------------------------------------------
(* Liveness.                                                               *)

\* Operators who keep cancelling every unknown outcome they can reach.
Diligent == \A d \in Deliveries :
    WF_vars(outbox[d].state = "unknown" /\ ResolveCancel(d))

DiligentSpec == FairSpec /\ Diligent

\* runbooks/monitoring.md: an unknown outcome is resolved by an operator.
UnknownGetsResolved ==
    \A d \in Deliveries : (outbox[d].state = "unknown") ~> (outbox[d].state # "unknown")

\* With such operators every row is settled in the end, unless an unknown row
\* that has no message is in its way: crashes, slow workers, retries and
\* cancellations lose no row and stop no queue by themselves.
QueueMoves ==
    \A d \in Deliveries :
        (outbox[d].state \in Live) ~>
            \/ outbox[d].state \in Settled
            \/ \E e \in Deliveries : e <= d /\ outbox[e].state = "unknown" /\ ~HasMessage(e)
=============================================================================
