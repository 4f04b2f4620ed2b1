-------------------------- MODULE Delivery_proofs --------------------------
(***************************************************************************)
(* Proofs about Delivery for every set of rows, workers and kinds, and for *)
(* every limit of attempts and retries.                                    *)
(***************************************************************************)
EXTENDS Delivery, TLAPS

USE DeliveriesAssumption, KindsAssumption, LimitsAssumption

(* Every step of the queue keeps its types: the transactions of claim,     *)
(* recording, sweep, cancellation and resolution write legal rows.         *)
LEMMA TypeStep == TypeOK /\ [Next]_vars => TypeOK'
<1> SUFFICES ASSUME TypeOK, [Next]_vars PROVE TypeOK'
  OBVIOUS
<1> USE DEF TypeOK, Row, Claim, AllKinds, States, Live, Settled, Outcomes
<1>1. ASSUME NEW D \in SUBSET Deliveries, NEW M, NEW s \in States, SetStates(D, M, s)
      PROVE /\ outbox' \in [Deliveries -> Row]
            /\ message' \in [Deliveries -> States \cup {"absent"}]
  BY <1>1 DEF SetStates
<1>0. ASSUME NEW D, NEW M, NEW k \in AllKinds \cup {"none"}, Edit(D, M, k)
      PROVE /\ outbox' \in [Deliveries -> Row]
            /\ message' \in [Deliveries -> States \cup {"absent"}]
  <2>1. k # "none" => NewRow(k) \in Row
    BY DEF NewRow
  <2>2. \A d \in Deliveries : [outbox[d] EXCEPT !.state = "canceled"] \in Row
    OBVIOUS
  <2> QED
    BY <1>0, <2>1, <2>2 DEF Edit
<1>2. CASE Withdraw \/ EraseClient
  BY <1>0, <1>2 DEF Withdraw, EraseClient, CancelClient, history
<1>3. CASE Grant
  BY <1>0, <1>3 DEF Grant, history
<1>4. ASSUME NEW k \in Kinds, Queue(k) PROVE TypeOK'
  BY <1>0, <1>4 DEF Queue, history
<1>5. CASE CancelCycle
  BY <1>0, <1>5 DEF CancelCycle, history
<1>6. CASE UnlinkIncident
  BY <1>0, <1>6 DEF UnlinkIncident, history
<1>7. ASSUME NEW w \in Workers, ClaimNext(w) PROVE TypeOK'
  <2>1. ASSUME NEW d \in Deliveries, MarkSending(w, d) PROVE TypeOK'
    BY <2>1 DEF MarkSending, history
  <2>2. ASSUME NEW d \in Deliveries, CancelUnauthorized(w, d) PROVE TypeOK'
    BY <1>1, <2>2 DEF CancelUnauthorized, history
  <2> QED
    BY <1>7, <2>1, <2>2 DEF ClaimNext
<1>8. ASSUME NEW w \in Workers, Send(w) PROVE TypeOK'
  <2>1. ASSUME NEW outcome \in Outcomes, Decide(w, outcome), worker[w].phase # "idle"
        PROVE  /\ worker' \in [Workers -> Claim]
               /\ \A v \in Workers :
                    /\ worker'[v].phase # "idle" => worker'[v].delivery \in Deliveries
                    /\ worker'[v].phase = "done" => worker'[v].outcome \in Outcomes
    <3> DEFINE r == [worker[w] EXCEPT !.phase = "done", !.outcome = outcome]
    <3>1. worker' = [worker EXCEPT ![w] = r]
      BY <2>1 DEF Decide
    <3>2. /\ r \in Claim /\ r.phase = "done" /\ r.outcome = outcome
          /\ r.delivery = worker[w].delivery
      OBVIOUS
    <3> QED
      BY <2>1, <3>1, <3>2
  <2>2. FailureState(w) \in Outcomes
    BY DEF FailureState
  <2>3. CASE UploadFails(w)
    BY <2>1, <2>2, <2>3 DEF UploadFails, history
  <2>4. CASE Recheck(w) /\ \E outcome \in {"canceled", "unknown"} : Decide(w, outcome)
    BY <2>1, <2>4 DEF Recheck, history
  <2>5. CASE Recheck(w) /\ worker' = [worker EXCEPT ![w].phase = "cleared"]
    BY <2>5 DEF Recheck, history
  <2>6. CASE MaxAccepts(w)
    <3>1. accepted' \in [Deliveries -> SUBSET Nat]
      BY <2>6 DEF MaxAccepts, Ready
    <3> QED
      BY <2>1, <2>6, <3>1 DEF MaxAccepts, Ready
  <2>7. CASE MaxRefuses(w)
    BY <2>1, <2>2, <2>7 DEF MaxRefuses, Ready, history
  <2> QED
    BY <1>8, <2>3, <2>4, <2>5, <2>6, <2>7 DEF Send, Recheck
<1>9. ASSUME NEW w \in Workers, Record(w) PROVE TypeOK'
  <2>1. /\ worker' \in [Workers -> Claim]
        /\ \A v \in Workers :
             /\ worker'[v].phase # "idle" => worker'[v].delivery \in Deliveries
             /\ worker'[v].phase = "done" => worker'[v].outcome \in Outcomes
    BY <1>9 DEF Record, NoClaim
  <2>2. CASE StillMine(w)
    <3>1. worker[w].outcome \in States
      BY <1>9 DEF Record
    <3> QED
      BY <1>1, <1>9, <2>1, <2>2, <3>1 DEF Record, history
  <2>3. CASE ~StillMine(w)
    BY <1>9, <2>1, <2>3 DEF Record, history
  <2> QED
    BY <2>2, <2>3
<1>10. ASSUME NEW w \in Workers, Crash(w) PROVE TypeOK'
  BY <1>10 DEF Crash, NoClaim, history
<1>11. CASE MarkStale
  BY <1>1, <1>11 DEF MarkStale, InState, history
<1>13. ASSUME NEW d \in Deliveries, ResolveRetry(d) \/ ResolveCancel(d) PROVE TypeOK'
  <2>1. CASE ResolveRetry(d)
    <3>1. risked' \in [Deliveries -> SUBSET Nat]
      BY <2>1 DEF ResolveRetry
    <3>2. retries' \in Nat
      BY <2>1 DEF ResolveRetry
    <3> QED
      BY <1>1, <2>1, <3>1, <3>2 DEF ResolveRetry, Resolve
  <2>2. CASE ResolveCancel(d)
    BY <1>1, <2>2 DEF ResolveCancel, Resolve
  <2> QED
    BY <1>13, <2>1, <2>2
<1>14. CASE UNCHANGED vars
  BY <1>14 DEF vars
<1> QED
  BY <1>2, <1>3, <1>4, <1>5, <1>6, <1>7, <1>8, <1>9, <1>10, <1>11, <1>13, <1>14
  DEF Next, Application, Operator

(* Type correctness of the outgoing queue and of the workers' memory.      *)
THEOREM TypeCorrect == Spec => []TypeOK
<1>1. Init => TypeOK
  BY DEF Init, TypeOK, NoRow, NoClaim, Row, Claim, AllKinds, States, Live, Settled, Outcomes
<1> QED
  BY <1>1, TypeStep, PTL DEF Spec

-----------------------------------------------------------------------------
(* A generation handed out is the current one or an older one.             *)
LEMMA CurrentOrOlder == \A n \in Nat : \A i \in 1..n : i = n \/ i < n
  OBVIOUS

(* Moving rows to `s` while no worker and no history but `resolved` moves. *)
MoveRows(D, s) ==
    /\ outbox' = [d \in Deliveries |-> IF d \in D THEN [outbox[d] EXCEPT !.state = s]
                                                  ELSE outbox[d]]
    /\ UNCHANGED <<worker, accepted, risked>>
    /\ resolved \subseteq resolved'

(* Cancelling rows that are not in flight, or that an operator resolves,   *)
(* keeps the fencing (cancel-deliveries.ts, claim.ts, resolve.ts).         *)
LEMMA CancelKeepsFencing ==
  ASSUME FencingInv, TypeOK', NEW D \in SUBSET Deliveries, MoveRows(D, "canceled"),
         \A d \in D : \/ outbox[d].state \in {"queued", "retry_wait"}
                      \/ d \in resolved' /\ outbox[d].state \in {"failed", "unknown"}
  PROVE  FencingInv'
<1> USE DEF FencingInv, TypeOK, Row, Claim, AllKinds, States, Live, Settled, Outcomes
<1>1. \A d \in Deliveries :
        /\ outbox'[d].generation = outbox[d].generation
        /\ outbox'[d].state = IF d \in D THEN "canceled" ELSE outbox[d].state
  BY DEF MoveRows
<1>2. /\ worker' = worker /\ accepted' = accepted /\ risked' = risked
      /\ resolved \subseteq resolved'
  BY DEF MoveRows
<1>3. ClaimsAreFenced'
  BY <1>1, <1>2 DEF ClaimsAreFenced, Busy
<1>4. UnsentIsUnspent'
  BY <1>1, <1>2 DEF UnsentIsUnspent, Unsent
<1>5. HeldRows'
  BY <1>1, <1>2 DEF HeldRows, Busy
<1>6. DecisionsAreTrue'
  BY <1>2 DEF DecisionsAreTrue
<1>7. RequeuedIsSafe'
  BY <1>1, <1>2 DEF RequeuedIsSafe
<1>8. UntouchedRows'
  BY <1>1, <1>2 DEF UntouchedRows, Unsent
<1>9. NoSilentDuplicate' /\ VerdictIsTrue'
  BY <1>1, <1>2 DEF NoSilentDuplicate, VerdictIsTrue
<1>10. RowsInOrder'
  BY <1>1, <1>2 DEF RowsInOrder
<1> QED
  BY <1>3, <1>4, <1>5, <1>6, <1>7, <1>8, <1>9, <1>10

(* The sweep may only take rows whose worker is late (stale-sends.ts).     *)
LEMMA StaleKeepsFencing ==
  ASSUME FencingInv, TypeOK', NEW D \in SUBSET InState({"sending"}), MoveRows(D, "unknown")
  PROVE  FencingInv'
<1> USE DEF FencingInv, TypeOK, Row, Claim, AllKinds, States, Live, Settled, Outcomes
<1>1. \A d \in Deliveries :
        /\ outbox'[d].generation = outbox[d].generation
        /\ outbox'[d].state = IF d \in D THEN "unknown" ELSE outbox[d].state
        /\ d \in D => outbox[d].state = "sending"
  BY DEF MoveRows, InState
<1>2. /\ worker' = worker /\ accepted' = accepted /\ risked' = risked
      /\ resolved \subseteq resolved'
  BY DEF MoveRows
<1>3. ClaimsAreFenced'
  BY <1>1, <1>2 DEF ClaimsAreFenced, Busy
<1>4. UnsentIsUnspent'
  BY <1>1, <1>2 DEF UnsentIsUnspent, Unsent
<1>5. HeldRows'
  BY <1>1, <1>2 DEF HeldRows, Busy
<1>6. DecisionsAreTrue'
  BY <1>2 DEF DecisionsAreTrue
<1>7. RequeuedIsSafe'
  BY <1>1, <1>2 DEF RequeuedIsSafe
<1>8. UntouchedRows'
  BY <1>1, <1>2 DEF UntouchedRows, Unsent
<1>9. NoSilentDuplicate' /\ VerdictIsTrue'
  BY <1>1, <1>2 DEF NoSilentDuplicate, VerdictIsTrue
<1>10. RowsInOrder'
  BY <1>1, <1>2 DEF RowsInOrder
<1> QED
  BY <1>3, <1>4, <1>5, <1>6, <1>7, <1>8, <1>9, <1>10

(* A send that MAX did not take, an upload that failed or a row found      *)
(* cancelled: the worker goes on to record it (send.ts).                   *)
LEMMA RefusalKeepsFencing ==
  ASSUME FencingInv, TypeOK', NEW w \in Workers, Unsent(w),
         NEW outcome \in Outcomes \ {"delivered"}, Decide(w, outcome),
         UNCHANGED <<outbox, accepted, risked, resolved>>
  PROVE  FencingInv'
<1> USE DEF FencingInv, TypeOK, Row, Claim, AllKinds, States, Live, Settled, Outcomes
<1>1. /\ worker'[w].phase = "done" /\ worker'[w].outcome = outcome
      /\ worker'[w].delivery = worker[w].delivery
      /\ worker'[w].generation = worker[w].generation
      /\ \A v \in Workers \ {w} : worker'[v] = worker[v]
  BY DEF Decide
<1>2. outbox' = outbox /\ accepted' = accepted /\ risked' = risked /\ resolved' = resolved
  OBVIOUS
<1>3. ClaimsAreFenced'
  <2>1. \A v \in Workers : /\ worker'[v].delivery = worker[v].delivery
                           /\ worker'[v].generation = worker[v].generation
                           /\ Busy(v)' = Busy(v)
    BY <1>1 DEF Busy, Unsent
  <2> QED
    BY <1>2, <2>1 DEF ClaimsAreFenced
<1>4. UnsentIsUnspent'
  BY <1>1, <1>2 DEF UnsentIsUnspent, ClaimsAreFenced, Unsent, Busy
<1>5. HeldRows'
  BY <1>1, <1>2 DEF HeldRows, ClaimsAreFenced, Unsent, Busy
<1>6. DecisionsAreTrue'
  BY <1>1, <1>2 DEF DecisionsAreTrue, UnsentIsUnspent, ClaimsAreFenced, Unsent, Busy
<1>7. RequeuedIsSafe'
  BY <1>1, <1>2 DEF RequeuedIsSafe, HeldRows, Unsent, Busy
<1>8. UntouchedRows'
  BY <1>1, <1>2 DEF UntouchedRows, Unsent
<1>9. NoSilentDuplicate' /\ VerdictIsTrue'
  BY <1>1, <1>2 DEF NoSilentDuplicate, VerdictIsTrue, UnsentIsUnspent, HeldRows, ClaimsAreFenced, Unsent, Busy
<1>10. RowsInOrder'
  BY <1>1, <1>2 DEF RowsInOrder
<1> QED
  BY <1>3, <1>4, <1>5, <1>6, <1>7, <1>8, <1>9, <1>10

(* The check after the upload lets the send go on (send.ts).               *)
LEMMA ClearKeepsFencing ==
  ASSUME FencingInv, TypeOK', NEW w \in Workers, worker[w].phase = "preparing",
         worker' = [worker EXCEPT ![w].phase = "cleared"],
         UNCHANGED <<outbox, accepted, risked, resolved>>
  PROVE  FencingInv'
<1> USE DEF FencingInv
<1>0. worker \in [Workers -> Claim]
  BY DEF TypeOK
<1>1. \A v \in Workers : /\ worker'[v].delivery = worker[v].delivery
                         /\ worker'[v].generation = worker[v].generation
                         /\ worker'[v].outcome = worker[v].outcome
                         /\ Busy(v)' <=> Busy(v)
                         /\ Unsent(v)' <=> Unsent(v)
                         /\ worker'[v].phase = "done" => worker[v].phase = "done"
  <2>1. ASSUME NEW v \in Workers, v # w PROVE worker'[v] = worker[v]
    BY <1>0, <2>1
  <2>2. worker'[w] = [worker[w] EXCEPT !.phase = "cleared"]
    BY <1>0
  <2>3. /\ worker'[w].delivery = worker[w].delivery
        /\ worker'[w].generation = worker[w].generation
        /\ worker'[w].outcome = worker[w].outcome
        /\ worker'[w].phase = "cleared"
    BY <1>0, <2>2 DEF Claim
  <2> QED
    BY <2>1, <2>3 DEF Busy, Unsent
<1>2. outbox' = outbox /\ accepted' = accepted /\ risked' = risked /\ resolved' = resolved
  OBVIOUS
<1>3. ClaimsAreFenced'
  BY <1>1, <1>2 DEF ClaimsAreFenced
<1>4. UnsentIsUnspent'
  BY <1>1, <1>2 DEF UnsentIsUnspent
<1>5. HeldRows'
  BY <1>1, <1>2 DEF HeldRows
<1>6. DecisionsAreTrue'
  BY <1>1, <1>2 DEF DecisionsAreTrue
<1>7. UntouchedRows'
  BY <1>1, <1>2 DEF UntouchedRows
<1> QED
  BY <1>2, <1>3, <1>4, <1>5, <1>6, <1>7 DEF RowsInOrder, RequeuedIsSafe, NoSilentDuplicate,
     VerdictIsTrue

(* MAX takes the message of an unspent claim (send.ts).                    *)
LEMMA AcceptKeepsFencing ==
  ASSUME FencingInv, TypeOK', NEW w \in Workers, MaxAccepts(w)
  PROVE  FencingInv'
<1> USE DEF FencingInv, TypeOK, Row, Claim, AllKinds, States, Live, Settled, Outcomes
<1> DEFINE d == worker[w].delivery
           g == worker[w].generation
<1>1. /\ worker'[w].phase = "done" /\ worker'[w].outcome \in {"delivered", "unknown"}
      /\ worker'[w].delivery = d /\ worker'[w].generation = g
      /\ \A v \in Workers \ {w} : worker'[v] = worker[v]
  BY DEF MaxAccepts, Decide
<1>2. /\ Unsent(w) /\ d \in Deliveries
      /\ outbox' = outbox /\ risked' = risked /\ resolved' = resolved
      /\ accepted'[d] = accepted[d] \cup {g}
      /\ \A e \in Deliveries \ {d} : accepted'[e] = accepted[e]
  BY DEF MaxAccepts, Ready, Unsent
<1>3. ClaimsAreFenced'
  <2>1. \A v \in Workers : /\ worker'[v].delivery = worker[v].delivery
                           /\ worker'[v].generation = worker[v].generation
                           /\ Busy(v)' = Busy(v)
    BY <1>1, <1>2 DEF Busy, Unsent
  <2>2. g \in 1..outbox[d].generation
    BY <1>2 DEF ClaimsAreFenced, Busy, Unsent
  <2>3. \A e \in Deliveries : accepted'[e] \cup risked'[e] \subseteq 1..outbox'[e].generation
    BY <1>2, <2>2 DEF ClaimsAreFenced
  <2> QED
    BY <1>2, <2>1, <2>3 DEF ClaimsAreFenced
<1>4. UnsentIsUnspent'
  BY <1>1, <1>2 DEF UnsentIsUnspent, ClaimsAreFenced, Unsent, Busy
<1>5. HeldRows'
  BY <1>1, <1>2 DEF HeldRows, ClaimsAreFenced, Unsent, Busy
<1>6. DecisionsAreTrue'
  BY <1>1, <1>2 DEF DecisionsAreTrue, UnsentIsUnspent, ClaimsAreFenced, Unsent, Busy
<1>7. RequeuedIsSafe'
  BY <1>1, <1>2 DEF RequeuedIsSafe, HeldRows, Unsent, Busy
<1>8. UntouchedRows'
  <2>1. \A v \in Workers : Unsent(v)' => Unsent(v) /\ worker'[v].delivery = worker[v].delivery
    BY <1>1 DEF Unsent
  <2>2. /\ \A e \in Deliveries \ resolved : risked'[e] = {}
        /\ \A e, f \in Deliveries : (e \notin resolved /\ e < f /\ outbox'[f].generation > 0) =>
              outbox'[e].state \in Settled
    BY <1>2 DEF UntouchedRows
  <2>3. \A e \in Deliveries \ resolved : \A v \in Workers :
          (Unsent(v) /\ worker[v].delivery = e) => outbox[e].state \in {"sending", "unknown"}
    BY DEF UntouchedRows
  <2> QED
    BY <1>2, <2>1, <2>2, <2>3 DEF UntouchedRows
<1>9. NoSilentDuplicate' /\ VerdictIsTrue'
  <2>1. g \in 1..outbox[d].generation
    BY <1>2 DEF ClaimsAreFenced, Busy, Unsent
  <2>2. \A h \in accepted'[d] : h \in accepted[d] \/ h = g
    BY <1>2
  <2>3. NoSilentDuplicate'
    BY <1>2, <2>2 DEF NoSilentDuplicate, UnsentIsUnspent
  <2>4. g = outbox[d].generation => outbox[d].state \notin {"failed", "retry_wait", "delivered"}
    BY <1>2 DEF HeldRows, Busy, Unsent
  <2>5. VerdictIsTrue'
    BY <1>2, <2>2, <2>4 DEF VerdictIsTrue
  <2> QED
    BY <2>3, <2>5
<1>10. RowsInOrder'
  BY <1>1, <1>2 DEF RowsInOrder
<1> QED
  BY <1>3, <1>4, <1>5, <1>6, <1>7, <1>8, <1>9, <1>10

(* A worker forgets its claim: it crashed, or had nothing to record.       *)
LEMMA DropKeepsFencing ==
  ASSUME FencingInv, TypeOK', NEW w \in Workers, worker' = [worker EXCEPT ![w] = NoClaim],
         UNCHANGED <<outbox, accepted, risked, resolved>>
  PROVE  FencingInv'
<1> USE DEF FencingInv, TypeOK, Row, Claim, AllKinds, States, Live, Settled, Outcomes
<1>1. /\ worker'[w].phase = "idle"
      /\ \A v \in Workers \ {w} : worker'[v] = worker[v]
  BY DEF NoClaim
<1>2. outbox' = outbox /\ accepted' = accepted /\ risked' = risked /\ resolved' = resolved
  OBVIOUS
<1>3. ClaimsAreFenced'
  BY <1>1, <1>2 DEF ClaimsAreFenced, Busy
<1>4. UnsentIsUnspent'
  BY <1>1, <1>2 DEF UnsentIsUnspent, ClaimsAreFenced, Unsent, Busy
<1>5. HeldRows'
  BY <1>1, <1>2 DEF HeldRows, ClaimsAreFenced, Unsent, Busy
<1>6. DecisionsAreTrue'
  BY <1>1, <1>2 DEF DecisionsAreTrue, UnsentIsUnspent, ClaimsAreFenced, Unsent, Busy
<1>7. RequeuedIsSafe'
  BY <1>1, <1>2 DEF RequeuedIsSafe, HeldRows, Unsent, Busy
<1>8. UntouchedRows'
  BY <1>1, <1>2 DEF UntouchedRows, Unsent
<1>9. NoSilentDuplicate' /\ VerdictIsTrue'
  BY <1>1, <1>2 DEF NoSilentDuplicate, VerdictIsTrue, UnsentIsUnspent, HeldRows, ClaimsAreFenced, Unsent, Busy
<1>10. RowsInOrder'
  BY <1>1, <1>2 DEF RowsInOrder
<1> QED
  BY <1>3, <1>4, <1>5, <1>6, <1>7, <1>8, <1>9, <1>10

(* Recording the outcome of the current claim (record-outcome.ts).         *)
LEMMA RecordKeepsFencing ==
  ASSUME FencingInv, TypeOK', NEW w \in Workers, Record(w), StillMine(w)
  PROVE  FencingInv'
<1> USE DEF FencingInv, TypeOK, Row, Claim, AllKinds, States, Live, Settled, Outcomes
<1> DEFINE d == worker[w].delivery
           g == worker[w].generation
<1>1. /\ worker'[w].phase = "idle" /\ worker[w].phase = "done"
      /\ \A v \in Workers \ {w} : worker'[v] = worker[v]
  BY DEF Record, NoClaim
<1>2. /\ d \in Deliveries /\ outbox[d].generation = g /\ outbox[d].state = "sending"
      /\ outbox'[d].state = worker[w].outcome /\ outbox'[d].generation = g
      /\ worker[w].outcome \in Outcomes
      /\ \A e \in Deliveries \ {d} : outbox'[e] = outbox[e]
      /\ accepted' = accepted /\ risked' = risked /\ resolved' = resolved
  BY <1>1 DEF Record, StillMine, SetStates, history
<1>3. ClaimsAreFenced'
  <2>1. \A v \in Workers : Busy(v)' => Busy(v) /\ worker'[v] = worker[v]
    BY <1>1 DEF Busy
  <2>2. \A e \in Deliveries : /\ outbox'[e].generation = outbox[e].generation
                              /\ outbox'[e].state = "absent" => outbox[e].state = "absent"
                              /\ outbox'[e].state \in {"sending", "unknown"} =>
                                    outbox[e].state \in {"sending", "unknown"}
    BY <1>2
  <2>6. \A e \in Deliveries :
          /\ accepted'[e] \cup risked'[e] \subseteq 1..outbox'[e].generation
          /\ outbox'[e].state = "absent" => outbox'[e].generation = 0
          /\ outbox'[e].state \in {"sending", "unknown"} => outbox'[e].generation > 0
    BY <1>2, <2>2 DEF ClaimsAreFenced
  <2>7. \A v \in Workers : Busy(v)' =>
          worker'[v].generation \in 1..outbox'[worker'[v].delivery].generation
    BY <1>2, <2>1, <2>2 DEF ClaimsAreFenced, Busy
  <2>8. \A u, v \in Workers : (/\ Busy(u)' /\ Busy(v)'
                               /\ worker'[u].delivery = worker'[v].delivery
                               /\ worker'[u].generation = worker'[v].generation) => u = v
    BY <2>1 DEF ClaimsAreFenced
  <2> QED
    BY <2>6, <2>7, <2>8 DEF ClaimsAreFenced
<1>4. UnsentIsUnspent'
  BY <1>1, <1>2 DEF UnsentIsUnspent, ClaimsAreFenced, Unsent, Busy
<1>5. HeldRows'
  BY <1>1, <1>2 DEF HeldRows, ClaimsAreFenced, Unsent, Busy
<1>6. DecisionsAreTrue'
  BY <1>1, <1>2 DEF DecisionsAreTrue, UnsentIsUnspent, ClaimsAreFenced, Unsent, Busy
<1>7. RequeuedIsSafe'
  BY <1>1, <1>2 DEF RequeuedIsSafe, HeldRows, Unsent, Busy
<1>8. UntouchedRows'
  <2>1. ASSUME NEW e \in Deliveries \ resolved, NEW v \in Workers, Unsent(v)',
               worker'[v].delivery = e
        PROVE  outbox'[e].state \in {"sending", "unknown"}
    <3>1. v # w /\ Unsent(v) /\ worker[v].delivery = e /\ Busy(v) /\ Busy(w)
      BY <1>1, <2>1 DEF Unsent, Busy
    <3>2. worker[v].generation = outbox[e].generation
      <4>1. risked[e] = {}
        BY DEF UntouchedRows
      <4>2. worker[v].generation \in 1..outbox[e].generation
        BY <3>1 DEF ClaimsAreFenced
      <4>3. ~(worker[v].generation < outbox[e].generation)
        BY <3>1, <4>1 DEF UnsentIsUnspent
      <4> QED
        BY <4>2, <4>3, CurrentOrOlder
    <3>3. e # d
      BY <1>2, <3>1, <3>2 DEF ClaimsAreFenced
    <3> QED
      BY <1>2, <3>1, <3>3 DEF UntouchedRows
  <2>2. ASSUME NEW e \in Deliveries \ resolved, NEW f \in Deliveries, e < f,
               outbox'[f].generation > 0
        PROVE  outbox'[e].state \in Settled
    BY <1>2, <2>2 DEF UntouchedRows
  <2> QED
    BY <1>2, <2>1, <2>2 DEF UntouchedRows
<1>9. NoSilentDuplicate' /\ VerdictIsTrue'
  BY <1>1, <1>2 DEF NoSilentDuplicate, VerdictIsTrue, DecisionsAreTrue
<1>10. RowsInOrder'
  BY <1>1, <1>2 DEF RowsInOrder
<1> QED
  BY <1>3, <1>4, <1>5, <1>6, <1>7, <1>8, <1>9, <1>10

(* The head row is handed to an idle worker (claim.ts).                    *)
LEMMA ClaimKeepsFencing ==
  ASSUME FencingInv, TypeOK', NEW w \in Workers, NEW d \in Deliveries, MarkSending(w, d)
  PROVE  FencingInv'
<1> USE DEF FencingInv, TypeOK, Row, Claim, AllKinds, States, Live, Settled, Outcomes
<1>1. /\ worker[w].phase = "idle" /\ worker'[w].phase = "preparing"
      /\ worker'[w].delivery = d /\ worker'[w].generation = outbox[d].generation + 1
      /\ \A v \in Workers \ {w} : worker'[v] = worker[v]
  BY DEF MarkSending
<1>2. /\ outbox[d].state \in {"queued", "retry_wait"}
      /\ outbox'[d].state = "sending" /\ outbox'[d].generation = outbox[d].generation + 1
      /\ \A e \in Deliveries \ {d} : outbox'[e] = outbox[e]
      /\ accepted' = accepted /\ risked' = risked /\ resolved' = resolved
  BY DEF MarkSending, Due, history
<1>0. \A e \in Deliveries : e < d => outbox[e].state \notin Live
  BY DEF MarkSending, Due, IsHead
<1>3. ClaimsAreFenced'
  <2>1. \A e \in Deliveries :
          /\ accepted'[e] \cup risked'[e] \subseteq 1..outbox'[e].generation
          /\ outbox'[e].state = "absent" => outbox'[e].generation = 0
          /\ outbox'[e].state \in {"sending", "unknown"} => outbox'[e].generation > 0
    BY <1>2 DEF ClaimsAreFenced
  <2>2. \A v \in Workers \ {w} : Busy(v)' = Busy(v)
    BY <1>1 DEF Busy
  <2>3. \A v \in Workers : Busy(v)' =>
          worker'[v].generation \in 1..outbox'[worker'[v].delivery].generation
    BY <1>1, <1>2, <2>2 DEF ClaimsAreFenced, Busy
  <2>4. \A v \in Workers \ {w} : (Busy(v) /\ worker[v].delivery = d) =>
          worker[v].generation # outbox[d].generation + 1
    BY DEF ClaimsAreFenced
  <2>5. \A u, v \in Workers : (/\ Busy(u)' /\ Busy(v)'
                               /\ worker'[u].delivery = worker'[v].delivery
                               /\ worker'[u].generation = worker'[v].generation) => u = v
    BY <1>1, <2>2, <2>4 DEF ClaimsAreFenced
  <2> QED
    BY <2>1, <2>3, <2>5 DEF ClaimsAreFenced
<1>4. UnsentIsUnspent'
  <2>1. ASSUME NEW v \in Workers \ {w}, Unsent(v)
        PROVE  /\ worker[v].generation \notin accepted[worker[v].delivery]
               /\ worker[v].generation < outbox'[worker[v].delivery].generation =>
                     worker[v].generation \in risked[worker[v].delivery]
    <3>1. worker[v].generation \in 1..outbox[worker[v].delivery].generation
      BY <2>1 DEF ClaimsAreFenced, Busy, Unsent
    <3>2. CASE worker[v].delivery = d
      <4>1. outbox[d].state \in {"queued", "retry_wait"}
        BY <1>2
      <4>2. CASE worker[v].generation = outbox[d].generation
        BY <2>1, <3>2, <4>1, <4>2, <1>2 DEF UnsentIsUnspent, HeldRows, Busy, Unsent
      <4>3. CASE worker[v].generation < outbox[d].generation
        BY <2>1, <3>2, <4>3 DEF UnsentIsUnspent
      <4>4. worker[v].generation = outbox[d].generation \/ worker[v].generation < outbox[d].generation
        BY <3>1, <3>2, CurrentOrOlder
      <4>5. worker[v].generation \notin accepted[d]
        BY <2>1, <3>2 DEF UnsentIsUnspent
      <4> QED
        BY <3>2, <4>2, <4>3, <4>4, <4>5
    <3>3. CASE worker[v].delivery # d
      BY <1>2, <2>1, <3>3 DEF UnsentIsUnspent, Unsent
    <3> QED
      BY <3>2, <3>3
  <2>2. outbox[d].generation + 1 \notin accepted[d]
    BY DEF ClaimsAreFenced
  <2> QED
    BY <1>1, <1>2, <2>1, <2>2 DEF UnsentIsUnspent, Unsent
<1>5. HeldRows'
  BY <1>1, <1>2 DEF HeldRows, ClaimsAreFenced, Unsent, Busy
<1>6. DecisionsAreTrue'
  BY <1>1, <1>2 DEF DecisionsAreTrue, UnsentIsUnspent, ClaimsAreFenced, Unsent, Busy
<1>7. RequeuedIsSafe'
  BY <1>1, <1>2 DEF RequeuedIsSafe, HeldRows, Unsent, Busy
<1>8. UntouchedRows'
  <2>1. ASSUME NEW e \in Deliveries \ resolved, NEW v \in Workers, Unsent(v)',
               worker'[v].delivery = e
        PROVE  outbox'[e].state \in {"sending", "unknown"}
    BY <1>1, <1>2, <2>1 DEF UntouchedRows, Unsent
  <2>2. ASSUME NEW e \in Deliveries \ resolved, NEW f \in Deliveries, e < f,
               outbox'[f].generation > 0
        PROVE  outbox'[e].state \in Settled
    <3>1. CASE f = d
      <4>1. outbox[e].state # "absent" /\ outbox'[e] = outbox[e]
        BY <1>2, <2>2, <3>1 DEF RowsInOrder
      <4> QED
        BY <1>0, <2>2, <3>1, <4>1
    <3>2. CASE f # d
      BY <1>2, <2>2, <3>2 DEF UntouchedRows
    <3> QED
      BY <3>1, <3>2
  <2> QED
    BY <1>2, <2>1, <2>2 DEF UntouchedRows
<1>9. NoSilentDuplicate' /\ VerdictIsTrue'
  <2>1. \A h \in accepted[d] : h <= outbox[d].generation
    BY DEF ClaimsAreFenced
  <2>2. outbox[d].generation \in accepted[d] => outbox[d].generation \in risked[d]
    BY <1>2 DEF RequeuedIsSafe, VerdictIsTrue
  <2>3. NoSilentDuplicate'
    BY <1>2, <2>1, <2>2 DEF NoSilentDuplicate
  <2>4. VerdictIsTrue'
    BY <1>2 DEF VerdictIsTrue
  <2> QED
    BY <2>3, <2>4
<1>10. RowsInOrder'
  BY <1>1, <1>2 DEF RowsInOrder
<1> QED
  BY <1>3, <1>4, <1>5, <1>6, <1>7, <1>8, <1>9, <1>10

(* Rows that wait are cancelled and a new row, which follows every other   *)
(* one, is queued (cancel-deliveries.ts, queue-deliveries.ts).             *)
LEMMA EditKeepsFencing ==
  ASSUME FencingInv, TypeOK', NEW D \in SUBSET Cancelable, NEW M,
         NEW k \in AllKinds \cup {"none"}, Edit(D, M, k),
         UNCHANGED <<worker, accepted, risked, resolved>>
  PROVE  FencingInv'
<1> USE DEF FencingInv, TypeOK, Row, Claim, AllKinds, States, Live, Settled, Outcomes
<1> DEFINE N == {d \in Deliveries : k # "none" /\ Follows(d)}
<1>1. \A d \in Deliveries :
        /\ d \in D => /\ outbox[d].state \in {"queued", "retry_wait"}
                      /\ outbox'[d].state = "canceled"
                      /\ outbox'[d].generation = outbox[d].generation
        /\ d \in N => /\ outbox[d].state = "absent" /\ outbox[d].generation = 0
                      /\ outbox'[d].state = "queued" /\ outbox'[d].generation = 0
        /\ (d \notin D /\ d \notin N) => outbox'[d] = outbox[d]
  BY DEF Edit, Follows, NewRow, Cancelable, InState, ClaimsAreFenced
<1>2. worker' = worker /\ accepted' = accepted /\ risked' = risked /\ resolved' = resolved
  OBVIOUS
<1>0. \A d \in N : \A e \in Deliveries : d < e => outbox[e].state = "absent" /\ outbox[e].generation = 0
  BY DEF Follows, ClaimsAreFenced
<1>3. ClaimsAreFenced'
  BY <1>1, <1>2 DEF ClaimsAreFenced, Busy
<1>4. UnsentIsUnspent'
  BY <1>1, <1>2 DEF UnsentIsUnspent, ClaimsAreFenced, Unsent, Busy
<1>5. HeldRows'
  BY <1>1, <1>2 DEF HeldRows, ClaimsAreFenced, Unsent, Busy
<1>6. DecisionsAreTrue'
  BY <1>2 DEF DecisionsAreTrue
<1>7. RequeuedIsSafe'
  BY <1>1, <1>2 DEF RequeuedIsSafe, ClaimsAreFenced
<1>8. UntouchedRows'
  BY <1>0, <1>1, <1>2 DEF UntouchedRows, Unsent
<1>9. NoSilentDuplicate' /\ VerdictIsTrue'
  BY <1>1, <1>2 DEF NoSilentDuplicate, VerdictIsTrue
<1>10. RowsInOrder'
  <2>1. \A d \in N : \A e \in Deliveries : e < d => outbox[e].state # "absent"
    BY DEF Follows
  <2>2. \A d \in Deliveries : outbox[d].state # "absent" => outbox'[d].state # "absent"
    BY <1>1
  <2>3. \A d \in Deliveries : outbox'[d].state # "absent" => d \in N \/ outbox[d].state # "absent"
    BY <1>1
  <2> QED
    BY <2>1, <2>2, <2>3 DEF RowsInOrder
<1> QED
  BY <1>3, <1>4, <1>5, <1>6, <1>7, <1>8, <1>9, <1>10

(* An operator sends a failed or unknown row again (resolve.ts).           *)
LEMMA RetryKeepsFencing ==
  ASSUME FencingInv, TypeOK', NEW d \in Deliveries, ResolveRetry(d)
  PROVE  FencingInv'
<1> USE DEF FencingInv, TypeOK, Row, Claim, AllKinds, States, Live, Settled, Outcomes
<1>1. /\ outbox[d].state \in {"failed", "unknown"}
      /\ outbox'[d].state = "queued" /\ outbox'[d].generation = outbox[d].generation
      /\ \A e \in Deliveries \ {d} : outbox'[e] = outbox[e]
  BY DEF ResolveRetry, Resolve, SetStates
<1>2. /\ worker' = worker /\ accepted' = accepted /\ resolved' = resolved \cup {d}
      /\ risked'[d] = IF outbox[d].state = "unknown"
                      THEN risked[d] \cup {outbox[d].generation} ELSE risked[d]
      /\ \A e \in Deliveries \ {d} : risked'[e] = risked[e]
  BY DEF ResolveRetry, Resolve
<1>3. ClaimsAreFenced'
  <2>1. outbox[d].generation \in Nat /\ (outbox[d].state = "unknown" => outbox[d].generation > 0)
    BY DEF ClaimsAreFenced
  <2>2. risked'[d] \subseteq 1..outbox[d].generation
    BY <1>1, <1>2, <2>1 DEF ClaimsAreFenced
  <2>3. \A e \in Deliveries :
          /\ accepted'[e] \cup risked'[e] \subseteq 1..outbox'[e].generation
          /\ outbox'[e].state = "absent" => outbox'[e].generation = 0
          /\ outbox'[e].state \in {"sending", "unknown"} => outbox'[e].generation > 0
    BY <1>1, <1>2, <2>2 DEF ClaimsAreFenced
  <2>4. \A e \in Deliveries : outbox'[e].generation = outbox[e].generation
    BY <1>1
  <2>5. \A v \in Workers : Busy(v)' = Busy(v)
    BY <1>2 DEF Busy
  <2>6. \A e \in Deliveries :
          /\ accepted'[e] \cup risked'[e] \subseteq 1..outbox'[e].generation
          /\ outbox'[e].state = "absent" => outbox'[e].generation = 0
          /\ outbox'[e].state \in {"sending", "unknown"} => outbox'[e].generation > 0
    BY <2>3
  <2>7. \A v \in Workers : Busy(v)' =>
          worker'[v].generation \in 1..outbox'[worker'[v].delivery].generation
    BY <1>2, <2>4, <2>5 DEF ClaimsAreFenced, Busy
  <2>8. \A u, v \in Workers : (/\ Busy(u)' /\ Busy(v)'
                               /\ worker'[u].delivery = worker'[v].delivery
                               /\ worker'[u].generation = worker'[v].generation) => u = v
    BY <1>2, <2>5 DEF ClaimsAreFenced
  <2> QED
    BY <2>6, <2>7, <2>8 DEF ClaimsAreFenced
<1>4. UnsentIsUnspent'
  BY <1>1, <1>2 DEF UnsentIsUnspent, ClaimsAreFenced, Unsent, Busy
<1>5. HeldRows'
  BY <1>1, <1>2 DEF HeldRows, ClaimsAreFenced, Unsent, Busy
<1>6. DecisionsAreTrue'
  BY <1>1, <1>2 DEF DecisionsAreTrue, UnsentIsUnspent, ClaimsAreFenced, Unsent, Busy
<1>7. RequeuedIsSafe'
  BY <1>1, <1>2 DEF RequeuedIsSafe, VerdictIsTrue, HeldRows, Unsent, Busy
<1>8. UntouchedRows'
  BY <1>1, <1>2 DEF UntouchedRows, Unsent
<1>9. NoSilentDuplicate' /\ VerdictIsTrue'
  BY <1>1, <1>2 DEF NoSilentDuplicate, VerdictIsTrue, UnsentIsUnspent, HeldRows, ClaimsAreFenced, Unsent, Busy
<1>10. RowsInOrder'
  BY <1>1, <1>2 DEF RowsInOrder
<1> QED
  BY <1>3, <1>4, <1>5, <1>6, <1>7, <1>8, <1>9, <1>10

-----------------------------------------------------------------------------
(* The fencing survives every step of every worker, client and operator.   *)
LEMMA FencingStep == FencingInv /\ [Next]_vars => FencingInv'
<1> SUFFICES ASSUME FencingInv, [Next]_vars PROVE FencingInv'
  OBVIOUS
<1>0. TypeOK'
  BY TypeStep DEF FencingInv
<1>1. CASE Withdraw \/ EraseClient
  BY <1>0, <1>1, EditKeepsFencing DEF Withdraw, EraseClient, CancelClient, AllKinds, history
<1>2. CASE Grant
  BY <1>0, <1>2, EditKeepsFencing DEF Grant, AllKinds, history
<1>3. ASSUME NEW k \in Kinds, Queue(k) PROVE FencingInv'
  BY <1>0, <1>3, EditKeepsFencing DEF Queue, history
<1>4. CASE CancelCycle
  BY <1>0, <1>4, EditKeepsFencing DEF CancelCycle, AllKinds, history
<1>5. CASE UnlinkIncident
  BY <1>0, <1>5, EditKeepsFencing DEF UnlinkIncident, AllKinds, history
<1>6. ASSUME NEW w \in Workers, NEW d \in Deliveries, MarkSending(w, d) PROVE FencingInv'
  BY <1>0, <1>6, ClaimKeepsFencing
<1>7. ASSUME NEW w \in Workers, Send(w) PROVE FencingInv'
  <2>1. FailureState(w) \in Outcomes \ {"delivered"}
    BY DEF FailureState, Outcomes
  <2>2. CASE UploadFails(w)
    BY <1>0, <2>1, <2>2, RefusalKeepsFencing DEF UploadFails, Unsent, history, Outcomes
  <2>3. CASE Recheck(w) /\ \E outcome \in {"canceled", "unknown"} : Decide(w, outcome)
    BY <1>0, <2>3, RefusalKeepsFencing DEF Recheck, Unsent, history, Outcomes
  <2>4. CASE Recheck(w) /\ worker' = [worker EXCEPT ![w].phase = "cleared"]
    BY <1>0, <2>4, ClearKeepsFencing DEF Recheck, Unsent, history
  <2>5. CASE MaxAccepts(w)
    BY <1>0, <2>5, AcceptKeepsFencing
  <2>6. CASE MaxRefuses(w)
    BY <1>0, <2>1, <2>6, RefusalKeepsFencing DEF MaxRefuses, Ready, Unsent, history, Outcomes
  <2> QED
    BY <1>7, <2>2, <2>3, <2>4, <2>5, <2>6 DEF Send, Recheck
<1>8. ASSUME NEW w \in Workers, Record(w) PROVE FencingInv'
  <2>1. CASE StillMine(w)
    BY <1>0, <1>8, <2>1, RecordKeepsFencing
  <2>2. CASE ~StillMine(w)
    BY <1>0, <1>8, <2>2, DropKeepsFencing DEF Record, history
  <2> QED
    BY <2>1, <2>2
<1>9. ASSUME NEW w \in Workers, Crash(w) PROVE FencingInv'
  BY <1>0, <1>9, DropKeepsFencing DEF Crash, history
<1>10. CASE MarkStale
  <2>1. PICK D \in SUBSET InState({"sending"}) : SetStates(D, D, "unknown")
    BY <1>10 DEF MarkStale
  <2>2. MoveRows(D, "unknown")
    BY <1>10, <2>1 DEF MarkStale, SetStates, MoveRows, history
  <2> QED
    BY <1>0, <2>2, StaleKeepsFencing
<1>11. ASSUME NEW w \in Workers, NEW d \in Deliveries, CancelUnauthorized(w, d) PROVE FencingInv'
  <2>1. MoveRows({d}, "canceled")
    BY <1>11 DEF CancelUnauthorized, SetStates, MoveRows, history
  <2>2. \A e \in {d} : outbox[e].state \in {"queued", "retry_wait"}
    BY <1>11 DEF CancelUnauthorized, Due
  <2> QED
    BY <1>0, <2>1, <2>2, CancelKeepsFencing
<1>12. ASSUME NEW d \in Deliveries, ResolveRetry(d) PROVE FencingInv'
  BY <1>0, <1>12, RetryKeepsFencing
<1>13. ASSUME NEW d \in Deliveries, ResolveCancel(d) PROVE FencingInv'
  <2>1. MoveRows({d}, "canceled") /\ d \in resolved'
    BY <1>13 DEF ResolveCancel, Resolve, SetStates, MoveRows
  <2>2. \A e \in {d} : \/ outbox[e].state \in {"queued", "retry_wait"}
                       \/ e \in resolved' /\ outbox[e].state \in {"failed", "unknown"}
    BY <1>13, <2>1 DEF ResolveCancel
  <2> QED
    BY <1>0, <2>1, <2>2, CancelKeepsFencing
<1>14. CASE UNCHANGED vars
  BY <1>0, <1>14 DEF vars, FencingInv, RowsInOrder, ClaimsAreFenced, UnsentIsUnspent, HeldRows,
     DecisionsAreTrue, RequeuedIsSafe, UntouchedRows, NoSilentDuplicate, VerdictIsTrue, Busy,
     Unsent
<1> QED
  BY <1>1, <1>2, <1>3, <1>4, <1>5, <1>6, <1>7, <1>8, <1>9, <1>10, <1>11, <1>12, <1>13, <1>14
  DEF Next, Application, ClaimNext, Operator

\* An empty queue with idle workers satisfies the strengthening.
LEMMA FencingInit == Init => FencingInv
<1> SUFFICES ASSUME Init PROVE FencingInv
  OBVIOUS
<1>1. TypeOK
  BY DEF Init, TypeOK, NoRow, NoClaim, Row, Claim, AllKinds, States, Live, Settled, Outcomes
<1>2. /\ \A d \in Deliveries : /\ outbox[d].state = "absent" /\ outbox[d].generation = 0
                               /\ accepted[d] = {} /\ risked[d] = {}
      /\ \A w \in Workers : worker[w].phase = "idle"
  BY DEF Init, NoRow, NoClaim
<1>3. RowsInOrder
  BY <1>2 DEF RowsInOrder
<1>4. ClaimsAreFenced
  BY <1>2 DEF ClaimsAreFenced, Busy
<1>5. UnsentIsUnspent /\ HeldRows /\ DecisionsAreTrue
  BY <1>2 DEF UnsentIsUnspent, HeldRows, DecisionsAreTrue, Busy, Unsent
<1>6. RequeuedIsSafe /\ NoSilentDuplicate /\ VerdictIsTrue
  BY <1>2 DEF RequeuedIsSafe, NoSilentDuplicate, VerdictIsTrue
<1>7. UntouchedRows
  BY <1>2 DEF UntouchedRows, Unsent
<1> QED
  BY <1>1, <1>3, <1>4, <1>5, <1>6, <1>7 DEF FencingInv

\* The strengthening holds in every reachable state: what a worker has in hand
\* (a claim of deliver()) stays consistent with the row, the history of what
\* MAX took and the risks operators accepted, whatever claims, records, sweeps
\* or cancels the row meanwhile.
THEOREM FencingHolds == Spec => []FencingInv
  BY FencingInit, FencingStep, PTL DEF Spec

(* A client gets a message twice only if an operator retried it after its  *)
(* outcome was unknown, whatever the workers, the sweep and crashes do.    *)
THEOREM AtMostOnce == Spec => []NoSilentDuplicate
<1>1. FencingInv => NoSilentDuplicate
  BY DEF FencingInv
<1> QED
  BY <1>1, FencingHolds, PTL

(* 'delivered' is recorded only for a generation MAX took, 'failed' and    *)
(* 'retry_wait' only for one it did not.                                   *)
THEOREM TrueVerdicts == Spec => []VerdictIsTrue
<1>1. FencingInv => VerdictIsTrue
  BY DEF FencingInv
<1> QED
  BY <1>1, FencingHolds, PTL

(* Rows of a client are never in flight past a live earlier row, unless an *)
(* operator revived that row.                                              *)
THEOREM OneAtATime == Spec => []HeadOfLine
<1>1. FencingInv => HeadOfLine
  BY DEF FencingInv, HeadOfLine, UntouchedRows, ClaimsAreFenced, Live, Settled
<1> QED
  BY <1>1, FencingHolds, PTL

(* A row that no operator has touched is taken once, and before any later  *)
(* row: its claim is the current one, and the rows after it were not       *)
(* claimed yet.                                                            *)
LEMMA TakenFirst ==
  ASSUME FencingInv, NEW w \in Workers, MaxAccepts(w), worker[w].delivery \notin resolved,
         NEW e \in Deliveries, worker[w].delivery <= e
  PROVE  accepted[e] = {}
<1> DEFINE d == worker[w].delivery
<1>1. Unsent(w) /\ Busy(w) /\ d \in Deliveries
  BY DEF MaxAccepts, Ready, Unsent, Busy, FencingInv, TypeOK
<1>2. outbox[d].generation \in Nat /\ outbox[e].generation \in Nat
  BY <1>1 DEF FencingInv, TypeOK, Row
<1>3. CASE e = d
  <2>1. risked[d] = {}
    BY <1>1 DEF FencingInv, UntouchedRows
  <2>2. \A g \in accepted[d] : g \in 1..outbox[d].generation
    BY <1>1 DEF FencingInv, ClaimsAreFenced
  <2>3. \A g \in accepted[d] : ~(g < outbox[d].generation)
    BY <1>1, <2>1 DEF FencingInv, NoSilentDuplicate
  <2>4. worker[w].generation \in 1..outbox[d].generation
    BY <1>1 DEF FencingInv, ClaimsAreFenced
  <2>5. worker[w].generation = outbox[d].generation
    BY <1>1, <1>2, <2>1, <2>4, CurrentOrOlder DEF FencingInv, UnsentIsUnspent
  <2>6. outbox[d].generation \notin accepted[d]
    BY <1>1, <2>5 DEF FencingInv, UnsentIsUnspent
  <2> QED
    BY <1>2, <1>3, <2>2, <2>3, <2>6, CurrentOrOlder
<1>4. CASE e # d
  <2>1. d < e
    <3>1. d \in Nat /\ e \in Nat
      BY <1>1
    <3> QED
      BY <1>4, <3>1
  <2>2. outbox[d].state \in {"sending", "unknown"}
    BY <1>1 DEF FencingInv, UntouchedRows
  <2>3. ~(outbox[e].generation > 0)
    BY <1>1, <2>1, <2>2 DEF FencingInv, UntouchedRows, Settled
  <2>4. outbox[e].generation = 0
    BY <1>2, <2>3
  <2>5. accepted[e] \subseteq 1..0
    BY <2>4 DEF FencingInv, ClaimsAreFenced
  <2> QED
    BY <2>5
<1> QED
  BY <1>3, <1>4

(* MAX takes the rows of a client in the order of the queue and each of    *)
(* them once, unless an operator touched the row.                          *)
THEOREM InOrder == Spec => NoOvertaking
<1> DEFINE Taken == \A d \in Deliveries : accepted'[d] # accepted[d] =>
                      \/ d \in resolved
                      \/ \A e \in Deliveries : d <= e => accepted[e] = {}
<1>1. ASSUME FencingInv, [Next]_vars PROVE Taken \/ UNCHANGED vars
  <2>1. ASSUME NEW w \in Workers, MaxAccepts(w) PROVE Taken
    <3> DEFINE d == worker[w].delivery
    <3>1. Unsent(w) /\ d \in Deliveries
      BY <1>1, <2>1 DEF MaxAccepts, Ready, Unsent, FencingInv, TypeOK
    <3>2. \A e \in Deliveries \ {d} : accepted'[e] = accepted[e]
      BY <1>1, <2>1 DEF MaxAccepts, FencingInv, TypeOK
    <3>3. d \notin resolved => \A e \in Deliveries : d <= e => accepted[e] = {}
      BY <1>1, <2>1, TakenFirst
    <3> QED
      BY <3>1, <3>2, <3>3
  <2>2. ASSUME UNCHANGED accepted PROVE Taken
    BY <2>2
  <2> QED
    BY <1>1, <2>1, <2>2 DEF Next, Application, Withdraw, EraseClient, Grant, Queue, CancelCycle,
       UnlinkIncident, ClaimNext, MarkSending, Send, UploadFails, Recheck, MaxRefuses, Record, Crash,
       MarkStale, CancelUnauthorized, Operator, ResolveRetry, ResolveCancel, Resolve, history
<1>2. FencingInv /\ [Next]_vars => [Taken]_vars
  BY <1>1
<1> QED
  BY <1>2, FencingHolds, PTL DEF Spec, NoOvertaking

(* A delivered or cancelled row stays as it is: not a late worker, nor the *)
(* sweep, nor an operator, nor a withdrawal touches it.                    *)
THEOREM SettledStays == Spec => SettledForGood
<1> DEFINE Stays == \A d \in Deliveries : outbox[d].state \in {"delivered", "canceled"} =>
                      outbox'[d] = outbox[d]
<1>1. ASSUME TypeOK, [Next]_vars PROVE Stays
  <2>1. ASSUME NEW D \in SUBSET Cancelable, NEW M, NEW k, Edit(D, M, k) PROVE Stays
    BY <2>1 DEF Edit, Cancelable, InState, Follows
  <2>2. ASSUME NEW D \in SUBSET Deliveries, NEW M, NEW s, SetStates(D, M, s),
               \A d \in D : outbox[d].state \notin {"delivered", "canceled"}
        PROVE  Stays
    BY <2>2 DEF SetStates
  <2>3. CASE Application
    BY <2>1, <2>3 DEF Application, Queue, Withdraw, EraseClient, Grant, CancelClient, CancelCycle,
       UnlinkIncident
  <2>4. ASSUME NEW w \in Workers, ClaimNext(w) PROVE Stays
    <3>1. ASSUME NEW d \in Deliveries, MarkSending(w, d) PROVE Stays
      BY <1>1, <3>1 DEF MarkSending, Due, TypeOK
    <3>2. ASSUME NEW d \in Deliveries, CancelUnauthorized(w, d) PROVE Stays
      <4>1. {d} \in SUBSET Deliveries /\ SetStates({d}, {d}, "canceled")
        BY <3>2 DEF CancelUnauthorized
      <4>2. \A e \in {d} : outbox[e].state \notin {"delivered", "canceled"}
        BY <3>2 DEF CancelUnauthorized, Due
      <4> QED
        BY <2>2, <4>1, <4>2
    <3> QED
      BY <2>4, <3>1, <3>2 DEF ClaimNext
  <2>5. ASSUME NEW w \in Workers, Record(w) PROVE Stays
    BY <1>1, <2>2, <2>5 DEF Record, StillMine, TypeOK
  <2>6. CASE MarkStale
    BY <2>2, <2>6 DEF MarkStale, InState
  <2>7. ASSUME NEW d \in Deliveries, ResolveRetry(d) \/ ResolveCancel(d) PROVE Stays
    <3>1. {d} \in SUBSET Deliveries /\ \E s : SetStates({d}, {d}, s)
      BY <2>7 DEF ResolveRetry, ResolveCancel, Resolve
    <3>2. \A e \in {d} : outbox[e].state \notin {"delivered", "canceled"}
      BY <2>7 DEF ResolveRetry, ResolveCancel
    <3> QED
      BY <2>2, <3>1, <3>2
  <2>8. ASSUME UNCHANGED outbox PROVE Stays
    BY <2>8
  <2> QED
    BY <1>1, <2>3, <2>4, <2>5, <2>6, <2>7, <2>8
    DEF Next, Send, UploadFails, Recheck, MaxAccepts, MaxRefuses, Crash, Operator, history, vars
<1>2. TypeOK /\ [Next]_vars => [Stays]_vars
  BY <1>1
<1> QED
  BY <1>2, TypeCorrect, PTL DEF Spec, SettledForGood

(* Except for broadcasts, the state on a message is the state of its       *)
(* delivery after every transaction that writes either of them.            *)
THEOREM MessagesMirror == Spec => []MessageMirrorsDelivery
<1> DEFINE Inv == TypeOK /\ MessageMirrorsDelivery
<1>1. Init => Inv
  BY DEF Init, TypeOK, NoRow, NoClaim, Row, Claim, AllKinds, States, Live, Settled, Outcomes,
     MessageMirrorsDelivery, Mirrors, HasMessage, WithMessage
<1>2. ASSUME Inv, [Next]_vars PROVE MessageMirrorsDelivery'
  <2> USE <1>2 DEF MessageMirrorsDelivery, Mirrors, HasMessage
  <2>0. /\ outbox \in [Deliveries -> Row]
        /\ message \in [Deliveries -> States \cup {"absent"}]
    BY DEF TypeOK
  <2>1. ASSUME NEW D \in SUBSET Deliveries, NEW M, NEW k, Edit(D, M, k),
               \A d \in D : d \in M \/ outbox[d].kind = "incident",
               \A d \in M : d \in D \/ outbox[d].state = "canceled"
        PROVE  MessageMirrorsDelivery'
    <3>1. ASSUME NEW d \in Deliveries, outbox'[d].kind # "incident",
                 outbox'[d].kind \in WithMessage
          PROVE  message'[d] = outbox'[d].state
      <4>1. CASE d \in D
        <5>1. outbox'[d] = [outbox[d] EXCEPT !.state = "canceled"]
          BY <2>1, <4>1 DEF Edit
        <5>2. outbox'[d].state = "canceled" /\ outbox'[d].kind = outbox[d].kind
          BY <2>0, <5>1 DEF Row
        <5> QED
          BY <2>1, <3>1, <4>1, <5>2 DEF Edit
      <4>2. CASE d \notin D /\ k # "none" /\ Follows(d)
        <5>1. outbox'[d] = NewRow(k)
          BY <2>1, <4>2 DEF Edit
        <5>2. outbox'[d].state = "queued" /\ outbox'[d].kind = k
          BY <5>1 DEF NewRow
        <5>3. d \notin M
          BY <2>1, <4>2 DEF Follows
        <5> QED
          BY <2>1, <3>1, <4>2, <5>2, <5>3 DEF Edit
      <4>3. CASE d \notin D /\ ~(k # "none" /\ Follows(d))
        <5>1. outbox'[d] = outbox[d]
          BY <2>1, <4>3 DEF Edit
        <5> QED
          BY <2>1, <3>1, <4>3, <5>1 DEF Edit
      <4> QED
        BY <4>1, <4>2, <4>3
    <3> QED
      BY <3>1
  <2>2. ASSUME NEW D \in SUBSET Deliveries, NEW s, SetStates(D, D, s)
        PROVE  MessageMirrorsDelivery'
    BY <2>0, <2>2 DEF SetStates, Row
  <2>3. CASE \E k \in Kinds : Queue(k)
    BY <2>1, <2>3 DEF Queue
  <2>4. CASE Withdraw \/ EraseClient
    <3>1. PICK k : Edit(Cancelable, Cancelable \cup InState({"canceled"}), k)
      BY <2>4 DEF Withdraw, EraseClient, CancelClient
    <3>2. /\ Cancelable \in SUBSET Deliveries
          /\ \A d \in Cancelable : d \in Cancelable \cup InState({"canceled"})
          /\ \A d \in Cancelable \cup InState({"canceled"}) :
                d \in Cancelable \/ outbox[d].state = "canceled"
      BY DEF Cancelable, InState
    <3> QED
      BY ONLY <2>1, <3>1, <3>2
  <2>5. CASE Grant
    BY <2>1, <2>5 DEF Grant
  <2>6. CASE CancelCycle
    <3>1. PICK D \in SUBSET Cancelable, k \in {"none", "cycle", "ticket"} : Edit(D, D, k)
      BY <2>6 DEF CancelCycle
    <3>2. D \in SUBSET Deliveries
      BY DEF Cancelable, InState
    <3>3. \A d \in D : d \in D \/ outbox[d].state = "canceled"
      OBVIOUS
    <3>4. \A d \in D : d \in D \/ outbox[d].kind = "incident"
      OBVIOUS
    <3> QED
      BY ONLY <2>1, <3>1, <3>2, <3>3, <3>4
  <2>7. CASE UnlinkIncident
    <3>1. PICK D \in SUBSET {d \in Cancelable : outbox[d].kind = "incident"} : Edit(D, {}, "none")
      BY <2>7 DEF UnlinkIncident
    <3>2. D \in SUBSET Deliveries
      BY DEF Cancelable, InState
    <3>3. \A d \in D : d \in {} \/ outbox[d].kind = "incident"
      OBVIOUS
    <3>4. \A d \in {} : d \in D \/ outbox[d].state = "canceled"
      OBVIOUS
    <3> QED
      BY ONLY <2>1, <3>1, <3>2, <3>3, <3>4
  <2>8. ASSUME NEW w \in Workers, NEW d \in Deliveries, MarkSending(w, d)
        PROVE  MessageMirrorsDelivery'
    BY <2>0, <2>8 DEF MarkSending, Row
  <2>9. ASSUME NEW w \in Workers, NEW d \in Deliveries, CancelUnauthorized(w, d)
        PROVE  MessageMirrorsDelivery'
    BY <2>2, <2>9 DEF CancelUnauthorized
  <2>10. ASSUME NEW w \in Workers, Record(w) PROVE MessageMirrorsDelivery'
    <3>1. CASE StillMine(w)
      BY <2>2, <2>10, <3>1 DEF Record, TypeOK
    <3>2. CASE ~StillMine(w)
      BY <2>10, <3>2 DEF Record
    <3> QED
      BY <3>1, <3>2
  <2>11. CASE MarkStale
    BY <2>2, <2>11 DEF MarkStale, InState
  <2>12. CASE Operator
    BY <2>2, <2>12 DEF Operator, ResolveRetry, ResolveCancel, Resolve
  <2>13. ASSUME UNCHANGED <<outbox, message>> PROVE MessageMirrorsDelivery'
    BY <2>13
  <2> QED
    BY <2>3, <2>4, <2>5, <2>6, <2>7, <2>8, <2>9, <2>10, <2>11, <2>12, <2>13
    DEF Next, Application, ClaimNext, Send, UploadFails, Recheck, MaxAccepts, MaxRefuses, Crash,
        history, vars
<1>3. Inv /\ [Next]_vars => Inv'
  BY <1>2, TypeStep
<1>4. Inv => MessageMirrorsDelivery
  OBVIOUS
<1> QED
  BY <1>1, <1>3, <1>4, PTL DEF Spec

-----------------------------------------------------------------------------
(* The delivery queue implements the specification of the module Channel:  *)
(* every transaction, request, crash and sweep of Delivery is a step of    *)
(* Channel or leaves it unchanged.                                         *)

(* What the mapping makes of a row, now and in the next state.             *)
LEMMA Places ==
  /\ \A s \in {"queued", "retry_wait"} : Place(s) = "waiting"
  /\ \A s \in {"sending", "unknown"} : Place(s) = "out"
  /\ \A s \in {"failed", "canceled"} : Place(s) = "dropped"
  /\ Place("absent") = "absent" /\ Place("delivered") = "delivered"
  /\ \A s \in States : Place(s) # "absent"
  BY DEF Place, States, Live, Settled

(* Cancelling rows that wait and queueing the next is an Edit of Channel.  *)
LEMMA EditRefines ==
  ASSUME FencingInv, NEW D \in SUBSET Cancelable, NEW M, NEW k, Edit(D, M, k),
         UNCHANGED <<accepted, risked, resolved>>
  PROVE  Promise!Edit
<1> DEFINE N == {d \in Deliveries : k # "none" /\ Follows(d)}
           row == [d \in Deliveries |-> Place(outbox[d].state)]
           next == [d \in Deliveries |-> Place(outbox'[d].state)]
<1>1. outbox \in [Deliveries -> Row]
  BY DEF FencingInv, TypeOK
<1>2. \A d \in Deliveries :
        /\ d \in D => /\ outbox'[d].state = "canceled"
                      /\ outbox'[d].generation = outbox[d].generation
                      /\ outbox[d].state \in {"queued", "retry_wait"}
        /\ (d \in N /\ d \notin D) =>
                      /\ outbox'[d].state = "queued"
                      /\ outbox'[d].generation = 0 /\ outbox[d].generation = 0
        /\ (d \notin D /\ d \notin N) => outbox'[d] = outbox[d]
  BY <1>1 DEF Edit, NewRow, Cancelable, InState, Row, FencingInv, ClaimsAreFenced, Follows
<1>3. \A d \in Deliveries : outbox[d].state \in States \cup {"absent"}
  BY <1>1 DEF Row
<1>4. \A d \in Deliveries : (row[d] = "absent" <=> outbox[d].state = "absent")
  BY <1>3, Places
<1>5. N \subseteq {d \in Deliveries : Promise!Follows(d)}
  BY <1>4 DEF Follows, Promise!Follows
<1>6. D \subseteq {d \in Deliveries : row[d] = "waiting"}
  BY <1>2, Places DEF Cancelable, InState
<1>7. next = [d \in Deliveries |-> IF d \in D THEN "dropped"
                                   ELSE IF d \in N THEN "waiting" ELSE row[d]]
  BY <1>2, Places
<1>8. [d \in Deliveries |-> outbox'[d].generation] = [d \in Deliveries |-> outbox[d].generation]
  BY <1>2
<1>9. \E A \in SUBSET {d \in Deliveries : row[d] = "waiting"},
         B \in SUBSET {d \in Deliveries : Promise!Follows(d)} :
         next = [d \in Deliveries |-> IF d \in A THEN "dropped"
                                     ELSE IF d \in B THEN "waiting" ELSE row[d]]
  <2> HIDE DEF N, row, next
  <2>1. D \in SUBSET {d \in Deliveries : row[d] = "waiting"}
    BY <1>6
  <2>2. N \in SUBSET {d \in Deliveries : Promise!Follows(d)}
    BY <1>5
  <2> WITNESS D \in SUBSET {d \in Deliveries : row[d] = "waiting"},
              N \in SUBSET {d \in Deliveries : Promise!Follows(d)}
  <2> QED
    BY <1>7
<1> QED
  BY <1>8, <1>9 DEF Promise!Edit

-----------------------------------------------------------------------------
(* What Channel sees of the queue.                                         *)
Seen == <<[d \in Deliveries |-> Place(outbox[d].state)],
          [d \in Deliveries |-> outbox[d].generation], accepted, risked, resolved>>

(* Sweeping and recording "unknown" leave a row with the chat.             *)
LEMMA StaleRefines ==
  ASSUME TypeOK, NEW D \in SUBSET InState({"sending"}), MoveRows(D, "unknown"),
         UNCHANGED resolved
  PROVE  UNCHANGED Seen
<1>1. \A d \in Deliveries : /\ outbox'[d].generation = outbox[d].generation
                            /\ Place(outbox'[d].state) = Place(outbox[d].state)
  BY Places DEF MoveRows, InState, TypeOK, Row
<1> QED
  BY <1>1 DEF MoveRows, Seen

(* A claim offers the first row that is not over (claim.ts).               *)
LEMMA ClaimRefines ==
  ASSUME FencingInv, NEW w \in Workers, NEW d \in Deliveries, MarkSending(w, d)
  PROVE  Promise!Offer(d)
<1> DEFINE row == [e \in Deliveries |-> Place(outbox[e].state)]
           try == [e \in Deliveries |-> outbox[e].generation]
<1>1. outbox \in [Deliveries -> Row]
  BY DEF FencingInv, TypeOK
<1>2. /\ outbox[d].state \in {"queued", "retry_wait"}
      /\ outbox'[d].state = "sending" /\ outbox'[d].generation = outbox[d].generation + 1
      /\ \A e \in Deliveries \ {d} : outbox'[e] = outbox[e]
  BY <1>1 DEF MarkSending, Due, Row
<1>3. ASSUME NEW e \in Deliveries, e < d PROVE row[e] \in Promise!Over
  <2>1. outbox[e].state \notin Live
    <3>1. ~(d <= e)
      <4>1. d \in Nat /\ e \in Nat
        OBVIOUS
      <4> QED
        BY <1>3, <4>1
    <3> QED
      BY <3>1 DEF MarkSending, Due, IsHead
  <2>2. outbox[e].state # "absent"
    BY <1>2, <1>3 DEF FencingInv, RowsInOrder
  <2>3. outbox[e].state \in Settled
    BY <1>1, <2>1, <2>2 DEF Row, States
  <2> QED
    BY <2>3, Places DEF Settled, Promise!Over
<1>4. row[d] = "waiting"
  BY <1>2, Places
<1>5. [e \in Deliveries |-> Place(outbox'[e].state)] = [row EXCEPT ![d] = "out"]
  BY <1>2, Places
<1>6. [e \in Deliveries |-> outbox'[e].generation] = [try EXCEPT ![d] = @ + 1]
  BY <1>2
<1>7. UNCHANGED <<accepted, risked, resolved>>
  BY DEF MarkSending, history
<1> QED
  BY <1>3, <1>4, <1>5, <1>6, <1>7 DEF Promise!Offer

(* MAX takes the offer at hand, in order, or one that was given up.        *)
LEMMA AcceptRefines ==
  ASSUME FencingInv, NEW w \in Workers, MaxAccepts(w)
  PROVE  Promise!Take(worker[w].delivery)
<1> DEFINE d == worker[w].delivery
           g == worker[w].generation
<1>1. Unsent(w) /\ Busy(w) /\ d \in Deliveries
  BY DEF MaxAccepts, Ready, Unsent, Busy, FencingInv, TypeOK
<1>2. /\ g \in 1..outbox[d].generation
      /\ g \notin accepted[d]
      /\ g < outbox[d].generation => g \in risked[d]
  BY <1>1 DEF FencingInv, ClaimsAreFenced, UnsentIsUnspent
<1>3. accepted' = [accepted EXCEPT ![d] = @ \cup {g}] /\ UNCHANGED <<outbox, risked, resolved>>
  BY DEF MaxAccepts
<1>4. CASE d \notin resolved
  <2>1. outbox[d].state \in {"sending", "unknown"}
    BY <1>1, <1>4 DEF FencingInv, UntouchedRows
  <2>2. \A e \in Deliveries : d <= e => accepted[e] = {}
    BY <1>4, TakenFirst
  <2> QED
    BY <1>1, <1>2, <1>3, <2>1, <2>2, Places DEF Promise!Take
<1>5. CASE d \in resolved
  BY <1>1, <1>2, <1>3, <1>5 DEF Promise!Take
<1> QED
  BY <1>4, <1>5

(* Recording an outcome is the verdict of Channel (record-outcome.ts).     *)
LEMMA RecordRefines ==
  ASSUME FencingInv, NEW w \in Workers, Record(w), StillMine(w)
  PROVE  LET d == worker[w].delivery
         IN  Promise!Settle(d) \/ Promise!Return(d) \/ UNCHANGED Seen
<1> DEFINE d == worker[w].delivery
           g == outbox[d].generation
           row == [e \in Deliveries |-> Place(outbox[e].state)]
           next == [e \in Deliveries |-> Place(outbox'[e].state)]
<1>1. d \in Deliveries /\ worker[w].phase = "done" /\ worker[w].generation = g
      /\ outbox[d].state = "sending" /\ worker[w].outcome \in Outcomes
  BY DEF Record, StillMine, FencingInv, TypeOK
<1>2. /\ outbox'[d].state = worker[w].outcome /\ outbox'[d].generation = g
      /\ \A e \in Deliveries \ {d} : outbox'[e] = outbox[e]
      /\ UNCHANGED <<accepted, risked, resolved>>
  BY <1>1 DEF Record, SetStates, history, FencingInv, TypeOK, Row
<1>3. [e \in Deliveries |-> outbox'[e].generation] = [e \in Deliveries |-> outbox[e].generation]
  BY <1>2
<1>4. row[d] = "out"
  BY <1>1, Places
<1>5. next = [row EXCEPT ![d] = Place(worker[w].outcome)]
  BY <1>2
<1>10. [e \in Deliveries |-> outbox[e].generation][d] = g
  BY <1>1
<1>6. CASE worker[w].outcome = "delivered"
  <2>1. g \in accepted[d]
    BY <1>1, <1>6 DEF FencingInv, DecisionsAreTrue
  <2>2. next = [row EXCEPT ![d] = IF g \in accepted[d] THEN "delivered" ELSE "dropped"]
    BY <1>5, <1>6, <2>1, Places
  <2>3. Promise!Settle(d)
    BY <1>2, <1>3, <1>4, <1>10, <2>2 DEF Promise!Settle
  <2> QED
    BY <2>3
<1>7. CASE worker[w].outcome \in {"failed", "canceled"}
  <2>1. g \notin accepted[d]
    BY <1>1, <1>7 DEF FencingInv, DecisionsAreTrue
  <2>2. next = [row EXCEPT ![d] = IF g \in accepted[d] THEN "delivered" ELSE "dropped"]
    BY <1>5, <1>7, <2>1, Places
  <2>3. Promise!Settle(d)
    BY <1>2, <1>3, <1>4, <1>10, <2>2 DEF Promise!Settle
  <2> QED
    BY <2>3
<1>8. CASE worker[w].outcome = "retry_wait"
  <2>1. g \notin accepted[d]
    BY <1>1, <1>8 DEF FencingInv, DecisionsAreTrue
  <2> QED
    BY <1>1, <1>2, <1>3, <1>4, <1>5, <1>8, <2>1, Places DEF Promise!Return
<1>9. CASE worker[w].outcome = "unknown"
  <2>1. next = row
    BY <1>4, <1>5, <1>9, Places
  <2> QED
    BY <1>2, <1>3, <2>1 DEF Seen
<1> QED
  BY <1>1, <1>6, <1>7, <1>8, <1>9 DEF Outcomes

(* An operator sends a row again (resolve.ts).                             *)
LEMMA RetryRefines ==
  ASSUME FencingInv, NEW d \in Deliveries, ResolveRetry(d)
  PROVE  Promise!Repeat(d)
<1> DEFINE row == [e \in Deliveries |-> Place(outbox[e].state)]
<1>1. /\ outbox[d].state \in {"failed", "unknown"}
      /\ outbox'[d].state = "queued" /\ outbox'[d].generation = outbox[d].generation
      /\ \A e \in Deliveries \ {d} : outbox'[e] = outbox[e]
  BY DEF ResolveRetry, Resolve, SetStates, FencingInv, TypeOK, Row
<1>2. [e \in Deliveries |-> outbox'[e].generation] = [e \in Deliveries |-> outbox[e].generation]
  BY <1>1
<1>3. [e \in Deliveries |-> Place(outbox'[e].state)] = [row EXCEPT ![d] = "waiting"]
  BY <1>1, Places
<1>4. /\ row[d] \in {"out", "dropped"}
      /\ row[d] = "out" <=> outbox[d].state = "unknown"
  BY <1>1, Places
<1>5. /\ risked' = IF row[d] = "out" THEN [risked EXCEPT ![d] = @ \cup {outbox[d].generation}]
                    ELSE risked
      /\ resolved' = resolved \cup {d} /\ UNCHANGED accepted
  BY <1>4 DEF ResolveRetry, Resolve
<1> QED
  BY <1>2, <1>3, <1>4, <1>5 DEF Promise!Repeat

(* An operator gives a row up (resolve.ts).                                *)
LEMMA CancelRefines ==
  ASSUME FencingInv, NEW d \in Deliveries, ResolveCancel(d)
  PROVE  Promise!GiveUp(d)
<1> DEFINE row == [e \in Deliveries |-> Place(outbox[e].state)]
<1>1. /\ outbox[d].state \in {"queued", "retry_wait", "failed", "unknown"}
      /\ outbox'[d].state = "canceled" /\ outbox'[d].generation = outbox[d].generation
      /\ \A e \in Deliveries \ {d} : outbox'[e] = outbox[e]
  BY DEF ResolveCancel, Resolve, SetStates, FencingInv, TypeOK, Row
<1>2. [e \in Deliveries |-> outbox'[e].generation] = [e \in Deliveries |-> outbox[e].generation]
  BY <1>1
<1>3. [e \in Deliveries |-> Place(outbox'[e].state)] = [row EXCEPT ![d] = "dropped"]
  BY <1>1, Places
<1>4. row[d] \in {"waiting", "out", "dropped"}
  BY <1>1, Places
<1>5. resolved' = resolved \cup {d} /\ UNCHANGED <<accepted, risked>>
  BY DEF ResolveCancel, Resolve
<1> QED
  BY <1>2, <1>3, <1>4, <1>5 DEF Promise!GiveUp

-----------------------------------------------------------------------------
(* Every step of the queue is a step of Channel, or none.                  *)
LEMMA StepRefines == FencingInv /\ [Next]_vars => [Promise!Next]_(Promise!vars)
<1> SUFFICES ASSUME FencingInv, [Next]_vars PROVE Promise!Next \/ UNCHANGED Seen
  BY DEF Promise!vars, Seen
<1>0. TypeOK
  BY DEF FencingInv
<1>1. CASE Application
  <2>1. PICK D \in SUBSET Cancelable : \E M, k : Edit(D, M, k)
    BY <1>1 DEF Application, Queue, Withdraw, EraseClient, Grant, CancelClient, CancelCycle,
       UnlinkIncident
  <2>2. UNCHANGED <<accepted, risked, resolved>>
    BY <1>1 DEF Application, Queue, Withdraw, EraseClient, Grant, CancelCycle, UnlinkIncident,
       history
  <2> QED
    BY <2>1, <2>2, EditRefines DEF Promise!Next
<1>2. ASSUME NEW w \in Workers, NEW d \in Deliveries, MarkSending(w, d) PROVE Promise!Next
  BY <1>2, ClaimRefines DEF Promise!Next
<1>3. ASSUME NEW w \in Workers, NEW d \in Deliveries, CancelUnauthorized(w, d)
      PROVE  Promise!Next
  <2>1. {d} \in SUBSET Cancelable
    BY <1>3 DEF CancelUnauthorized, Due, Cancelable, InState
  <2>2. Edit({d}, {d}, "none") /\ UNCHANGED <<accepted, risked, resolved>>
    BY <1>3 DEF CancelUnauthorized, SetStates, Edit, history
  <2> QED
    BY <2>1, <2>2, EditRefines DEF Promise!Next
<1>4. ASSUME NEW w \in Workers, MaxAccepts(w) PROVE Promise!Next
  <2>1. worker[w].delivery \in Deliveries
    BY <1>0, <1>4 DEF MaxAccepts, Ready, TypeOK
  <2> QED
    BY <1>4, <2>1, AcceptRefines DEF Promise!Next
<1>5. ASSUME NEW w \in Workers, UploadFails(w) \/ Recheck(w) \/ MaxRefuses(w) \/ Crash(w)
      PROVE  UNCHANGED Seen
  BY <1>5 DEF UploadFails, Recheck, MaxRefuses, Crash, history, Seen
<1>6. ASSUME NEW w \in Workers, Record(w) PROVE Promise!Next \/ UNCHANGED Seen
  <2>1. CASE StillMine(w)
    <3>1. worker[w].delivery \in Deliveries
      BY <1>0, <1>6 DEF Record, TypeOK
    <3> QED
      BY <1>6, <2>1, <3>1, RecordRefines DEF Promise!Next
  <2>2. CASE ~StillMine(w)
    BY <1>6, <2>2 DEF Record, history, Seen
  <2> QED
    BY <2>1, <2>2
<1>7. CASE MarkStale
  <2>1. PICK D \in SUBSET InState({"sending"}) : SetStates(D, D, "unknown")
    BY <1>7 DEF MarkStale
  <2>2. MoveRows(D, "unknown") /\ UNCHANGED resolved
    BY <1>7, <2>1 DEF MarkStale, SetStates, MoveRows, history
  <2> QED
    BY <1>0, <2>2, StaleRefines
<1>8. ASSUME NEW d \in Deliveries, ResolveRetry(d) \/ ResolveCancel(d) PROVE Promise!Next
  BY <1>8, RetryRefines, CancelRefines DEF Promise!Next
<1>9. CASE UNCHANGED vars
  BY <1>9 DEF vars, Seen
<1> QED
  BY <1>1, <1>2, <1>3, <1>4, <1>5, <1>6, <1>7, <1>8, <1>9 DEF Next, ClaimNext, Send, Operator

(* The outgoing queue of modules/delivery implements the in-order channel  *)
(* that repeats nothing by itself, for any number of rows and workers.     *)
THEOREM Refinement == Spec => ImplementsChannel
<1>1. Init => Promise!Init
  BY Places DEF Init, NoRow, Promise!Init
<1> QED
  BY <1>1, StepRefines, FencingHolds, PTL DEF Spec, ImplementsChannel, Promise!Spec
=============================================================================
