-------------------------------- MODULE Calls -------------------------------
(***************************************************************************)
(* What a job may rely on when it asks the language model: a step of it is *)
(* asked once.  A reply, once there, stays; a failure is final; a request  *)
(* whose outcome is unknown is not repeated, and at most written off by an *)
(* operator.  Only what the provider refused to do may be asked again.     *)
(*                                                                         *)
(* This is the table ai_calls as others see it, one row at most for each   *)
(* step of a job (UNIQUE(job_id,step_key)).  Gateway implements it, the    *)
(* jobs of Workflows use it.                                               *)
(***************************************************************************)
CONSTANT Keys       \* the steps of the jobs

VARIABLE state      \* ai_calls.state, "none" without a row

Outcomes == {"completed", "failed", "uncertain"}
States   == {"none", "running"} \cup Outcomes

TypeOK == state \in [Keys -> States]

Init == state = [k \in Keys |-> "none"]

\* takePermit: the row is written before the request.
Start(k) ==
    /\ state[k] = "none"
    /\ state' = [state EXCEPT ![k] = "running"]

\* settleSuccess, settleFailure, or the sweep of a lost gateway.
Finish(k, outcome) ==
    /\ state[k] = "running"
    /\ state' = [state EXCEPT ![k] = outcome]

\* settleFailure of what the provider refused: the row is deleted.
Forget(k) == Finish(k, "none")

\* permit-resolve
WriteOff(k) ==
    /\ state[k] = "uncertain"
    /\ state' = [state EXCEPT ![k] = "failed"]

Next ==
    \E k \in Keys : \/ Start(k) \/ Forget(k) \/ WriteOff(k)
                    \/ \E outcome \in Outcomes : Finish(k, outcome)

Spec == Init /\ [][Next]_state
=============================================================================
