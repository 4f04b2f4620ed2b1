--------------------------- MODULE Gateway_proofs ---------------------------
(***************************************************************************)
(* Proofs about Gateway for every set of jobs and steps, every number of   *)
(* permits and every cap an operator may set.                              *)
(***************************************************************************)
EXTENDS Gateway, FiniteSetTheorems, TLAPS

USE NoneAssumption, SlotsAssumption, CapsAssumption, BoundsAssumption

-----------------------------------------------------------------------------
(* The invariant.                                                          *)

\* An execution knows whether the provider works on its call: a request is out
\* while it is "calling", and over with every outcome but "unknown".
ExecutionKnows ==
    \A c \in Calls :
        /\ process[c].phase = "preparing" => call[c].state = "running"
        /\ process[c].phase = "calling" => c \in working
        /\ c \in working => process[c].phase \in {"gone", "calling", "unknown"}

\* What was asked, and is still remembered, is in a row of ai_calls.
AskedIsRecorded ==
    \A c \in Calls :
        /\ asked[c] <= 1
        /\ process[c].phase \in {"preparing", "unfit", "refused"} => asked[c] = 0
        /\ c \in working => asked[c] = 1
        /\ call[c].state = "none" => asked[c] = 0 /\ process[c].phase = "gone"

\* The cap is never lowered below what is taken, nor is more taken than it allows.
CapIsKept == Cardinality(Occupied) <= cap

GatewayInv ==
    /\ TypeOK
    /\ PermitsAccounted
    /\ ExecutionKnows
    /\ AskedIsRecorded
    /\ CapIsKept


-----------------------------------------------------------------------------
(* A permit that a call holds is the one its row names.                    *)
LEMMA HeldIsNamed ==
  ASSUME TypeOK, PermitsAccounted, NEW p \in Slots, NEW c \in Calls, permit[p].holder = c
  PROVE  /\ permit[p].state # "free" /\ HeldBy(p, c)
         /\ call[c].slot = p /\ call[c].state = permit[p].state
         /\ \A q \in Slots : permit[q].holder = c => q = p
<1>1. permit[p].state # "free"
  BY DEF TypeOK, Calls
<1>2. call[c] = [state |-> permit[p].state, slot |-> p, generation |-> permit[p].generation]
  BY <1>1 DEF PermitsAccounted
<1>3. \A q \in Slots : permit[q].holder = c => q = p
  <2> SUFFICES ASSUME NEW q \in Slots, permit[q].holder = c PROVE q = p
    OBVIOUS
  <2>1. permit[q].state # "free"
    BY DEF TypeOK, Calls
  <2>2. call[c] = [state |-> permit[q].state, slot |-> q, generation |-> permit[q].generation]
    BY <2>1 DEF PermitsAccounted
  <2> QED
    BY <1>2, <2>2
<1> QED
  BY <1>1, <1>2, <1>3 DEF HeldBy

(* Steps of the execution of a call that write neither row nor permit: the *)
(* check before the request, the request, its outcome, a crash.            *)
LEMMA CallStep ==
  ASSUME GatewayInv, NEW c \in Calls,
         \/ Unfit(c) \/ Dispatch(c) \/ ProviderAnswers(c) \/ ProviderRefuses(c)
         \/ OutcomeUnknown(c) \/ EndsUnheard(c) \/ Abandon(c)
  PROVE  GatewayInv'
<1> USE DEF GatewayInv
<1>1. /\ UNCHANGED <<run, active, call, permit, cap>>
      /\ process' \in [Calls -> [phase : Phases, run : Nat]]
      /\ \A d \in Calls \ {c} : /\ process'[d] = process[d] /\ asked'[d] = asked[d]
                                /\ d \in working' <=> d \in working
      /\ working' \subseteq Calls
      /\ asked' \in [Calls -> Nat]
  <2> USE DEF TypeOK, Job, Enters, Phases, Results
  <2>1. CASE ProviderRefuses(c)
    BY <2>1 DEF ProviderRefuses, AskedIsRecorded
  <2>2. CASE Abandon(c)
    BY <2>2 DEF Abandon, NoProcess
  <2>3. CASE ProviderAnswers(c)
    BY <2>3 DEF ProviderAnswers
  <2>4. CASE Dispatch(c)
    BY <2>4 DEF Dispatch
  <2>5. CASE Unfit(c)
    BY <2>5 DEF Unfit
  <2>6. CASE OutcomeUnknown(c)
    BY <2>6 DEF OutcomeUnknown
  <2>7. CASE EndsUnheard(c)
    BY <2>7 DEF EndsUnheard
  <2> QED
    BY <2>1, <2>2, <2>3, <2>4, <2>5, <2>6, <2>7
<1>2. TypeOK'
  BY <1>1 DEF TypeOK
<1>3. /\ process'[c].phase = "preparing" => FALSE
      /\ process'[c].phase = "calling" => c \in working'
      /\ c \in working' => process'[c].phase \in {"gone", "calling", "unknown"}
      /\ asked'[c] <= 1
      /\ process'[c].phase \in {"unfit", "refused"} => asked'[c] = 0
      /\ c \in working' => asked'[c] = 1
      /\ call[c].state = "none" => asked'[c] = 0 /\ process'[c].phase = "gone"
      /\ c \in working' => c \in working \/ call[c].state = "running"
  <2>0. process[c] \in [phase : Phases, run : Nat] /\ asked[c] \in Nat
    BY DEF TypeOK
  <2>9. \A phase : Enters(c, phase) => process'[c].phase = phase
    BY DEF TypeOK, Enters
  <2> USE <2>0, <2>9 DEF ExecutionKnows, AskedIsRecorded
  <2>1. CASE Unfit(c)
    BY <2>1 DEF Unfit
  <2>2. CASE Dispatch(c)
    BY <2>2 DEF Dispatch, TypeOK
  <2>3. CASE ProviderAnswers(c)
    BY <2>3 DEF ProviderAnswers
  <2>4. CASE ProviderRefuses(c)
    BY <2>4 DEF ProviderRefuses, TypeOK
  <2>5. CASE OutcomeUnknown(c)
    BY <2>5 DEF OutcomeUnknown
  <2>6. CASE EndsUnheard(c)
    BY <2>6 DEF EndsUnheard
  <2>7. CASE Abandon(c)
    BY <2>7 DEF Abandon, NoProcess, TypeOK
  <2> QED
    BY <2>1, <2>2, <2>3, <2>4, <2>5, <2>6, <2>7
<1>4. PermitsAccounted'
  BY <1>1, <1>3 DEF PermitsAccounted
<1>5. ExecutionKnows'
  BY <1>1, <1>3 DEF ExecutionKnows
<1>6. AskedIsRecorded'
  BY <1>1, <1>3 DEF AskedIsRecorded
<1>7. CapIsKept'
  BY <1>1 DEF CapIsKept, Occupied
<1> QED
  BY <1>2, <1>4, <1>5, <1>6, <1>7

(* Giving permits back frees room under the cap.                           *)
LEMMA NoMoreOccupied ==
  ASSUME CapIsKept, UNCHANGED cap, cap \in Nat, Occupied' \subseteq Occupied
  PROVE  CapIsKept'
<1>1. IsFiniteSet(Occupied)
  BY FS_Subset DEF Occupied
<1>2. Cardinality(Occupied') <= Cardinality(Occupied)
  BY <1>1, FS_Subset
<1>3. Cardinality(Occupied) \in Nat /\ Cardinality(Occupied') \in Nat
  BY <1>1, FS_Subset, FS_CardinalityType
<1> QED
  BY <1>2, <1>3 DEF CapIsKept

(* takePermit takes a free slot, for a step that has no row.               *)
LEMMA AdmitStep ==
  ASSUME GatewayInv, NEW c \in Calls, NEW p \in Slots, Admit(c, p)
  PROVE  GatewayInv'
<1> USE DEF GatewayInv
<1> DEFINE generation == permit[p].generation + 1
<1>1. /\ permit' = [permit EXCEPT ![p] = [state |-> "running", holder |-> c, generation |-> generation]]
      /\ call' = [call EXCEPT ![c] = [state |-> "running", slot |-> p, generation |-> generation]]
      /\ process' = [process EXCEPT ![c] = [phase |-> "preparing", run |-> run[c[1]]]]
      /\ UNCHANGED <<run, active, cap, working, asked>>
      /\ call[c].state = "none" /\ permit[p].state = "free" /\ Cardinality(Occupied) < cap
  BY DEF Admit, Job, Askable, HasRoom
<1>2. generation \in Nat /\ run[c[1]] \in Nat
  BY DEF TypeOK, Calls
<1>3. TypeOK'
  <2>1. c # None
    BY DEF Calls
  <2> QED
    BY <1>1, <1>2, <2>1 DEF TypeOK, CallStates, PermitStates, Phases
<1>4. c \notin working
  <2>1. \A q \in Slots : permit[q].holder # c
    BY <1>1, HeldIsNamed DEF TypeOK, PermitStates
  <2> QED
    BY <2>1 DEF PermitsAccounted
<1>5. PermitsAccounted'
  <2>1. permit[p].holder = None
    BY <1>1 DEF TypeOK
  <2>2. ASSUME NEW d \in Calls, NEW q \in Slots, permit[q].holder = d
        PROVE  \E r \in Slots : permit'[r].holder = d
    <3>1. q # p
      BY <2>1, <2>2 DEF Calls
    <3> QED
      BY <1>1, <2>2, <3>1 DEF TypeOK
  <2>3. \A d \in working' : \E q \in Slots : permit'[q].holder = d
    BY <1>1, <2>2 DEF PermitsAccounted, TypeOK
  <2>4. \A d \in Calls : call'[d].state = "running" => \E q \in Slots : permit'[q].holder = d
    BY <1>1, <2>2 DEF PermitsAccounted, TypeOK
  <2>5. ASSUME NEW q \in Slots, permit'[q].state # "free"
        PROVE  /\ permit'[q].holder \in Calls
               /\ call'[permit'[q].holder] =
                     [state |-> permit'[q].state, slot |-> q, generation |-> permit'[q].generation]
    <3>1. CASE q = p
      BY <1>1, <3>1 DEF TypeOK
    <3>2. CASE q # p
      <4>1. permit'[q] = permit[q] /\ permit[q].holder \in Calls
        BY <1>1, <2>5, <3>2 DEF TypeOK, PermitsAccounted
      <4>2. permit[q].holder # c
        BY <1>1, HeldIsNamed DEF TypeOK, PermitStates
      <4> QED
        BY <1>1, <2>5, <4>1, <4>2 DEF TypeOK, PermitsAccounted
    <3> QED
      BY <3>1, <3>2
  <2> QED
    BY <2>3, <2>4, <2>5 DEF PermitsAccounted
<1>6. ExecutionKnows'
  BY <1>1, <1>4 DEF ExecutionKnows, TypeOK
<1>7. AskedIsRecorded'
  BY <1>1, <1>4 DEF AskedIsRecorded, TypeOK
<1>8. CapIsKept'
  <2>1. Occupied' = Occupied \cup {p} /\ p \notin Occupied
    BY <1>1 DEF Occupied, TypeOK
  <2>2. IsFiniteSet(Occupied)
    BY FS_Subset DEF Occupied
  <2>3. Cardinality(Occupied') = Cardinality(Occupied) + 1 /\ Cardinality(Occupied) \in Nat
    BY <2>1, <2>2, FS_AddElement, FS_CardinalityType
  <2>4. cap \in Nat /\ cap' = cap
    BY <1>1 DEF TypeOK
  <2> QED
    BY <1>1, <2>3, <2>4 DEF CapIsKept
<1> QED
  BY <1>3, <1>5, <1>6, <1>7, <1>8

(* What settleSuccess and settleFailure leave of the row: nothing to wait  *)
(* for, and nothing at all only where the provider was not asked.          *)
LEMMA SettledRow ==
  ASSUME GatewayInv, NEW c \in Calls, process[c].phase \in Results, NEW row \in SettledRows(c)
  PROVE  /\ row \in [state : CallStates, slot : Slots \cup {0}, generation : Nat]
         /\ row.state # "running"
         /\ row.state = "none" => asked[c] = 0
         /\ process[c].phase = "unknown" /\ call[c].state \in {"running", "uncertain"}
               => row = [call[c] EXCEPT !.state = "uncertain"]
<1> USE DEF GatewayInv
<1>1. /\ call[c] \in [state : CallStates, slot : Slots \cup {0}, generation : Nat]
      /\ call[c].state # "none" /\ process[c].phase # "gone"
  BY DEF TypeOK, AskedIsRecorded, Results
<1>2. CASE call[c].state # "running"
  <2>1. row = call[c]
    BY <1>2 DEF SettledRows
  <2>2. call[c].state = "uncertain" => call[c] = [call[c] EXCEPT !.state = "uncertain"]
    BY <1>1
  <2> QED
    BY <1>1, <1>2, <2>1, <2>2
<1>3. CASE call[c].state = "running"
  <2>1. CASE process[c].phase \in {"unfit", "refused"}
    <3>1. row = NoCall
      BY <1>3, <2>1 DEF SettledRows
    <3>2. asked[c] = 0
      BY <2>1 DEF AskedIsRecorded
    <3> QED
      BY <2>1, <3>1, <3>2 DEF NoCall, CallStates
  <2>2. CASE process[c].phase = "answered"
    <3>1. \E state \in {"completed", "failed"} : row = [call[c] EXCEPT !.state = state]
      BY <1>3, <2>2 DEF SettledRows
    <3> QED
      BY <1>1, <2>2, <3>1 DEF CallStates
  <2>3. CASE process[c].phase = "unknown"
    <3>1. row = [call[c] EXCEPT !.state = "uncertain"]
      BY <1>3, <2>3 DEF SettledRows
    <3> QED
      BY <1>1, <3>1 DEF CallStates
  <2>4. CASE process[c].phase = "rejected"
    <3>1. row = [call[c] EXCEPT !.state = "failed"]
      BY <1>3, <2>4 DEF SettledRows
    <3> QED
      BY <1>1, <2>4, <3>1 DEF CallStates
  <2> QED
    BY <2>1, <2>2, <2>3, <2>4 DEF Results
<1> QED
  BY <1>2, <1>3

(* Settling ends the row and the permit together, or leaves both where the *)
(* sweep or an operator was first (settle.ts).                             *)
LEMMA SettleStep ==
  ASSUME GatewayInv, NEW c \in Calls, Settle(c)
  PROVE  GatewayInv'
<1> USE DEF GatewayInv
<1>1. PICK row \in SettledRows(c) : call' = [call EXCEPT ![c] = row]
  BY DEF Settle
<1>2. /\ process[c].phase \in Results
      /\ permit' = [p \in Slots |-> IF HeldBy(p, c) THEN Released(p, c) ELSE permit[p]]
      /\ process' = [process EXCEPT ![c] = NoProcess]
      /\ UNCHANGED <<run, active, cap, working, asked>>
  BY DEF Settle, Job
<1>3. /\ row \in [state : CallStates, slot : Slots \cup {0}, generation : Nat]
      /\ row.state # "running"
      /\ row.state = "none" => asked[c] = 0
      /\ process[c].phase = "unknown" /\ call[c].state \in {"running", "uncertain"}
            => row = [call[c] EXCEPT !.state = "uncertain"]
  BY <1>2, SettledRow
<1>4. /\ call'[c] = row /\ \A d \in Calls \ {c} : call'[d] = call[d]
      /\ process'[c].phase = "gone" /\ \A d \in Calls \ {c} : process'[d] = process[d]
  BY <1>1, <1>2 DEF TypeOK, NoProcess
<1>5. \A p \in Slots : /\ permit[p].holder # c => permit'[p] = permit[p]
                       /\ permit[p].holder = c => permit'[p] = Released(p, c)
  BY <1>2, HeldIsNamed DEF HeldBy
<1>6. c # None /\ \A p \in Slots : permit[p] \in [state : PermitStates, holder : Calls \cup {None}, generation : Nat]
  BY DEF Calls, TypeOK
<1>7. \A p \in Slots : permit[p].holder = c =>
        IF process[c].phase = "unknown"
        THEN permit'[p] = [permit[p] EXCEPT !.state = "uncertain"]
        ELSE permit'[p] = [permit[p] EXCEPT !.state = "free", !.holder = None]
  BY <1>5 DEF Released
<1>8. TypeOK'
  <2>1. call' \in [Calls -> [state : CallStates, slot : Slots \cup {0}, generation : Nat]]
    BY <1>1, <1>3 DEF TypeOK
  <2>2. process' \in [Calls -> [phase : Phases, run : Nat]]
    BY <1>2 DEF TypeOK, NoProcess, Phases
  <2>3. ASSUME NEW p \in Slots
        PROVE  /\ permit'[p] \in [state : PermitStates, holder : Calls \cup {None}, generation : Nat]
               /\ permit'[p].state = "free" <=> permit'[p].holder = None
    <3>1. permit[p].state = "free" <=> permit[p].holder = None
      BY DEF TypeOK
    <3>2. CASE permit[p].holder # c
      BY <1>5, <1>6, <3>1, <3>2
    <3>3. CASE permit[p].holder = c
      <4>1. CASE process[c].phase = "unknown"
        <5>1. permit'[p] = [permit[p] EXCEPT !.state = "uncertain"]
          BY <1>7, <3>3, <4>1
        <5> QED
          BY <1>6, <3>3, <5>1 DEF PermitStates
      <4>2. CASE process[c].phase # "unknown"
        <5>1. permit'[p] = [permit[p] EXCEPT !.state = "free", !.holder = None]
          BY <1>7, <3>3, <4>2
        <5> QED
          BY <1>6, <5>1 DEF PermitStates
      <4> QED
        BY <4>1, <4>2
    <3> QED
      BY <3>2, <3>3
  <2>4. permit' \in [Slots -> [state : PermitStates, holder : Calls \cup {None}, generation : Nat]]
    BY <1>2, <2>3
  <2> QED
    BY <1>2, <2>1, <2>2, <2>3, <2>4 DEF TypeOK
<1>9. process[c].phase = "unknown" \/ c \notin working
  BY <1>2 DEF ExecutionKnows, Results
<1>10. PermitsAccounted'
  <2>1. ASSUME NEW d \in Calls, NEW p \in Slots, permit[p].holder = d,
               d # c \/ process[c].phase = "unknown"
        PROVE  permit'[p].holder = d
    BY <1>5, <1>6, <1>7, <2>1
  <2>2. \A d \in working' : \E p \in Slots : permit'[p].holder = d
    BY <1>2, <1>9, <2>1 DEF PermitsAccounted, TypeOK
  <2>3. \A d \in Calls : call'[d].state = "running" => \E p \in Slots : permit'[p].holder = d
    BY <1>3, <1>4, <2>1 DEF PermitsAccounted
  <2>4. ASSUME NEW p \in Slots, permit'[p].state # "free"
        PROVE  /\ permit'[p].holder \in Calls
               /\ call'[permit'[p].holder] =
                     [state |-> permit'[p].state, slot |-> p, generation |-> permit'[p].generation]
    <3>1. CASE permit[p].holder # c
      BY <1>4, <1>5, <2>4, <3>1 DEF PermitsAccounted
    <3>2. CASE permit[p].holder = c
      <4>1. process[c].phase = "unknown"
        BY <1>6, <1>7, <2>4, <3>2
      <4>2. /\ permit'[p] = [permit[p] EXCEPT !.state = "uncertain"]
            /\ permit[p].state \in {"running", "uncertain"}
            /\ call[c] = [state |-> permit[p].state, slot |-> p, generation |-> permit[p].generation]
        BY <1>6, <1>7, <3>2, <4>1 DEF TypeOK, PermitsAccounted, PermitStates
      <4>3. row = [call[c] EXCEPT !.state = "uncertain"]
        BY <1>3, <4>1, <4>2
      <4> QED
        BY <1>4, <1>6, <3>2, <4>2, <4>3
    <3> QED
      BY <3>1, <3>2
  <2> QED
    BY <2>2, <2>3, <2>4 DEF PermitsAccounted
<1>11. ExecutionKnows'
  BY <1>2, <1>4 DEF ExecutionKnows
<1>12. AskedIsRecorded'
  BY <1>2, <1>3, <1>4 DEF AskedIsRecorded
<1>13. CapIsKept'
  <2>1. Occupied' \subseteq Occupied
    BY <1>5, <1>6, <1>7 DEF Occupied, TypeOK
  <2> QED
    BY <1>2, <2>1, NoMoreOccupied DEF TypeOK
<1> QED
  BY <1>8, <1>10, <1>11, <1>12, <1>13

(* The sweep marks a call and its permit alike (recoverAbandonedWork).     *)
LEMMA SweepStep ==
  ASSUME GatewayInv, NEW c \in Calls, Sweep(c)
  PROVE  GatewayInv'
<1> USE DEF GatewayInv
<1>1. /\ call[c].state = "running" /\ process[c].phase # "preparing"
      /\ call' = [call EXCEPT ![c].state = "uncertain"]
      /\ UNCHANGED <<run, active, cap, process, working, asked>>
      /\ permit' = Swept(c)
  BY DEF Sweep, Job
<1>2. /\ call'[c].state = "uncertain"
      /\ call'[c] = [call[c] EXCEPT !.state = "uncertain"]
      /\ \A d \in Calls \ {c} : call'[d] = call[d]
  BY <1>1 DEF TypeOK
<1>3. ASSUME NEW p \in Slots
      PROVE  /\ permit[p].holder # c => permit'[p] = permit[p]
             /\ permit[p].holder = c => permit'[p] = [permit[p] EXCEPT !.state = "uncertain"]
  <2>1. permit'[p] = IF permit[p].holder = c /\ permit[p].state = "running"
                     THEN [permit[p] EXCEPT !.state = "uncertain"] ELSE permit[p]
    BY <1>1 DEF Swept
  <2>2. permit[p].holder = c => permit[p].state = "running"
    BY <1>1, HeldIsNamed
  <2> QED
    BY <2>1, <2>2
<1>4. ASSUME NEW p \in Slots
      PROVE  /\ permit'[p] \in [state : PermitStates, holder : Calls \cup {None}, generation : Nat]
             /\ permit'[p].holder = permit[p].holder
             /\ permit'[p].state = "free" <=> permit[p].state = "free"
             /\ permit'[p].state = "free" <=> permit'[p].holder = None
  <2>1. /\ permit[p] \in [state : PermitStates, holder : Calls \cup {None}, generation : Nat]
        /\ permit[p].state = "free" <=> permit[p].holder = None
        /\ c # None
    BY DEF TypeOK, Calls
  <2> QED
    BY <1>3, <2>1 DEF PermitStates
<1>5. TypeOK'
  <2>1. call' \in [Calls -> [state : CallStates, slot : Slots \cup {0}, generation : Nat]]
    BY <1>1 DEF TypeOK, CallStates
  <2>2. permit' \in [Slots -> [state : PermitStates, holder : Calls \cup {None}, generation : Nat]]
    BY <1>1, <1>4 DEF Swept
  <2> QED
    BY <1>1, <1>4, <2>1, <2>2 DEF TypeOK
<1>6. PermitsAccounted'
  <2>1. \A d \in working' : \E p \in Slots : permit'[p].holder = d
    BY <1>1, <1>4 DEF PermitsAccounted
  <2>2. \A d \in Calls : call'[d].state = "running" => \E p \in Slots : permit'[p].holder = d
    <3> SUFFICES ASSUME NEW d \in Calls, call'[d].state = "running"
                 PROVE  \E p \in Slots : permit'[p].holder = d
      OBVIOUS
    <3>1. call[d].state = "running"
      BY <1>2
    <3> QED
      BY <1>4, <3>1 DEF PermitsAccounted
  <2>3. ASSUME NEW p \in Slots, permit'[p].state # "free"
        PROVE  /\ permit'[p].holder \in Calls
               /\ call'[permit'[p].holder] =
                     [state |-> permit'[p].state, slot |-> p, generation |-> permit'[p].generation]
    <3>1. /\ permit[p].holder \in Calls
          /\ call[permit[p].holder] =
                [state |-> permit[p].state, slot |-> p, generation |-> permit[p].generation]
      BY <1>4, <2>3 DEF PermitsAccounted
    <3>2. CASE permit[p].holder # c
      BY <1>2, <1>3, <3>1, <3>2
    <3>3. CASE permit[p].holder = c
      <4>1. permit'[p] = [permit[p] EXCEPT !.state = "uncertain"]
        BY <1>3, <3>3
      <4>2. /\ permit'[p].state = "uncertain" /\ permit'[p].holder = c
            /\ permit'[p].generation = permit[p].generation
        BY <3>3, <4>1 DEF TypeOK
      <4>3. call[c] = [state |-> permit[p].state, slot |-> p, generation |-> permit[p].generation]
        BY <3>1, <3>3
      <4> QED
        BY <1>2, <4>2, <4>3
    <3> QED
      BY <3>2, <3>3
  <2> QED
    BY <2>1, <2>2, <2>3 DEF PermitsAccounted
<1>7. ExecutionKnows'
  BY <1>1, <1>2 DEF ExecutionKnows
<1>8. AskedIsRecorded'
  BY <1>1, <1>2 DEF AskedIsRecorded, TypeOK
<1>9. CapIsKept'
  <2>1. Occupied' \subseteq Occupied
    BY <1>4 DEF Occupied
  <2> QED
    BY <1>1, <2>1, NoMoreOccupied DEF TypeOK
<1> QED
  BY <1>5, <1>6, <1>7, <1>8, <1>9

(* permit-resolve settles the call that holds the permit and no other.     *)
LEMMA ResolveStep ==
  ASSUME GatewayInv, NEW p \in Slots, ResolvePermit(p)
  PROVE  GatewayInv' /\ call[permit[p].holder].state = "uncertain"
<1> USE DEF GatewayInv
<1> DEFINE c == permit[p].holder
<1>1. /\ permit[p].state = "uncertain" /\ c \notin working
      /\ call' = [call EXCEPT ![c].state = "failed"]
      /\ permit' = [permit EXCEPT ![p].state = "free", ![p].holder = None]
      /\ UNCHANGED <<run, active, cap, process, working, asked>>
  BY DEF ResolvePermit, Job
<1>2. c \in Calls /\ call[c].state = "uncertain" /\ \A q \in Slots : permit[q].holder = c => q = p
  <2>1. c \in Calls
    BY <1>1 DEF PermitsAccounted
  <2> QED
    BY <1>1, <2>1, HeldIsNamed
<1>3. /\ call'[c] = [call[c] EXCEPT !.state = "failed"]
      /\ \A d \in Calls \ {c} : call'[d] = call[d]
      /\ permit'[p].state = "free" /\ permit'[p].holder = None
      /\ \A q \in Slots \ {p} : permit'[q] = permit[q]
  BY <1>1, <1>2 DEF TypeOK
<1>4. TypeOK'
  <2>1. call' \in [Calls -> [state : CallStates, slot : Slots \cup {0}, generation : Nat]]
    BY <1>1, <1>2 DEF TypeOK, CallStates
  <2>2. permit' \in [Slots -> [state : PermitStates, holder : Calls \cup {None}, generation : Nat]]
    BY <1>1 DEF TypeOK, PermitStates
  <2>3. \A q \in Slots : permit'[q].state = "free" <=> permit'[q].holder = None
    BY <1>3 DEF TypeOK
  <2> QED
    BY <1>1, <2>1, <2>2, <2>3 DEF TypeOK
<1>5. PermitsAccounted'
  <2>1. ASSUME NEW d \in Calls \ {c}, \E q \in Slots : permit[q].holder = d
        PROVE  \E q \in Slots : permit'[q].holder = d
    BY <1>3, <2>1
  <2>2. \A d \in working' : \E q \in Slots : permit'[q].holder = d
    BY <1>1, <2>1 DEF PermitsAccounted, TypeOK
  <2>3. \A d \in Calls : call'[d].state = "running" => \E q \in Slots : permit'[q].holder = d
    BY <1>2, <1>3, <2>1 DEF PermitsAccounted, TypeOK
  <2>4. ASSUME NEW q \in Slots, permit'[q].state # "free"
        PROVE  /\ permit'[q].holder \in Calls
               /\ call'[permit'[q].holder] =
                     [state |-> permit'[q].state, slot |-> q, generation |-> permit'[q].generation]
    <3>1. q # p
      BY <1>3, <2>4
    <3>2. permit'[q] = permit[q] /\ permit[q].holder \in Calls \ {c}
      BY <1>2, <1>3, <2>4, <3>1 DEF PermitsAccounted
    <3> QED
      BY <1>3, <2>4, <3>2 DEF PermitsAccounted
  <2> QED
    BY <2>2, <2>3, <2>4 DEF PermitsAccounted
<1>6. ExecutionKnows'
  BY <1>1, <1>2, <1>3 DEF ExecutionKnows
<1>7. AskedIsRecorded'
  BY <1>1, <1>2, <1>3 DEF AskedIsRecorded, TypeOK
<1>8. CapIsKept'
  <2>1. Occupied' \subseteq Occupied
    BY <1>3 DEF Occupied
  <2> QED
    BY <1>1, <2>1, NoMoreOccupied DEF TypeOK
<1> QED
  BY <1>2, <1>4, <1>5, <1>6, <1>7, <1>8

(* Jobs start and stop under a call, and ai-cap waits until few enough     *)
(* permits are taken.                                                      *)
LEMMA OutsideStep ==
  ASSUME GatewayInv,
         \/ \E j \in Jobs : NewRun(j) \/ RunStops(j)
         \/ \E n \in Caps : SetCap(n)
         \/ UNCHANGED vars
  PROVE  GatewayInv' /\ UNCHANGED <<call, permit, working>>
<1> USE DEF GatewayInv
<1>1. UNCHANGED <<call, permit, process, working, asked>>
  BY DEF NewRun, RunStops, SetCap, Job, vars
<1>2. run' \in [Jobs -> Nat] /\ active' \in [Jobs -> BOOLEAN] /\ cap' \in Caps
  <2>1. ASSUME NEW j \in Jobs, NewRun(j) \/ RunStops(j)
        PROVE  run' \in [Jobs -> Nat] /\ active' \in [Jobs -> BOOLEAN] /\ cap' \in Caps
    <3>1. CASE NewRun(j)
      BY <3>1 DEF NewRun, TypeOK
    <3>2. CASE RunStops(j)
      BY <3>2 DEF RunStops, TypeOK
    <3> QED
      BY <2>1, <3>1, <3>2
  <2>2. CASE UNCHANGED Job
    BY <2>2 DEF NewRun, RunStops, SetCap, Job, vars, TypeOK
  <2> QED
    BY <2>1, <2>2 DEF SetCap, Job, vars
<1>3. CapIsKept'
  <2>1. Occupied' = Occupied
    BY <1>1 DEF Occupied
  <2>2. CASE \E n \in Caps : SetCap(n)
    BY <2>1, <2>2 DEF SetCap, Drained, CapIsKept
  <2>3. CASE cap' = cap
    BY <2>1, <2>3 DEF CapIsKept
  <2> QED
    BY <2>2, <2>3 DEF NewRun, RunStops, vars
<1> QED
  BY <1>1, <1>2, <1>3 DEF TypeOK, PermitsAccounted, ExecutionKnows, AskedIsRecorded

-----------------------------------------------------------------------------
(* The theorems.                                                           *)

(* Rows, permits and executions agree at the start.                        *)
LEMMA InitInv == Init => GatewayInv
<1> SUFFICES ASSUME Init PROVE GatewayInv
  OBVIOUS
<1>1. TypeOK
  BY DEF Init, TypeOK, NoCall, NoProcess, CallStates, PermitStates, Phases, Calls
<1>2. PermitsAccounted /\ ExecutionKnows /\ AskedIsRecorded
  BY DEF Init, PermitsAccounted, ExecutionKnows, AskedIsRecorded, NoCall, NoProcess
<1>3. CapIsKept
  <2>1. Occupied = {}
    BY DEF Init, Occupied
  <2>2. cap \in Nat
    BY DEF Init
  <2> QED
    BY <2>1, <2>2, FS_EmptySet DEF CapIsKept
<1> QED
  BY <1>1, <1>2, <1>3 DEF GatewayInv

(* Every step of jobs, gateway, provider, maintenance and operators keeps  *)
(* the books.                                                              *)
LEMMA InvStep == GatewayInv /\ [Next]_vars => GatewayInv'
<1> SUFFICES ASSUME GatewayInv, [Next]_vars PROVE GatewayInv'
  OBVIOUS
<1>1. ASSUME NEW c \in Calls, Complete(c) \/ EndsUnheard(c) \/ Abandon(c) \/ Sweep(c)
      PROVE  GatewayInv'
  BY <1>1, CallStep, SettleStep, SweepStep DEF Complete
<1>2. ASSUME NEW c \in Calls, NEW p \in Slots, Admit(c, p) PROVE GatewayInv'
  BY <1>2, AdmitStep
<1>3. ASSUME NEW p \in Slots, ResolvePermit(p) PROVE GatewayInv'
  BY <1>3, ResolveStep
<1> QED
  BY <1>1, <1>2, <1>3, OutsideStep DEF Next

(* The inductive invariant of the gateway.                                 *)
THEOREM BooksAreKept == Spec => []GatewayInv
  BY InitInv, InvStep, PTL DEF Spec

(* Type correctness of jobs, calls, permits and executions.                *)
THEOREM TypeCorrect == Spec => []TypeOK
<1>1. GatewayInv => TypeOK
  BY DEF GatewayInv
<1> QED
  BY <1>1, BooksAreKept, PTL

(* deploy.md: a call the provider may be working on has a permit, and a    *)
(* permit that is taken names the call it is for.                          *)
THEOREM EveryCallHasAPermit == Spec => []PermitsAccounted
<1>1. GatewayInv => PermitsAccounted
  BY DEF GatewayInv
<1> QED
  BY <1>1, BooksAreKept, PTL

(* UNIQUE(job_id,step_key): no step is asked twice, unless it was refused. *)
THEOREM AskedOnce == Spec => []OneDispatch
<1>1. GatewayInv => OneDispatch
  BY DEF GatewayInv, AskedIsRecorded, OneDispatch
<1> QED
  BY <1>1, BooksAreKept, PTL

(* The provider works on no more than `cap` calls at a time: each of them  *)
(* has a permit of its own, and no more permits than that are taken.       *)
THEOREM CapHolds == Spec => []WithinCap
<1>1. GatewayInv => WithinCap
  <2> SUFFICES ASSUME GatewayInv PROVE Cardinality(working) <= cap
    BY DEF WithinCap
  <2> USE DEF GatewayInv
  <2> DEFINE f == [c \in working |-> call[c].slot]
  <2>1. ASSUME NEW c \in working
        PROVE  call[c].slot \in Occupied /\ permit[call[c].slot].holder = c
    <3>1. PICK p \in Slots : permit[p].holder = c
      BY DEF PermitsAccounted
    <3>2. c \in Calls
      BY DEF TypeOK
    <3> QED
      BY <3>1, <3>2, HeldIsNamed DEF Occupied
  <2>2. f \in Injection(working, Occupied)
    BY <2>1 DEF Injection, IsInjective
  <2>3. IsFiniteSet(Occupied)
    BY FS_Subset DEF Occupied
  <2>4. IsFiniteSet(working) /\ Cardinality(working) <= Cardinality(Occupied)
    BY <2>2, <2>3, FS_Injection
  <2>5. Cardinality(working) \in Nat /\ Cardinality(Occupied) \in Nat /\ cap \in Nat
    BY <2>3, <2>4, FS_CardinalityType DEF TypeOK
  <2> QED
    BY <2>4, <2>5 DEF CapIsKept
<1> QED
  BY <1>1, BooksAreKept, PTL

-----------------------------------------------------------------------------
(* The gateway keeps what the jobs rely on (module Calls).                 *)

(* Settling finishes the row of a call, forgets it, or finds it finished.  *)
LEMMA SettledAs ==
  ASSUME GatewayInv, NEW c \in Calls, Settle(c)
  PROVE  \/ \A d \in Calls : call'[d].state = call[d].state
         \/ \E outcome \in Table!Outcomes \cup {"none"} : Table!Finish(c, outcome)
<1>1. PICK row \in SettledRows(c) : call' = [call EXCEPT ![c] = row]
  BY DEF Settle
<1>2. call \in [Calls -> [state : CallStates, slot : Slots \cup {0}, generation : Nat]]
  BY DEF GatewayInv, TypeOK
<1>3. call'[c] = row /\ \A d \in Calls \ {c} : call'[d] = call[d]
  BY <1>1, <1>2
<1>4. CASE call[c].state # "running"
  BY <1>3, <1>4 DEF SettledRows
<1>5. CASE call[c].state = "running"
  <2>1. PICK outcome : outcome = row.state
    OBVIOUS
  <2>2. outcome \in Table!Outcomes \cup {"none"}
    BY <2>1, SettledRow DEF Settle, CallStates, Table!Outcomes
  <2>3. Table!Finish(c, outcome)
    BY <1>2, <1>3, <1>5, <2>1 DEF Table!Finish
  <2> QED
    BY <2>2, <2>3
<1> QED
  BY <1>4, <1>5

(* A step of the gateway is a step of the table, or none.                  *)
LEMMA StepRefines ==
  ASSUME GatewayInv, [Next]_vars
  PROVE  Table!Next \/ \A c \in Calls : call'[c].state = call[c].state
<1>1. /\ call \in [Calls -> [state : CallStates, slot : Slots \cup {0}, generation : Nat]]
      /\ call' \in [Calls -> [state : CallStates, slot : Slots \cup {0}, generation : Nat]]
  BY InvStep DEF GatewayInv, TypeOK
<1>2. ASSUME NEW c \in Calls, NEW p \in Slots, Admit(c, p) PROVE Table!Start(c)
  BY <1>1, <1>2 DEF Admit, Askable, Table!Start
<1>3. ASSUME NEW c \in Calls, Settle(c)
      PROVE  Table!Next \/ \A d \in Calls : call'[d].state = call[d].state
  <2>1. ASSUME NEW outcome \in Table!Outcomes \cup {"none"}, Table!Finish(c, outcome)
        PROVE  Table!Next
    BY <2>1 DEF Table!Next, Table!Forget
  <2> QED
    BY <1>3, <2>1, SettledAs
<1>4. ASSUME NEW c \in Calls, Sweep(c) PROVE Table!Next
  <2>1. Table!Finish(c, "uncertain")
    BY <1>1, <1>4 DEF Sweep, Table!Finish
  <2> QED
    BY <2>1 DEF Table!Next, Table!Outcomes
<1>5. ASSUME NEW p \in Slots, ResolvePermit(p) PROVE Table!Next
  <2>1. PICK c \in Calls : c = permit[p].holder
    BY <1>5 DEF GatewayInv, PermitsAccounted, ResolvePermit
  <2>2. call[c].state = "uncertain"
    BY <1>5, <2>1, ResolveStep
  <2>3. Table!WriteOff(c)
    BY <1>1, <1>5, <2>1, <2>2 DEF ResolvePermit, Table!WriteOff
  <2> QED
    BY <2>3 DEF Table!Next
<1>6. ASSUME NEW c \in Calls,
             \/ Unfit(c) \/ Dispatch(c) \/ ProviderAnswers(c) \/ ProviderRefuses(c)
             \/ OutcomeUnknown(c) \/ EndsUnheard(c) \/ Abandon(c)
      PROVE  UNCHANGED call
  BY <1>6 DEF Unfit, Dispatch, ProviderAnswers, ProviderRefuses, OutcomeUnknown, EndsUnheard, Abandon
<1>7. CASE UNCHANGED call
  BY <1>7
<1> QED
  BY <1>2, <1>3, <1>4, <1>5, <1>6, <1>7, OutsideStep DEF Next, Complete, Table!Next

(* A step is started once, its reply stays, a failure is final, and an     *)
(* unknown outcome is at most written off: for any number of jobs, through *)
(* crashes, sweeps and late replies.                                       *)
THEOREM Refinement == Spec => ImplementsCalls
<1>1. Init => Table!Init
  BY DEF Init, NoCall, Table!Init
<1>2. GatewayInv /\ [Next]_vars => Table!Next \/ UNCHANGED [c \in Calls |-> call[c].state]
  BY StepRefines
<1> QED
  BY <1>1, <1>2, BooksAreKept, PTL DEF Spec, ImplementsCalls, Table!Spec
=============================================================================
