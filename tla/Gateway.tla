------------------------------- MODULE Gateway ------------------------------
(***************************************************************************)
(* The gateway to the language model (modules/ai/gateway): it admits calls *)
(* of jobs under a global cap of permits, asks the provider and settles    *)
(* the call.  A request whose outcome is unknown keeps its permit until an *)
(* operator has evidence that it ended, for the provider may still be busy *)
(* with it.  The gateway dies, is slow to settle, and is swept meanwhile.  *)
(*                                                                         *)
(* A job is here only what admission asks about it: which run of it is the *)
(* current one and whether that run is running and eligible.  Requests     *)
(* that are turned down (stale, not eligible, asked before, no room, over  *)
(* the quota of the organization) change nothing and are not steps.        *)
(***************************************************************************)
EXTENDS Naturals, FiniteSets

CONSTANTS
    Jobs,        \* jobs of kind triage or learning
    Steps,       \* the step keys of a job
    None,        \* no holder
    Slots,       \* ai_permits (15)
    Caps,        \* values an operator sets with ai-cap
    MaxRuns,     \* bound: runs of a job
    MaxTaken     \* bound: how often a permit is taken

ASSUME NoneAssumption   == None \notin Jobs \X Steps
ASSUME SlotsAssumption  == Slots \subseteq Nat \ {0} /\ IsFiniteSet(Slots)
ASSUME CapsAssumption   == Caps \subseteq Nat /\ Caps # {}
ASSUME BoundsAssumption == MaxRuns \in Nat /\ MaxTaken \in Nat

VARIABLES
    run,       \* jobs.generation
    active,    \* that run is running and eligible
    call,      \* ai_calls, a row for each step that was asked
    permit,    \* ai_permits
    cap,       \* ai_settings.cap
    process,   \* the gateway's execution of a call
    working,   \* the calls the provider is working on
    asked      \* history: requests for a step that the provider did not refuse

vars == <<run, active, call, permit, cap, process, working, asked>>

-----------------------------------------------------------------------------
Calls == Jobs \X Steps

\* The gateway before the request, during it, and with a result to settle.
Results == {"answered", "unfit", "refused", "rejected", "unknown"}
Phases  == {"gone", "preparing", "calling"} \cup Results

CallStates   == {"none", "running", "completed", "failed", "uncertain"}
PermitStates == {"free", "running", "uncertain"}

NoCall    == [state |-> "none", slot |-> 0, generation |-> 0]
NoProcess == [phase |-> "gone", run |-> 0]

TypeOK ==
    /\ run \in [Jobs -> Nat]
    /\ active \in [Jobs -> BOOLEAN]
    /\ call \in [Calls -> [state : CallStates, slot : Slots \cup {0}, generation : Nat]]
    /\ permit \in [Slots -> [state : PermitStates, holder : Calls \cup {None}, generation : Nat]]
    /\ cap \in Caps
    /\ process \in [Calls -> [phase : Phases, run : Nat]]
    /\ working \in SUBSET Calls
    /\ asked \in [Calls -> Nat]
    /\ \A p \in Slots : permit[p].state = "free" <=> permit[p].holder = None

Init ==
    /\ run = [j \in Jobs |-> 0]
    /\ active = [j \in Jobs |-> FALSE]
    /\ call = [c \in Calls |-> NoCall]
    /\ permit = [p \in Slots |-> [state |-> "free", holder |-> None, generation |-> 0]]
    /\ cap \in Caps
    /\ process = [c \in Calls |-> NoProcess]
    /\ working = {}
    /\ asked = [c \in Calls |-> 0]

Job == <<run, active>>

-----------------------------------------------------------------------------
(* The jobs, as far as the gateway sees them.                              *)

\* claimJob: the generation tells the runs of a job apart.
NewRun(j) ==
    /\ ~ active[j] /\ run[j] < MaxRuns
    /\ run' = [run EXCEPT ![j] = @ + 1]
    /\ active' = [active EXCEPT ![j] = TRUE]
    /\ UNCHANGED <<call, permit, cap, process, working, asked>>

\* The run ends, is canceled or recovered, or its result is not wanted.
RunStops(j) ==
    /\ active[j]
    /\ active' = [active EXCEPT ![j] = FALSE]
    /\ UNCHANGED <<run, call, permit, cap, process, working, asked>>

-----------------------------------------------------------------------------
(* Admission (admission.ts).                                               *)

Occupied == {p \in Slots : permit[p].state # "free"}

\* takePermit looks for a free slot; the quota and locked rows only narrow it.
HasRoom(p) == Cardinality(Occupied) < cap /\ permit[p].state = "free" /\ p <= cap

\* Mutant of Askable: a call that failed is asked again.
Askable_Failed(c) == call[c].state \in {"none", "failed"}

\* replayPrevious: a step that has a row is replayed, never asked again.
Askable(c) == call[c].state = "none"

\* admitCall for the current run of the job, one transaction under its lock.
Admit(c, p) ==
    /\ active[c[1]]
    /\ Askable(c)
    /\ HasRoom(p)
    /\ permit[p].generation < MaxTaken
    /\ LET generation == permit[p].generation + 1 IN
        /\ permit' = [permit EXCEPT ![p] = [state |-> "running", holder |-> c, generation |-> generation]]
        /\ call' = [call EXCEPT ![c] = [state |-> "running", slot |-> p, generation |-> generation]]
    /\ process' = [process EXCEPT ![c] = [phase |-> "preparing", run |-> run[c[1]]]]
    /\ UNCHANGED <<Job, cap, working, asked>>

-----------------------------------------------------------------------------
(* The call (Gateway.complete).                                            *)

Enters(c, phase) == process' = [process EXCEPT ![c].phase = phase]

\* isStillRunnable or callOptions say no, or a query of theirs fails.
Unfit(c) ==
    /\ process[c].phase = "preparing"
    /\ Enters(c, "unfit")
    /\ UNCHANGED <<Job, call, permit, cap, working, asked>>

\* They say yes and the request goes out.  Nothing is read in between: a change
\* there may as well come after the request.
Dispatch(c) ==
    /\ process[c].phase = "preparing"
    /\ active[c[1]] /\ run[c[1]] = process[c].run
    /\ Enters(c, "calling")
    /\ working' = working \cup {c}
    /\ asked' = [asked EXCEPT ![c] = @ + 1]
    /\ UNCHANGED <<Job, call, permit, cap>>

\* A reply, or what cannot be used: another 4xx, cut off, not JSON.
ProviderAnswers(c) ==
    /\ process[c].phase = "calling" /\ c \in working
    /\ working' = working \ {c}
    /\ \E result \in {"answered", "rejected"} : Enters(c, result)
    /\ UNCHANGED <<Job, call, permit, cap, asked>>

\* 408, 429, 500, 502, 503: the provider did not do it.
ProviderRefuses(c) ==
    /\ process[c].phase = "calling" /\ c \in working
    /\ working' = working \ {c}
    /\ Enters(c, "refused")
    /\ asked' = [asked EXCEPT ![c] = @ - 1]
    /\ UNCHANGED <<Job, call, permit, cap>>

\* A time limit on our side, a broken connection, another 5xx.
OutcomeUnknown(c) ==
    /\ process[c].phase = "calling"
    /\ Enters(c, "unknown")
    /\ UNCHANGED <<Job, call, permit, cap, working, asked>>

\* The provider ends what nobody listens to any more.
EndsUnheard(c) ==
    /\ c \in working /\ process[c].phase # "calling"
    /\ working' = working \ {c}
    /\ UNCHANGED <<Job, call, permit, cap, process, asked>>

\* The gateway dies, or cannot write the outcome: the rows stay as they are.
Abandon(c) ==
    /\ process[c].phase # "gone"
    /\ process' = [process EXCEPT ![c] = NoProcess]
    /\ UNCHANGED <<Job, call, permit, cap, working, asked>>

-----------------------------------------------------------------------------
(* Settling (settle.ts): the row and the permit in one transaction.        *)

\* Mutant of SettledRows: the row is settled whatever it says by now.
SettledRows_Always(c) ==
    CASE process[c].phase \in {"unfit", "refused"} -> {NoCall}
      [] process[c].phase = "answered" -> {[call[c] EXCEPT !.state = "completed"]}
      [] OTHER                         -> {[call[c] EXCEPT !.state = "failed"]}

\* Only a running row.  What the provider refused, or was not asked, is
\* forgotten; a reply that settleSuccess failed to save is settled as failed.
SettledRows(c) ==
    LET row(state) == [call[c] EXCEPT !.state = state] IN
    IF call[c].state # "running" THEN {call[c]}
    ELSE CASE process[c].phase \in {"unfit", "refused"}  -> {NoCall}
           [] process[c].phase = "answered"              -> {row("completed"), row("failed")}
           [] process[c].phase = "unknown"               -> {row("uncertain")}
           [] OTHER                                      -> {row("failed")}

\* Mutant of HeldBy: the slot, whoever holds it by now.
HeldBy_Slot(p, c) == p = call[c].slot

HeldBy(p, c) ==
    p = call[c].slot /\ permit[p].holder = c /\ permit[p].generation = call[c].generation

\* Mutant of Released: the permit comes back with every outcome.
Released_Always(p, c) == [permit[p] EXCEPT !.state = "free", !.holder = None]

\* Mutant of Released: holder=NULL is forgotten.
Released_Holder(p, c) ==
    [permit[p] EXCEPT !.state = IF process[c].phase = "unknown" THEN "uncertain" ELSE "free"]

Released(p, c) ==
    IF process[c].phase = "unknown" THEN [permit[p] EXCEPT !.state = "uncertain"]
    ELSE [permit[p] EXCEPT !.state = "free", !.holder = None]

Settle(c) ==
    /\ process[c].phase \in Results
    /\ \E row \in SettledRows(c) : call' = [call EXCEPT ![c] = row]
    /\ permit' = [p \in Slots |-> IF HeldBy(p, c) THEN Released(p, c) ELSE permit[p]]
    /\ process' = [process EXCEPT ![c] = NoProcess]
    /\ UNCHANGED <<Job, cap, working, asked>>

-----------------------------------------------------------------------------
(* Maintenance and operators.                                              *)

\* Mutant of Swept: calls only.
Swept_Calls(c) == permit

Swept(c) ==
    [p \in Slots |-> IF permit[p].holder = c /\ permit[p].state = "running"
                     THEN [permit[p] EXCEPT !.state = "uncertain"] ELSE permit[p]]

\* recoverAbandonedWork: permits and calls running for 3 minutes, of a gateway
\* that is lost or late.  Between admission and request it is not that late.
Sweep(c) ==
    /\ call[c].state = "running"
    /\ process[c].phase # "preparing"
    /\ call' = [call EXCEPT ![c].state = "uncertain"]
    /\ permit' = Swept(c)
    /\ UNCHANGED <<Job, cap, process, working, asked>>

\* permit-resolve: the operator has evidence that the provider's work is over.
ResolvePermit(p) ==
    /\ permit[p].state = "uncertain"
    /\ permit[p].holder \notin working
    /\ call' = [call EXCEPT ![permit[p].holder].state = "failed"]
    /\ permit' = [permit EXCEPT ![p].state = "free", ![p].holder = None]
    /\ UNCHANGED <<Job, cap, process, working, asked>>

Drained(n) == Cardinality(Occupied) <= n

\* ai-cap
SetCap(n) ==
    /\ n # cap
    /\ Drained(n)
    /\ cap' = n
    /\ UNCHANGED <<Job, call, permit, process, working, asked>>

-----------------------------------------------------------------------------
Complete(c) ==
    \/ Unfit(c) \/ Dispatch(c) \/ ProviderAnswers(c) \/ ProviderRefuses(c)
    \/ OutcomeUnknown(c) \/ Settle(c)

Next ==
    \/ \E j \in Jobs : NewRun(j) \/ RunStops(j)
    \/ \E c \in Calls : \/ Complete(c) \/ EndsUnheard(c) \/ Abandon(c) \/ Sweep(c)
                        \/ \E p \in Slots : Admit(c, p)
    \/ \E p \in Slots : ResolvePermit(p)
    \/ \E n \in Caps : SetCap(n)

Spec == Init /\ [][Next]_vars

\* A gateway that is not killed goes on with its call, requests have time
\* limits, the provider ends what it works on, maintenance runs every minute,
\* and the alert AiPermitsUncertain makes operators resolve permits.
Fairness ==
    /\ \A c \in Calls : WF_vars(Complete(c)) /\ WF_vars(EndsUnheard(c)) /\ WF_vars(Sweep(c))
    /\ \A p \in Slots : WF_vars(ResolvePermit(p))

FairSpec == Spec /\ Fairness

-----------------------------------------------------------------------------
(* Safety.                                                                 *)

\* The provider never works on more than `cap` calls of ours, whatever happens
\* to runs, gateway and replies, and whenever an operator changes the cap.
WithinCap == Cardinality(working) <= cap

\* ai_calls, UNIQUE(job_id,step_key): a step is asked again only if the provider
\* refused it, however often its job is run, recovered or overtaken.
OneDispatch == \A c \in Calls : asked[c] <= 1

\* deploy.md: a call the provider may still be working on keeps its permit.
\* A permit that is taken belongs to a call that says the same of itself, so
\* that resolving the permit settles that call and no other.
PermitsAccounted ==
    /\ \A c \in working : \E p \in Slots : permit[p].holder = c
    /\ \A c \in Calls : call[c].state = "running" => \E p \in Slots : permit[p].holder = c
    /\ \A p \in Slots : permit[p].state # "free" =>
        /\ permit[p].holder \in Calls
        /\ call[permit[p].holder] =
               [state |-> permit[p].state, slot |-> p, generation |-> permit[p].generation]

-----------------------------------------------------------------------------
(* What the jobs rely on, and liveness.                                    *)

Table == INSTANCE Calls WITH Keys <- Calls, state <- [c \in Calls |-> call[c].state]

\* A step is started once, its reply is kept, a failure is final, an unknown
\* outcome is at most written off.
ImplementsCalls == Table!Spec

\* deploy.md: a permit that was taken is given back, by the gateway or, after an
\* unknown outcome or a lost gateway, by an operator.
PermitComesBack ==
    \A p \in Slots : (permit[p].state # "free") ~> (permit[p].state = "free")
=============================================================================
