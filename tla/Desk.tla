-------------------------------- MODULE Desk --------------------------------
(***************************************************************************)
(* The five modules about the work on a ticket: its clocks, its way to an  *)
(* employee, mass incidents, what the model does for it, its files.  They  *)
(* share the table of tickets in the code, but no property here is about   *)
(* two of them: each behaviour moves one part and leaves the others as     *)
(* they began.                                                             *)
(***************************************************************************)
EXTENDS Naturals, FiniteSets, Sequences

CONSTANTS
    Classes, Targets, Calendars, DayLength, SearchDays, MaxTime,    \* see Sla
    Queued, Employees, Teams, AutoAssign, SelfTake, AtWork,         \* see Routing; Queued: its Tickets
    Capacity, OfferBatch,                                           \* OfferBatch: its Batch
    Incidents, Affected, TellBatch, PerRun, MinTickets, MaxUpdates,   \* see Incidents; Affected: its Tickets
    Runs, Chunks, MaxClaims, MaxRetries,                            \* see Workflows; Runs: also of Incidents
    Processes,                                                      \* see Files
    MaxTurns        \* bound: part -> its MaxTurns

ASSUME TeamsAssumption == AutoAssign \subseteq Teams

ASSUME IncidentsAssumption ==
    IsFiniteSet(Affected) /\ TellBatch \in Nat /\ PerRun \in Nat /\ MaxUpdates \in Nat

ASSUME BoundsAssumption ==
    /\ MaxTurns \in [{"sla", "routing", "incidents", "workflows", "files"} -> Nat]
    /\ MaxClaims \in Nat /\ MaxRetries \in Nat \ {0}

VARIABLES
    part,
    calendar, now, enabled, timed, slaTurns,
    queued, member, archived, presence, blocked, checked, waiting, offline, blocking, slipped, routingTurns,
    incident, linked, updates, told, broadcast, matching, closings, incidentTurns,
    text, asked, closure, record, job, run, calls, checkpoints, late, workflowTurns,
    owner, file, object, fileJob, fileRun, fileTurns

S == INSTANCE Sla WITH ticket <- timed, turns <- slaTurns, MaxTurns <- MaxTurns["sla"]

R == INSTANCE Routing WITH ticket <- queued, turns <- routingTurns,
                           Tickets <- Queued, Batch <- OfferBatch, MaxTurns <- MaxTurns["routing"]

I == INSTANCE Incidents WITH ticket <- linked, turns <- incidentTurns,
                             Tickets <- Affected, Batch <- TellBatch, MaxTurns <- MaxTurns["incidents"]

W == INSTANCE Workflows WITH ticket <- asked, turns <- workflowTurns, MaxTurns <- MaxTurns["workflows"]

F == INSTANCE Files WITH ticket <- owner, job <- fileJob, run <- fileRun, turns <- fileTurns,
                         MaxTurns <- MaxTurns["files"]

ASSUME SlaAssumption ==
    /\ DayLength \in Nat \ {0} /\ SearchDays \in Nat /\ MaxTime \in Nat
    /\ S!DayOf(MaxTime) < SearchDays
    /\ S!ValidTargets /\ \A cal \in Calendars : S!ValidCalendar(cal) /\ S!EnoughTime(cal)

\* No turn of the conversation is called like another phase of a run.
ASSUME ChunksAssumption ==
    /\ Chunks \in Seq(STRING)
    /\ W!Extracts \cap ({"idle", "begin", "apply", "store", "end"} \cup W!TriageSteps) = {}

sla       == <<calendar, now, enabled, timed, slaTurns>>
routing   == <<queued, member, archived, presence, blocked, checked, waiting, offline, blocking, slipped, routingTurns>>
incidents == <<incident, linked, updates, told, broadcast, matching, closings, incidentTurns>>
workflows == <<text, asked, closure, record, job, run, calls, checkpoints, late, workflowTurns>>
files     == <<owner, file, object, fileJob, fileRun, fileTurns>>

vars == <<part, sla, routing, incidents, workflows, files>>

Init ==
    /\ part \in {"sla", "routing", "incidents", "workflows", "files"}
    /\ S!Init /\ R!Init /\ I!Init /\ W!Init /\ F!Init

Next ==
    \/ part = "sla"       /\ S!Next /\ UNCHANGED <<part, routing, incidents, workflows, files>>
    \/ part = "routing"   /\ R!Next /\ UNCHANGED <<part, sla, incidents, workflows, files>>
    \/ part = "incidents" /\ I!Next /\ UNCHANGED <<part, sla, routing, workflows, files>>
    \/ part = "workflows" /\ W!Next /\ UNCHANGED <<part, sla, routing, incidents, files>>
    \/ part = "files"     /\ F!Next /\ UNCHANGED <<part, sla, routing, incidents, workflows>>

Spec == Init /\ [][Next]_vars

\* The state of every part has its type.  Only the part that moves is looked at, here and below.
TypeOK ==
    /\ part = "sla"       => S!TypeOK
    /\ part = "routing"   => R!TypeOK
    /\ part = "incidents" => I!TypeOK
    /\ part = "workflows" => W!TypeOK
    /\ part = "files"     => F!TypeOK

\* See Sla: the deadline of the solution comes when the clock has run its target.
ClockIsFair == part = "sla" => S!ClockIsFair

\* See Sla: the timer looks at a ticket no later than at the next stage of a clock.
ChecksAreScheduled == part = "sla" => S!ChecksAreScheduled

\* See Sla: what is counted as breached did run over its target.
BreachIsTrue == part = "sla" => S!BreachIsTrue

\* See Routing: blocking takes exactly the work of the employee.
BlockIsExact == R!BlockIsExact

\* See Incidents: a finished resolution leaves no ticket of the incident open.
NobodyLeftBehind == I!NobodyLeftBehind

\* See Incidents: a run that is alone closes no ticket again, and none after the incident was opened again.
ClosedOnce == I!ClosedOnce

\* See Incidents: an incident that is opened again is not closing tickets any more.
ReopenedAfterClosing == I!ReopenedAfterClosing

\* See Workflows: what the model says is used only while it is about the ticket as it is.
ResultsAreCurrent == W!ResultsAreCurrent

\* See Files: as long as a ticket has its content, no file waits for a job that does not exist.
WaitingFilesMove == part = "files" => F!WaitingFilesMove
=============================================================================
