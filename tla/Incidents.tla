----------------------------- MODULE Incidents -----------------------------
(***************************************************************************)
(* Mass incidents: many tickets with one cause, one message to all their   *)
(* clients, one resolution that closes them all.                           *)
(*                                                                         *)
(* A command holds the row of the incident and then, one by one, those of  *)
(* the tickets: it is one step.  A new ticket is matched to an open        *)
(* incident by a read without a lock, and attached later.  The broadcast   *)
(* of an update is a job: it lists tickets, locks them one by one, and may *)
(* crash, fail or be put off in between.  A job that runs for long is      *)
(* recovered, its run goes on next to the new one.                         *)
(***************************************************************************)
EXTENDS Naturals, FiniteSets, Sequences

CONSTANTS
    Incidents,
    Tickets,
    Batch,          \* tickets listed at a time (50)
    PerRun,         \* tickets of one run of the job (1000)
    MinTickets,     \* that make a spike
    Runs,           \* workers, numbered; two runs of one job may overlap
    MaxUpdates,     \* bound: updates with a job
    MaxTurns        \* bound: turns, of the kinds that TakeTurn lets happen

NoIncident == "no incident"

VARIABLES
    incident,       \* Incidents -> row
    ticket,         \* Tickets -> row; each has a client of its own
    updates,        \* incident_updates with a job, oldest first
    told,           \* incident_tickets x updates: the deliveries, by their logical_key
    broadcast,      \* Runs -> what the run of a broadcast has in memory
    matching,       \* Tickets -> the incident its client's message was matched to
    closings,       \* history: Tickets -> the updates that closed the ticket, with repetitions
    turns

vars == <<incident, ticket, updates, told, broadcast, matching, closings, turns>>

Incident == [status : {"none", "suggested", "open", "resolved", "dismissed"}, learning : BOOLEAN]

\* linked: incident_tickets.  busy: a reply is on its way, or a message is not yet processed.
Ticket == [status : {"none", "open", "in_progress", "awaiting_rating", "closed"},
           linked : SUBSET Incidents, busy : BOOLEAN, granted : BOOLEAN]

\* old: half an hour has passed.  excused: history, the tickets to which something happened since the
\* update that lets them stay open.
Update == [incident : Incidents, resolving : BOOLEAN, finished : BOOLEAN,
           job : {"pending", "running", "failed", "done"}, old : BOOLEAN, excused : SUBSET Tickets]

\* update: 0 if the worker has none.  overtaken: the job was recovered under this run, so it may write to
\* the job no more (another generation).  beside: history, another run of the job was going when it began.
Run == [update : 0 .. MaxUpdates, overtaken : BOOLEAN, beside : BOOLEAN, force : BOOLEAN,
        listed : SUBSET Tickets, last : BOOLEAN, passed : SUBSET Tickets, waiting : BOOLEAN,
        done   : 0 .. PerRun + Batch]

Idle == [update |-> 0, overtaken |-> FALSE, beside |-> FALSE, force |-> FALSE, listed |-> {}, last |-> FALSE,
         passed |-> {}, waiting |-> FALSE, done |-> 0]

Keys == Tickets \X (1 .. MaxUpdates)

TypeOK ==
    /\ incident \in [Incidents -> Incident]
    /\ ticket \in [Tickets -> Ticket]
    /\ Len(updates) <= MaxUpdates /\ \A u \in DOMAIN updates : updates[u] \in Update
    /\ told \subseteq Keys
    /\ broadcast \in [Runs -> Run]
    /\ matching \in [Tickets -> Incidents \cup {NoIncident}]
    /\ closings \in [Keys -> Nat]
    /\ turns \in 0 .. MaxTurns

Init ==
    /\ incident = [i \in Incidents |-> [status |-> "none", learning |-> FALSE]]
    /\ ticket = [t \in Tickets |-> [status |-> "none", linked |-> {}, busy |-> FALSE, granted |-> TRUE]]
    /\ updates = <<>> /\ told = {} /\ broadcast = [r \in Runs |-> Idle]
    /\ matching = [t \in Tickets |-> NoIncident]
    /\ closings = [k \in Keys |-> 0]
    /\ turns = 0

Running(t) == ticket[t].status \in {"open", "in_progress"}

Open(i) == incident[i].status = "open"

-----------------------------------------------------------------------------
(* Small steps.                                                            *)

TakeTurn == turns < MaxTurns /\ turns' = turns + 1

\* Something happens to t that lets it stay open although an incident is over.
Excuse(t) == updates' = [u \in DOMAIN updates |-> [updates[u] EXCEPT !.excused = @ \cup {t}]]

\* addUpdate: a resolution has a job even if it says nothing.
AddUpdate(i, resolving) ==
    /\ Len(updates) < MaxUpdates
    /\ updates' = Append(updates,
           [incident |-> i, resolving |-> resolving, finished |-> FALSE, job |-> "pending", old |-> FALSE,
            excused |-> {t \in Tickets : ~ticket[t].granted}])

\* An update without a text, or one that is not to be sent, has no job.
MaybeTell(i) == AddUpdate(i, FALSE) \/ UNCHANGED updates

OtherIncident(t, i) == \E j \in ticket[t].linked \ {i} : Open(j)

\* linkTickets skips a ticket that is closed or belongs to another open incident.
Linked(T, i) ==
    [t \in Tickets |-> IF t \in T /\ Running(t) /\ ~OtherIncident(t, i)
                       THEN [ticket[t] EXCEPT !.linked = @ \cup {i}] ELSE ticket[t]]

SetStatus(i, status) == incident' = [incident EXCEPT ![i].status = status]

-----------------------------------------------------------------------------
(* The detector and the commands on an incident.                           *)

\* One topic: it is suggested once, and not while an incident of it is open.
Suggest(i) ==
    /\ incident[i].status = "none"
    /\ \A j \in Incidents : incident[j].status \notin {"suggested", "open"}
    /\ Cardinality({t \in Tickets : ticket[t].status # "none" /\ ticket[t].linked = {}}) >= MinTickets
    /\ SetStatus(i, "suggested")
    /\ UNCHANGED <<ticket, updates, told, matching, closings, turns, broadcast>>

Create(i) ==
    /\ incident[i].status \in {"none", "suggested"}
    /\ SetStatus(i, "open")
    /\ \E T \in SUBSET Tickets : ticket' = Linked(T, i)
    /\ MaybeTell(i) /\ TakeTurn
    /\ UNCHANGED <<told, matching, closings, broadcast>>

Dismiss(i) ==
    /\ incident[i].status = "suggested"
    /\ SetStatus(i, "dismissed")
    /\ UNCHANGED <<ticket, updates, told, matching, closings, turns, broadcast>>

Link(i) ==
    /\ Open(i)
    /\ \E T \in SUBSET Tickets : ticket' = Linked(T, i)
    /\ ticket' # ticket
    /\ TakeTurn
    /\ UNCHANGED <<incident, updates, told, matching, closings, broadcast>>

\* The incident may be over.  What becomes of the deliveries is UnlinkIncident of Delivery.
Unlink(i, t) ==
    /\ i \in ticket[t].linked
    /\ ticket' = [ticket EXCEPT ![t].linked = @ \ {i}]
    /\ TakeTurn
    /\ UNCHANGED <<incident, updates, told, matching, closings, broadcast>>

\* postMessage, changeEta
Post(i) ==
    /\ Open(i)
    /\ AddUpdate(i, FALSE) /\ TakeTurn
    /\ UNCHANGED <<incident, ticket, told, matching, closings, broadcast>>

Resolve(i) ==
    /\ Open(i)
    /\ SetStatus(i, "resolved")
    /\ AddUpdate(i, TRUE) /\ TakeTurn
    /\ UNCHANGED <<ticket, told, matching, closings, broadcast>>

PendingResolution(i) ==
    \E u \in DOMAIN updates : updates[u].incident = i /\ updates[u].resolving /\ ~updates[u].finished

\* The tickets of clients whose ticket was closed lately: any tickets here.
Reopen(i) ==
    /\ incident[i].status = "resolved" /\ ~PendingResolution(i)
    /\ SetStatus(i, "open")
    /\ MaybeTell(i) /\ TakeTurn
    /\ \E T \in SUBSET Tickets : ticket' = Linked(T, i)
    /\ UNCHANGED <<told, matching, closings, broadcast>>

-----------------------------------------------------------------------------
(* Tickets.                                                                *)

\* matchIncident reads without a lock.
Match(t) ==
    /\ ticket[t].status = "none" /\ matching[t] = NoIncident
    /\ \E i \in Incidents : Open(i) /\ matching' = [matching EXCEPT ![t] = i]
    /\ UNCHANGED <<incident, ticket, updates, told, closings, turns, broadcast>>

\* attachNewTicket does not look at the incident again.
CreateTicket(t) ==
    /\ ticket[t].status = "none"
    /\ ticket' = [ticket EXCEPT ![t].status = "open",
                                ![t].linked = IF matching[t] = NoIncident THEN {} ELSE {matching[t]}]
    /\ matching' = [matching EXCEPT ![t] = NoIncident]
    /\ IF matching[t] # NoIncident /\ ~Open(matching[t]) THEN Excuse(t) ELSE UNCHANGED updates
    /\ UNCHANGED <<incident, told, closings, turns, broadcast>>

\* A reply is queued, the client writes; later the reply is sent and the message processed.
Busy(t) ==
    /\ Running(t)
    /\ ticket' = [ticket EXCEPT ![t].busy = ~@]
    /\ IF ticket[t].busy THEN UNCHANGED turns ELSE TakeTurn
    /\ UNCHANGED <<incident, updates, told, matching, closings, broadcast>>

CloseTicket(t) ==
    /\ Running(t) /\ ~ticket[t].busy
    /\ ticket' = [ticket EXCEPT ![t].status = "closed"]
    /\ TakeTurn
    /\ UNCHANGED <<incident, updates, told, matching, closings, broadcast>>

ReopenTicket(t) ==
    /\ ticket[t].status \in {"awaiting_rating", "closed"} /\ ticket[t].granted
    /\ ticket' = [ticket EXCEPT ![t].status = "in_progress"]
    /\ Excuse(t) /\ TakeTurn
    /\ UNCHANGED <<incident, told, matching, closings, broadcast>>

\* A new edition of the policy, and its acceptance.
ChangeConsent(t) ==
    /\ Running(t)
    /\ ticket' = [ticket EXCEPT ![t].granted = ~@]
    /\ Excuse(t)
    /\ IF ticket[t].granted THEN TakeTurn ELSE UNCHANGED turns
    /\ UNCHANGED <<incident, told, matching, closings, broadcast>>

-----------------------------------------------------------------------------
(* The broadcast of an update.                                             *)

Set(u, row)  == updates' = [updates EXCEPT ![u] = row]
Hold(r, row) == broadcast' = [broadcast EXCEPT ![r] = row]

\* After half an hour a resolution does not wait for replies on their way; other updates never do.
StartJob(r, u) ==
    /\ broadcast[r] = Idle /\ \A q \in Runs : broadcast[q] = Idle => r <= q
    /\ updates[u].job = "pending"
    /\ \/ /\ updates[u].finished
          /\ Set(u, [updates[u] EXCEPT !.job = "done"])
          /\ UNCHANGED broadcast
       \/ /\ ~updates[u].finished
          /\ \E force \in {updates[u].old, updates[u].resolving} :
               /\ Set(u, [updates[u] EXCEPT !.job = "running", !.old = force])
               /\ Hold(r, [Idle EXCEPT !.update = u, !.force = force,
                                       !.beside = \E q \in Runs : broadcast[q].update = u])
    /\ UNCHANGED <<incident, ticket, told, matching, closings, turns>>

Recipients_Again(u) ==      \* variant: asks nobody whether the ticket had its message
    {t \in Tickets : updates[u].incident \in ticket[t].linked /\ Running(t)}

Recipients(u) ==
    {t \in Tickets : updates[u].incident \in ticket[t].linked /\ Running(t) /\ <<t, u>> \notin told}

\* processBatches: the next tickets, but for those that were passed over.
ListTickets(r) ==
    LET run == broadcast[r]
        all == Recipients(run.update) \ run.passed
    IN
    /\ run.update # 0 /\ run.listed = {} /\ ~run.last /\ run.done < PerRun
    /\ \E T \in SUBSET all :
         /\ Cardinality(T) = Batch \/ (T = all /\ Cardinality(all) < Batch)
         /\ Hold(r, [run EXCEPT !.listed = T, !.last = Cardinality(T) < Batch, !.done = @ + Cardinality(T)])
    /\ UNCHANGED <<incident, ticket, updates, told, matching, closings, turns>>

\* lockLinkedTicket
Gone(u, t) == ~(Running(t) /\ updates[u].incident \in ticket[t].linked /\ ticket[t].granted)

Skipped(r, t) == updates[broadcast[r].update].resolving /\ ~broadcast[r].force /\ ticket[t].busy

Passed(r, t, skipped) ==
    Hold(r, [broadcast[r] EXCEPT !.listed = @ \ {t}, !.passed = @ \cup {t}, !.waiting = @ \/ skipped])

PassOver_Forgotten(r, t) ==     \* variant: a ticket that was put off is taken for one that is gone
    /\ Passed(r, t, FALSE)
    /\ UNCHANGED <<incident, ticket, told, closings>>

PassOver(r, t) ==
    /\ Passed(r, t, ~Gone(broadcast[r].update, t))
    /\ UNCHANGED <<incident, ticket, told, closings>>

\* closeForIncident: one ticket of the incident is learned from.  Whether ratings are asked for was read
\* when the run began.
CloseForIncident(u, t) ==
    /\ \E status \in {"awaiting_rating", "closed"} : ticket' = [ticket EXCEPT ![t].status = status]
    /\ incident' = [incident EXCEPT ![updates[u].incident].learning = TRUE]
    /\ closings' = [closings EXCEPT ![<<t, u>>] = @ + 1]

\* A delivery there is already stays the only one; the ticket is closed all the same.
Tell(r, t) ==
    LET u == broadcast[r].update IN
    /\ Hold(r, [broadcast[r] EXCEPT !.listed = @ \ {t}])
    /\ told' = told \cup {<<t, u>>}
    /\ IF updates[u].resolving THEN CloseForIncident(u, t) ELSE UNCHANGED <<incident, ticket, closings>>

SendToTicket(r, t) ==
    /\ t \in broadcast[r].listed
    /\ IF Gone(broadcast[r].update, t) \/ Skipped(r, t) THEN PassOver(r, t) ELSE Tell(r, t)
    /\ UNCHANGED <<updates, matching, turns>>

\* A run is over; its job is written to if it is still its own.
Leave(r, finished, state) ==
    LET u   == broadcast[r].update
        job == IF broadcast[r].overtaken THEN updates[u].job ELSE state
    IN /\ Set(u, [updates[u] EXCEPT !.finished = @ \/ finished, !.job = job])
       /\ Hold(r, Idle)
       /\ UNCHANGED <<incident, ticket, told, matching, closings>>

\* Nobody is left in the list: finish, or try again in 5 seconds.  The worker may die after it has
\* finished the update.
EndRun(r) ==
    LET run == broadcast[r] IN
    /\ run.update # 0 /\ run.listed = {} /\ run.last
    /\ IF run.waiting THEN Leave(r, FALSE, "pending")
       ELSE \E state \in {"done", "running"} : Leave(r, TRUE, state)
    /\ UNCHANGED turns

\* A thousand tickets were looked at, more may follow.
PauseRun(r) ==
    LET run == broadcast[r] IN
    /\ run.update # 0 /\ run.listed = {} /\ ~run.last /\ run.done >= PerRun
    /\ Leave(r, FALSE, "pending") /\ UNCHANGED turns

\* An error ends the run, maybe the last one: nobody can try a failed broadcast again.
FailRun(r) ==
    /\ broadcast[r].update # 0
    /\ \E state \in {"pending", "failed"} : Leave(r, FALSE, state)
    /\ TakeTurn

Die(r) ==
    /\ broadcast[r].update # 0
    /\ Leave(r, FALSE, "running") /\ UNCHANGED turns

\* recoverAbandonedWork: the job was claimed long ago; whether anybody still works on it is not asked.
RecoverJob(u) ==
    /\ updates[u].job = "running"
    /\ Set(u, [updates[u] EXCEPT !.job = "pending"])
    /\ broadcast' = [r \in Runs |-> IF broadcast[r].update = u
                                    THEN [broadcast[r] EXCEPT !.overtaken = TRUE] ELSE broadcast[r]]
    /\ TakeTurn
    /\ UNCHANGED <<incident, ticket, told, matching, closings>>

-----------------------------------------------------------------------------

OnIncident == \E i \in Incidents :
    Suggest(i) \/ Create(i) \/ Dismiss(i) \/ Link(i) \/ Post(i) \/ Resolve(i) \/ Reopen(i)

OnTicket == \E t \in Tickets :
    \/ Match(t) \/ CreateTicket(t) \/ Busy(t) \/ CloseTicket(t) \/ ReopenTicket(t) \/ ChangeConsent(t)
    \/ \E i \in Incidents : Unlink(i, t)

Job == \E u \in DOMAIN updates : RecoverJob(u) \/ \E r \in Runs : StartJob(r, u)

Broadcast == \E r \in Runs :
    \/ ListTickets(r) \/ EndRun(r) \/ PauseRun(r) \/ FailRun(r) \/ Die(r)
    \/ \E t \in Tickets : SendToTicket(r, t)

Next == OnIncident \/ OnTicket \/ Job \/ Broadcast

Spec == Init /\ [][Next]_vars

-----------------------------------------------------------------------------
(* Properties.                                                             *)

\* When the broadcast of a resolution is finished, no ticket of the incident is left open, whatever was
\* put off, skipped or lost on the way, and whatever other run of the job is still going, unless the staff
\* reopened it, its client's consent lapsed, or it was attached late (see README).
NobodyLeftBehind ==
    [][\A u \in DOMAIN updates :
         updates[u].resolving /\ updates'[u].finished /\ ~updates[u].finished =>
            \A t \in Tickets : Running(t) /\ updates[u].incident \in ticket[t].linked => t \in updates[u].excused]_vars

Closes(r, t) == closings' # closings /\ t \in broadcast[r].listed /\ t \notin broadcast'[r].listed

\* No run overlaps with it: it was not recovered, and none was going when it began.
Alone(r) == ~broadcast[r].overtaken /\ ~broadcast[r].beside

\* A run that is alone closes a ticket only if its resolution has not closed it before, and never after
\* the incident was opened again: a ticket the staff reopened stays open, although the job begins anew
\* after a crash, or after runs that did overlap, and the ticket is still linked.
ClosedOnce ==
    [][\A r \in Runs, t \in Tickets :
         Closes(r, t) /\ Alone(r) => LET u == broadcast[r].update
                                    IN  closings[t, u] = 0 /\ ~Open(updates[u].incident)]_vars

\* An incident is opened again only when its resolution is not closing tickets any more: reopenIncident
\* refuses as long as it is ("the incident is still closing tickets", updates.ts:139-146).  The code does
\* not: a run that was overtaken goes on after another one has finished the update.
ReopenedAfterClosing ==
    [][\A r \in Runs, t \in Tickets : Closes(r, t) => ~Open(updates[broadcast[r].update].incident)]_vars
=============================================================================
