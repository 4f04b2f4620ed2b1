------------------------------ MODULE Routing ------------------------------
(***************************************************************************)
(* How tickets reach the people who work on them: teams and rules, the     *)
(* offers the timers make, taking, giving, transferring and releasing, the *)
(* presence of employees, and what happens to the work of one who is       *)
(* blocked.                                                                *)
(*                                                                         *)
(* A step is a transaction, or the part of one that ends with a read whose *)
(* result is used later without a lock: a command first checks that an     *)
(* employee is active, then locks its ticket; a timer lists tickets, then  *)
(* locks them one by one; blocking lists the work of the employee before   *)
(* it locks the tickets.                                                   *)
(***************************************************************************)
EXTENDS Naturals, FiniteSets

CONSTANTS
    Tickets,        \* numbers: a smaller one is due earlier
    Employees,
    Teams,
    AutoAssign,     \* the teams with auto_assign
    SelfTake,       \* the teams with allow_self_take
    AtWork,         \* the employees online at first
    Capacity,       \* tickets of one employee, the offered ones included
    Batch,          \* tickets a timer lists at a time (50)
    MaxTurns        \* bound: turns, of the kinds that TakeTurn lets happen

NoOne  == "no one"
NoTeam == "no team"

VARIABLES
    ticket,
    member,     \* team_members; an archived team has none and gets none
    archived,
    presence, blocked,
    checked,    \* <<t, e>>: a command on t has found e active
    waiting,    \* tickets the timer has listed for an offer
    offline,    \* employees the timer has listed, to withdraw their offers
    blocking,   \* the employee whose blocking has begun, and the work of his it listed
    slipped,    \* history: tickets someone got although he was blocked, or about to be
    turns

vars == <<ticket, member, archived, presence, blocked, checked, waiting, offline, blocking, slipped, turns>>

\* linked: to an incident that is open.  A "gone" ticket is of a client who withdrew.
Ticket == [status  : {"open", "in_progress", "closed", "gone"}, assignee : Employees \cup {NoOne},
           offered : Employees \cup {NoOne}, skipped : SUBSET Employees,
           team    : Teams \cup {NoTeam}, routed : BOOLEAN, linked : BOOLEAN]

Blocking == [who : Employees \cup {NoOne}, listed : SUBSET Tickets]

TypeOK ==
    /\ ticket \in [Tickets -> Ticket]
    /\ member \in [Teams -> SUBSET Employees] /\ archived \subseteq Teams
    /\ presence \in [Employees -> {"online", "away"}] /\ blocked \subseteq Employees
    /\ checked \subseteq Tickets \X Employees
    /\ waiting \subseteq Tickets /\ offline \subseteq Employees
    /\ blocking \in Blocking /\ slipped \subseteq Tickets
    /\ turns \in 0 .. MaxTurns

Idle == [who |-> NoOne, listed |-> {}]

Init ==
    /\ ticket = [t \in Tickets |-> [status |-> "open", assignee |-> NoOne, offered |-> NoOne, skipped |-> {},
                                    team |-> NoTeam, routed |-> FALSE, linked |-> FALSE]]
    /\ member \in [Teams -> {Employees}] /\ archived = {}
    /\ presence = [e \in Employees |-> IF e \in AtWork THEN "online" ELSE "away"] /\ blocked = {}
    /\ checked = {} /\ waiting = {} /\ offline = {} /\ blocking = Idle /\ slipped = {}
    /\ turns = 0

-----------------------------------------------------------------------------
(* A new version of a ticket makes commands on it fail that have begun.    *)

Outdated(T) == checked \ (T \X Employees)

Change(t, row) == ticket' = [ticket EXCEPT ![t] = row] /\ checked' = Outdated({t})

StillSlipped == slipped' = {t \in slipped : ticket'[t].status = "in_progress"}

NotOffered(row) == [row EXCEPT !.offered = NoOne]

\* Bound for the steps that come from outside of routing.
TakeTurn == turns < MaxTurns /\ turns' = turns + 1

OnlyTicket == UNCHANGED <<member, archived, presence, blocked, waiting, offline, blocking>>

-----------------------------------------------------------------------------
(* Presence and teams.                                                     *)

\* The employee himself, or two minutes without a sign of him.
SetPresence(e) ==
    /\ e \notin blocked
    /\ presence' = [presence EXCEPT ![e] = IF @ = "online" THEN "away" ELSE "online"]
    /\ TakeTurn
    /\ UNCHANGED <<ticket, member, archived, blocked, checked, waiting, offline, blocking, slipped>>

\* expirePresence: the blocked employees as well.
ExpirePresence ==
    /\ \E e \in blocked : presence[e] = "online"
    /\ presence' = [e \in Employees |-> IF e \in blocked THEN "away" ELSE presence[e]]
    /\ UNCHANGED <<ticket, member, archived, blocked, checked, waiting, offline, blocking, slipped, turns>>

UpdateTeam(team) ==
    /\ team \notin archived
    /\ \E S \in SUBSET (Employees \ blocked) : member' = [member EXCEPT ![team] = S]
    /\ TakeTurn
    /\ UNCHANGED <<ticket, archived, presence, blocked, checked, waiting, offline, blocking, slipped>>

ArchiveTeam(team) ==
    LET T == {t \in Tickets : ticket[t].team = team /\ ticket[t].status \in {"open", "in_progress"}} IN
    /\ team \notin archived
    /\ archived' = archived \cup {team}
    /\ member' = [member EXCEPT ![team] = {}]
    /\ ticket' = [t \in Tickets |-> IF t \in T THEN [NotOffered(ticket[t]) EXCEPT !.team = NoTeam] ELSE ticket[t]]
    /\ checked' = Outdated(T)
    /\ TakeTurn
    /\ UNCHANGED <<presence, blocked, waiting, offline, blocking, slipped>>

-----------------------------------------------------------------------------
(* Commands of the staff.                                                  *)

\* The actor before the ticket is locked, the one the ticket is given to after that: what counts is
\* that neither is locked.  One command at a time is looked at.
Check(t, e) ==
    /\ checked = {} /\ e \notin blocked
    /\ checked' = {<<t, e>>}
    /\ UNCHANGED <<ticket, member, archived, presence, blocked, waiting, offline, blocking, slipped, turns>>

\* The foreign key of assignee_id waits for a blocking that has locked the employee.
MayBeSet(t, e) == blocking.who # e \/ ticket[t].assignee = e

Gets(t, e, row) ==
    /\ <<t, e>> \in checked
    /\ MayBeSet(t, e)
    /\ Change(t, [row EXCEPT !.status = "in_progress", !.assignee = e])
    /\ slipped' = IF e \in blocked \/ blocking.who = e THEN slipped \cup {t} ELSE slipped \ {t}
    /\ OnlyTicket

MayTake(t, e) ==
    \/ ticket[t].team \in {NoTeam} \cup SelfTake
    \/ ticket[t].offered = e

\* assign: he takes it, or a supervisor gives it to him.
Assign(t, e) ==
    /\ ticket[t].status = "open"
    /\ Gets(t, e, [NotOffered(ticket[t]) EXCEPT !.skipped = {}])
    /\ \/ MayTake(t, e) /\ UNCHANGED turns
       \/ TakeTurn

Transfer(t, e) ==
    /\ ticket[t].status = "in_progress"
    /\ Gets(t, e, ticket[t])
    /\ TakeTurn

Reopen(t, e) ==
    /\ ticket[t].status = "closed"
    /\ Gets(t, e, ticket[t])
    /\ TakeTurn

Released(row) ==
    [NotOffered(row) EXCEPT !.status = "open", !.assignee = NoOne, !.skipped = @ \cup {row.assignee}]

Release(t) ==
    /\ ticket[t].status = "in_progress"
    /\ Change(t, Released(ticket[t]))
    /\ StillSlipped /\ OnlyTicket /\ TakeTurn

SetTeam(t) ==
    /\ ticket[t].status \in {"open", "in_progress"}
    /\ \E team \in (Teams \ archived) \cup {NoTeam}, release \in BOOLEAN :
         LET row == [NotOffered(ticket[t]) EXCEPT !.team = team, !.routed = TRUE, !.skipped = {}]
         IN Change(t, IF release /\ row.status = "in_progress" THEN Released(row) ELSE row)
    /\ StillSlipped /\ OnlyTicket /\ TakeTurn

\* The staff, the client's silence, or the end of an incident; the offer stays.
Close(t) ==
    /\ ticket[t].status = "in_progress" \/ (ticket[t].status = "open" /\ ticket[t].linked)
    /\ Change(t, [ticket[t] EXCEPT !.status = "closed"])
    /\ StillSlipped /\ OnlyTicket /\ TakeTurn

\* The client withdrew, or was erased.
WithdrawClient(t) ==
    /\ ticket[t].status # "gone"
    /\ Change(t, [ticket[t] EXCEPT !.status = "gone"])
    /\ StillSlipped /\ OnlyTicket /\ TakeTurn

LinkIncident(t) ==
    /\ ~ticket[t].linked /\ ticket[t].status \in {"open", "in_progress"}
    /\ Change(t, [NotOffered(ticket[t]) EXCEPT !.linked = TRUE, !.routed = TRUE])
    /\ UNCHANGED slipped /\ OnlyTicket /\ TakeTurn

\* Unlinked, or the incident is over: a ticket that was unlinked while it waits is routed again.
UnlinkIncident(t) ==
    /\ ticket[t].linked
    /\ \E unlink \in BOOLEAN :
         Change(t, [ticket[t] EXCEPT !.linked = FALSE,
                                     !.routed = @ /\ ~(unlink /\ ticket[t].status = "open")])
    /\ UNCHANGED <<slipped, turns>> /\ OnlyTicket

-----------------------------------------------------------------------------
(* Blocking an employee.  Its transaction keeps the employee locked.       *)

WorkOf(e) == {t \in Tickets : ticket[t].offered = e
                              \/ (ticket[t].assignee = e /\ ticket[t].status = "in_progress")}

StartBlock(e) ==
    /\ blocking = Idle /\ e \notin blocked
    /\ blocking' = [who |-> e, listed |-> WorkOf(e)]
    /\ TakeTurn
    /\ UNCHANGED <<ticket, member, archived, presence, blocked, checked, waiting, offline, slipped>>

TakenFrom_Unchecked(e, row) ==      \* variant: trusts the list
    IF row.status = "in_progress" THEN Released(row) ELSE NotOffered(row)

TakenFrom(e, row) ==
    CASE row.status = "in_progress" /\ row.assignee = e     -> Released(row)
      [] ~(row.status = "in_progress" /\ row.assignee = e)  -> IF row.offered = e THEN NotOffered(row) ELSE row

FinishBlock ==
    /\ blocking # Idle
    /\ blocked' = blocked \cup {blocking.who}
    /\ ticket' = [t \in Tickets |-> IF t \in blocking.listed THEN TakenFrom(blocking.who, ticket[t]) ELSE ticket[t]]
    /\ checked' = Outdated(blocking.listed)
    /\ StillSlipped
    /\ blocking' = Idle
    /\ UNCHANGED <<member, archived, presence, waiting, offline, turns>>

Unblock(e) ==
    /\ e \in blocked
    /\ blocked' = blocked \ {e}
    /\ slipped' = {t \in slipped : ticket[t].assignee # e}
    /\ TakeTurn
    /\ UNCHANGED <<ticket, member, archived, presence, checked, waiting, offline, blocking>>

-----------------------------------------------------------------------------
(* The timers.                                                             *)

\* A rule names a team, or none and the ticket keeps the one it has.
RouteTicket(t) ==
    /\ \/ ~ticket[t].routed /\ UNCHANGED turns
       \/ TakeTurn      \* classification: the rules are applied again
    /\ \E team \in (Teams \ archived) \cup {ticket[t].team} :
         LET row == [ticket[t] EXCEPT !.team = team, !.routed = TRUE]
         IN Change(t, IF team # ticket[t].team THEN NotOffered(row) ELSE row)
    /\ UNCHANGED slipped /\ OnlyTicket

ListOffline ==
    /\ offline = {}
    /\ offline' = {e \in Employees : (presence[e] # "online" \/ e \in blocked)
                                     /\ \E t \in Tickets : ticket[t].offered = e}
    /\ ticket' = [t \in Tickets |-> IF ticket[t].status # "open" THEN NotOffered(ticket[t]) ELSE ticket[t]]
    /\ <<offline, ticket>> # <<offline', ticket'>>
    /\ UNCHANGED <<member, archived, presence, blocked, checked, waiting, blocking, slipped, turns>>

WithdrawOffers(e) ==
    LET T == {t \in Tickets : ticket[t].offered = e} IN
    /\ e \in offline
    /\ offline' = offline \ {e}
    /\ ticket' = [t \in Tickets |-> IF t \in T THEN [NotOffered(ticket[t]) EXCEPT !.skipped = @ \cup {e}] ELSE ticket[t]]
    /\ checked' = Outdated(T)
    /\ UNCHANGED <<member, archived, presence, blocked, waiting, blocking, slipped, turns>>

ExpireOffer(t) ==
    /\ ticket[t].offered # NoOne
    /\ Change(t, [NotOffered(ticket[t]) EXCEPT !.skipped = @ \cup {ticket[t].offered}])
    /\ UNCHANGED <<slipped, turns>> /\ OnlyTicket

Waits(t) ==
    /\ ticket[t].status = "open" /\ ticket[t].assignee = NoOne /\ ticket[t].offered = NoOne
    /\ ticket[t].team \in AutoAssign \ archived

Online(team) == {e \in member[team] : presence[e] = "online" /\ e \notin blocked}

Load(e) == Cardinality({t \in Tickets : ticket[t].status = "in_progress" /\ ticket[t].assignee = e})
           + Cardinality({t \in Tickets : ticket[t].offered = e})

Free(team) == {e \in Online(team) : Load(e) < Capacity}

ListWaiting ==
    LET due == {t \in Tickets : Waits(t) /\ ~ticket[t].linked /\ Online(ticket[t].team) # {}} IN
    /\ waiting = {} /\ due # {}
    /\ waiting' = {t \in due : Cardinality({u \in due : u < t}) < Batch}
    /\ UNCHANGED <<ticket, member, archived, presence, blocked, checked, offline, blocking, slipped, turns>>

\* Those who let the offer pass are asked again once there is nobody else.  The order of the strategies
\* is any order here.
OfferTicket(t) ==
    LET row   == ticket[t]
        first == Free(row.team) \ row.skipped
        again == IF first = {} THEN {} ELSE row.skipped
        all   == IF first = {} THEN Free(row.team) ELSE first
    IN
    /\ t \in waiting
    /\ waiting' = waiting \ {t}
    /\ IF ~Waits(t) \/ (all = {} /\ row.skipped = {})
       THEN UNCHANGED <<ticket, checked>>
       ELSE IF all = {} THEN ticket' = [ticket EXCEPT ![t].skipped = {}] /\ UNCHANGED checked
            ELSE \E e \in all : Change(t, [row EXCEPT !.offered = e, !.skipped = again])
    /\ UNCHANGED <<member, archived, presence, blocked, offline, blocking, slipped, turns>>

-----------------------------------------------------------------------------

Command  == \E t \in Tickets, e \in Employees : Check(t, e) \/ Assign(t, e) \/ Transfer(t, e) \/ Reopen(t, e)
OnTicket == \E t \in Tickets : Release(t) \/ SetTeam(t) \/ Close(t) \/ WithdrawClient(t)
                               \/ LinkIncident(t) \/ UnlinkIncident(t) \/ RouteTicket(t)
OnPeople == \E e \in Employees : SetPresence(e) \/ StartBlock(e) \/ Unblock(e)
OnTeams  == \E team \in Teams : UpdateTeam(team) \/ ArchiveTeam(team)
Offer    == \E t \in Tickets : OfferTicket(t)
Expire   == \E t \in Tickets : ExpireOffer(t)
Withdraw == \E e \in Employees : WithdrawOffers(e)

Next ==
    \/ Command
    \/ OnTicket
    \/ OnPeople
    \/ OnTeams
    \/ ExpirePresence
    \/ FinishBlock
    \/ ListOffline
    \/ Withdraw
    \/ Expire
    \/ ListWaiting
    \/ Offer

Spec == Init /\ [][Next]_vars

-----------------------------------------------------------------------------
(* Properties.                                                             *)

\* Blocking takes every ticket from the employee that he works on, although it lists them before it locks
\* them, and takes no ticket from anybody else: of one that was transferred meanwhile, or offered to him
\* before it was closed and reopened by another, at most his offer goes.
\* (Tickets that slip in through a command that had found him active are in slipped, see README.)
BlockIsExact ==
    [][\A e \in Employees, t \in Tickets :
         e \in blocked' \ blocked /\ ticket[t].status = "in_progress" /\ t \notin slipped =>
            IF ticket[t].assignee = e THEN ticket'[t].status = "open"
            ELSE NotOffered(ticket'[t]) = NotOffered(ticket[t])]_vars
=============================================================================
