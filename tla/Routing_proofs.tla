--------------------------- MODULE Routing_proofs ---------------------------
(***************************************************************************)
(* Proofs about Routing for any tickets, employees and teams, and however  *)
(* often the staff, the clients and the timers come in between.            *)
(***************************************************************************)
EXTENDS Routing, TLAPS

-----------------------------------------------------------------------------
(* The invariant.                                                          *)

\* A ticket in work has an employee who works on it.
Row(row) == row \in Ticket /\ (row.status = "in_progress" => row.assignee \in Employees)

Rows == ticket \in [Tickets -> Ticket] /\ \A t \in Tickets : Row(ticket[t])

\* While an employee is being blocked, what he works on was listed, or slipped to him meanwhile.  He is
\* not blocked yet: what unblocking takes out of slipped is the work of another.
WorkIsListed ==
    blocking # Idle =>
        /\ blocking.who \notin blocked
        /\ \A t \in Tickets :
             ticket[t].status = "in_progress" /\ ticket[t].assignee = blocking.who /\ t \notin slipped =>
                t \in blocking.listed

RoutingInv == Rows /\ WorkIsListed

\* Offers go to members of teams.
Members == member \in [Teams -> SUBSET Employees]

-----------------------------------------------------------------------------
(* Rows.                                                                   *)

\* What all steps but those that give a ticket to an employee do to a row.
Stays(old, new) ==
    Row(new) /\ (new.status = "in_progress" => old.status = "in_progress" /\ new.assignee = old.assignee)

(* Taking an offer back leaves everything else.                            *)
LEMMA OfferTaken ==
  ASSUME NEW row, Row(row)
  PROVE  /\ Stays(row, row) /\ Stays(row, NotOffered(row))
         /\ NotOffered(row) \in Ticket
         /\ \A f \in {"status", "assignee", "skipped", "team", "routed", "linked"} : NotOffered(row)[f] = row[f]
BY DEF Row, Stays, NotOffered, Ticket

(* Releasing a ticket takes it from the employee who works on it.          *)
LEMMA WorkReleased ==
  ASSUME NEW row, Row(row), row.status = "in_progress"
  PROVE  Stays(row, Released(row)) /\ Released(row).status = "open"
<1> DEFINE free == NotOffered(row)
<1>1. free \in Ticket /\ row.assignee \in Employees
  BY OfferTaken DEF Row
<1> DEFINE skipped == free.skipped \cup {row.assignee}
<1>2. Released(row) = [free EXCEPT !.status = "open", !.assignee = NoOne, !.skipped = skipped]
  BY DEF Released
<1>3. skipped \in SUBSET Employees
  BY <1>1 DEF Ticket
<1> HIDE DEF free, skipped
<1>4. Released(row) \in Ticket /\ Released(row).status = "open"
  BY <1>1, <1>2, <1>3 DEF Ticket
<1> QED
  BY <1>4 DEF Row, Stays

(* A ticket given to an employee.                                         *)
LEMMA Given ==
  ASSUME NEW row, Row(row), NEW e \in Employees
  PROVE  LET new == [row EXCEPT !.status = "in_progress", !.assignee = e]
         IN  Row(new) /\ new.assignee = e
BY DEF Row, Ticket

(* One change after another.                                               *)
LEMMA StaysTransitive ==
  ASSUME NEW a, NEW b, NEW c, Stays(a, b), Stays(b, c)
  PROVE  Stays(a, c)
BY DEF Stays

(* Changing one row.                                                       *)
LEMMA OneRow ==
  ASSUME Rows, NEW t \in Tickets, NEW row, Change(t, row), Stays(ticket[t], row)
  PROVE  Rows' /\ \A u \in Tickets : Stays(ticket[u], ticket'[u])
<1>1. row \in Ticket /\ ticket' = [ticket EXCEPT ![t] = row]
  BY DEF Change, Stays, Row
<1>2. ticket' \in [Tickets -> Ticket] /\ ticket'[t] = row /\ \A u \in Tickets \ {t} : ticket'[u] = ticket[u]
  BY <1>1 DEF Rows
<1>3. \A u \in Tickets : Row(ticket[u]) /\ Stays(ticket[u], ticket[u])
  BY OfferTaken DEF Rows
<1>4. \A u \in Tickets : Stays(ticket[u], ticket'[u])
  BY <1>2, <1>3
<1> QED
  BY <1>2, <1>4 DEF Rows, Stays

(* Changing many.                                                          *)
LEMMA ManyRows ==
  ASSUME Rows, NEW f, DOMAIN f = Tickets, \A t \in Tickets : Stays(ticket[t], f[t]),
         ticket' = [t \in Tickets |-> f[t]]
  PROVE  Rows' /\ \A u \in Tickets : Stays(ticket[u], ticket'[u])
<1>1. \A t \in Tickets : f[t] \in Ticket /\ ticket'[t] = f[t]
  BY DEF Stays, Row
<1>2. ticket' \in [Tickets -> Ticket]
  BY <1>1
<1> QED
  BY <1>1, <1>2 DEF Rows, Stays

(* A step that gives no ticket to anybody keeps the invariant, as long as a ticket that slipped to an *)
(* employee is remembered while he has it.                                                            *)
LEMMA NobodyGets ==
  ASSUME RoutingInv, Rows', UNCHANGED <<blocking, blocked>>,
         \A t \in Tickets : Stays(ticket[t], ticket'[t]),
         \A t \in Tickets : t \in slipped /\ ticket'[t].status = "in_progress" => t \in slipped'
  PROVE  RoutingInv'
<1>1. WorkIsListed
  BY DEF RoutingInv
<1>2. WorkIsListed'
  BY <1>1 DEF WorkIsListed, Stays
<1> QED
  BY <1>2 DEF RoutingInv

-----------------------------------------------------------------------------
(* The steps.                                                              *)

LEMMA InitInv == Init => RoutingInv /\ Members
<1> SUFFICES ASSUME Init PROVE RoutingInv /\ Members
  OBVIOUS
<1>1. Rows
  BY DEF Init, Rows, Row, Ticket
<1> QED
  BY <1>1 DEF Init, RoutingInv, WorkIsListed, Members

(* Commands: what someone gets while he is being blocked has slipped.      *)
LEMMA GetsKeeps ==
  ASSUME RoutingInv, NEW t \in Tickets, NEW e \in Employees, NEW row, Row(row), Gets(t, e, row)
  PROVE  RoutingInv' /\ blocked' = blocked
<1> DEFINE new == [row EXCEPT !.status = "in_progress", !.assignee = e]
<1>1. Rows /\ WorkIsListed
  BY DEF RoutingInv
<1>2. Row(new) /\ new.assignee = e
  BY Given
<1>3. /\ ticket' = [ticket EXCEPT ![t] = new] /\ UNCHANGED <<blocking, blocked>>
      /\ slipped' = IF e \in blocked \/ blocking.who = e THEN slipped \cup {t} ELSE slipped \ {t}
  BY DEF Gets, Change, OnlyTicket
<1> HIDE DEF new
<1>4. ticket' \in [Tickets -> Ticket] /\ ticket'[t] = new /\ \A u \in Tickets \ {t} : ticket'[u] = ticket[u]
  BY <1>1, <1>2, <1>3 DEF Rows, Row
<1>5. Rows'
  BY <1>1, <1>2, <1>4 DEF Rows
<1>6. WorkIsListed'
  <2>1. ASSUME NEW u \in Tickets, blocking # Idle, ticket'[u].status = "in_progress",
               ticket'[u].assignee = blocking.who, u \notin slipped'
        PROVE  u \in blocking.listed
    <3>1. u # t
      BY <1>2, <1>3, <1>4, <2>1
    <3>2. ticket'[u] = ticket[u] /\ u \notin slipped
      BY <1>3, <1>4, <2>1, <3>1
    <3> QED
      BY <1>1, <2>1, <3>2 DEF WorkIsListed
  <2> QED
    BY <1>1, <1>3, <2>1 DEF WorkIsListed
<1> QED
  BY <1>3, <1>5, <1>6 DEF RoutingInv

LEMMA CommandKeeps ==
  ASSUME RoutingInv, Command
  PROVE  RoutingInv' /\ blocked' = blocked
<1>1. PICK t \in Tickets, e \in Employees : Check(t, e) \/ Assign(t, e) \/ Transfer(t, e) \/ Reopen(t, e)
  BY DEF Command
<1>2. Row(ticket[t])
  BY DEF RoutingInv, Rows
<1>3. CASE Check(t, e)
  BY <1>3 DEF Check, RoutingInv, Rows, WorkIsListed
<1>4. CASE Assign(t, e)
  <2> DEFINE free == NotOffered(ticket[t])
  <2>1. Stays(ticket[t], free)
    BY <1>2, OfferTaken
  <2> HIDE DEF free
  <2>2. Row(free)
    BY <2>1 DEF Stays
  <2>3. Row([free EXCEPT !.skipped = {}])
    BY <2>2 DEF Row, Ticket
  <2>4. Gets(t, e, [free EXCEPT !.skipped = {}])
    BY <1>4 DEF Assign, free
  <2> QED
    BY <2>3, <2>4, GetsKeeps
<1>5. CASE Transfer(t, e) \/ Reopen(t, e)
  BY <1>2, <1>5, GetsKeeps DEF Transfer, Reopen
<1> QED
  BY <1>1, <1>3, <1>4, <1>5

LEMMA OnTicketKeeps ==
  ASSUME RoutingInv, OnTicket
  PROVE  RoutingInv' /\ blocked' = blocked
<1>1. PICK t \in Tickets : \/ Release(t) \/ SetTeam(t) \/ Close(t) \/ WithdrawClient(t)
                           \/ LinkIncident(t) \/ UnlinkIncident(t) \/ RouteTicket(t)
  BY DEF OnTicket
<1> DEFINE row == ticket[t]  free == NotOffered(ticket[t])
<1>2. Rows /\ Row(row)
  BY DEF RoutingInv, Rows
<1>3. Row(free) /\ Stays(row, free) /\ free.status = row.status
  BY <1>2, OfferTaken DEF Stays
<1>4. UNCHANGED <<blocking, blocked>> /\ (UNCHANGED slipped \/ StillSlipped)
  BY <1>1 DEF Release, SetTeam, Close, WithdrawClient, LinkIncident, UnlinkIncident, RouteTicket, OnlyTicket
<1>5. \E new : Change(t, new) /\ Stays(row, new)
  <2>1. CASE Release(t)
    BY <1>2, <2>1, WorkReleased DEF Release
  <2>2. CASE SetTeam(t)
    <3>1. PICK team \in (Teams \ archived) \cup {NoTeam}, release \in BOOLEAN :
            LET new == [free EXCEPT !.team = team, !.routed = TRUE, !.skipped = {}]
            IN  Change(t, IF release /\ new.status = "in_progress" THEN Released(new) ELSE new)
      BY <2>2 DEF SetTeam
    <3> HIDE DEF row, free
    <3> DEFINE new == [free EXCEPT !.team = team, !.routed = TRUE, !.skipped = {}]
    <3>2. Stays(free, new)
      BY <1>3 DEF Stays, Row, Ticket
    <3>3. Change(t, IF release /\ new.status = "in_progress" THEN Released(new) ELSE new)
      BY <3>1
    <3> HIDE DEF new
    <3>4. Row(new) /\ (new.status = "in_progress" => Stays(new, Released(new)))
      BY <3>2, WorkReleased DEF Stays
    <3>5. Stays(row, new) /\ (new.status = "in_progress" => Stays(row, Released(new)))
      BY <1>3, <3>2, <3>4, StaysTransitive
    <3> QED
      BY <3>3, <3>5
  <2>3. CASE Close(t) \/ WithdrawClient(t)
    <3>1. \E status \in {"closed", "gone"} : Change(t, [row EXCEPT !.status = status])
      BY <2>3 DEF Close, WithdrawClient
    <3> HIDE DEF row
    <3>2. \A status \in {"closed", "gone"} : Stays(row, [row EXCEPT !.status = status])
      BY <1>2 DEF Stays, Row, Ticket
    <3> QED
      BY <3>1, <3>2
  <2>4. CASE LinkIncident(t)
    <3>1. Change(t, [free EXCEPT !.linked = TRUE, !.routed = TRUE])
      BY <2>4 DEF LinkIncident
    <3> HIDE DEF row, free
    <3>2. Stays(free, [free EXCEPT !.linked = TRUE, !.routed = TRUE])
      BY <1>3 DEF Stays, Row, Ticket
    <3> QED
      BY <1>3, <3>1, <3>2, StaysTransitive
  <2>5. CASE UnlinkIncident(t)
    <3>1. PICK unlink \in BOOLEAN :
            Change(t, [row EXCEPT !.linked = FALSE, !.routed = @ /\ ~(unlink /\ row.status = "open")])
      BY <2>5 DEF UnlinkIncident
    <3> DEFINE routed == row.routed /\ ~(unlink /\ row.status = "open")
    <3>2. routed \in BOOLEAN /\ Change(t, [row EXCEPT !.linked = FALSE, !.routed = routed])
      BY <3>1
    <3> HIDE DEF routed, row
    <3>3. Stays(row, [row EXCEPT !.linked = FALSE, !.routed = routed])
      BY <1>2, <3>2 DEF Stays, Row, Ticket
    <3> QED
      BY <3>2, <3>3
  <2>6. CASE RouteTicket(t)
    <3>1. PICK team \in (Teams \ archived) \cup {row.team} :
            LET new == [row EXCEPT !.team = team, !.routed = TRUE]
            IN  Change(t, IF team # row.team THEN NotOffered(new) ELSE new)
      BY <2>6 DEF RouteTicket
    <3>2. team \in Teams \cup {NoTeam}
      BY <1>2, <3>1 DEF Row, Ticket
    <3> HIDE DEF row, free
    <3> DEFINE new == [row EXCEPT !.team = team, !.routed = TRUE]
    <3>3. Stays(row, new)
      BY <1>2, <3>2 DEF Stays, Row, Ticket
    <3>4. Change(t, IF team # row.team THEN NotOffered(new) ELSE new)
      BY <3>1
    <3> HIDE DEF new
    <3>5. Stays(new, NotOffered(new))
      BY <3>3, OfferTaken DEF Stays
    <3>6. Stays(row, NotOffered(new))
      BY <3>3, <3>5, StaysTransitive
    <3> QED
      BY <3>3, <3>4, <3>6
  <2> QED
    BY <1>1, <2>1, <2>2, <2>3, <2>4, <2>5, <2>6
<1>6. Rows' /\ \A u \in Tickets : Stays(ticket[u], ticket'[u])
  BY <1>2, <1>5, OneRow
<1>7. \A u \in Tickets : u \in slipped /\ ticket'[u].status = "in_progress" => u \in slipped'
  BY <1>4 DEF StillSlipped
<1> QED
  BY <1>4, <1>6, <1>7, NobodyGets

(* Presence, blocking, and the end of it.                                  *)
LEMMA OnPeopleKeeps ==
  ASSUME RoutingInv, OnPeople
  PROVE  RoutingInv' /\ blocked' \subseteq blocked
<1>1. PICK e \in Employees : SetPresence(e) \/ StartBlock(e) \/ Unblock(e)
  BY DEF OnPeople
<1>2. CASE SetPresence(e)
  BY <1>2 DEF SetPresence, RoutingInv, Rows, WorkIsListed
<1>3. CASE StartBlock(e)
  BY <1>3 DEF StartBlock, WorkOf, RoutingInv, Rows, WorkIsListed
<1>4. CASE Unblock(e)
  <2>1. /\ e \in blocked /\ blocked' = blocked \ {e} /\ UNCHANGED <<ticket, blocking>>
        /\ slipped' = {t \in slipped : ticket[t].assignee # e}
    BY <1>4 DEF Unblock
  <2> QED
    BY <2>1 DEF RoutingInv, Rows, WorkIsListed
<1> QED
  BY <1>1, <1>2, <1>3, <1>4

LEMMA OnTeamsKeeps ==
  ASSUME RoutingInv, OnTeams
  PROVE  RoutingInv' /\ blocked' = blocked
<1>1. PICK team \in Teams : UpdateTeam(team) \/ ArchiveTeam(team)
  BY DEF OnTeams
<1>2. CASE UpdateTeam(team)
  BY <1>2 DEF UpdateTeam, RoutingInv, Rows, WorkIsListed
<1>3. CASE ArchiveTeam(team)
  <2> DEFINE T == {t \in Tickets : ticket[t].team = team /\ ticket[t].status \in {"open", "in_progress"}}
             f == [t \in Tickets |-> IF t \in T THEN [NotOffered(ticket[t]) EXCEPT !.team = NoTeam] ELSE ticket[t]]
  <2>1. ticket' = [t \in Tickets |-> f[t]] /\ UNCHANGED <<blocking, blocked, slipped>>
    BY <1>3 DEF ArchiveTeam
  <2>2. ASSUME NEW t \in Tickets PROVE Stays(ticket[t], f[t])
    <3> DEFINE free == NotOffered(ticket[t])
    <3>1. Row(ticket[t])
      BY DEF RoutingInv, Rows
    <3>2. Row(free) /\ Stays(ticket[t], free) /\ Stays(ticket[t], ticket[t])
      BY <3>1, OfferTaken DEF Stays
    <3>3. f[t] = ticket[t] \/ f[t] = [free EXCEPT !.team = NoTeam]
      OBVIOUS
    <3> HIDE DEF free
    <3>4. Stays(free, [free EXCEPT !.team = NoTeam])
      BY <3>2 DEF Stays, Row, Ticket
    <3>5. Stays(ticket[t], [free EXCEPT !.team = NoTeam])
      BY <3>2, <3>4, StaysTransitive
    <3> QED
      BY <3>2, <3>3, <3>5
  <2>3. DOMAIN f = Tickets /\ Rows
    BY DEF RoutingInv
  <2> HIDE DEF f
  <2>4. Rows' /\ \A t \in Tickets : Stays(ticket[t], ticket'[t])
    BY <2>1, <2>2, <2>3, ManyRows
  <2> QED
    BY <2>1, <2>4, NobodyGets
<1> QED
  BY <1>1, <1>2, <1>3

(* The timers.                                                             *)
LEMMA TimersKeep ==
  ASSUME RoutingInv, Members, AutoAssign \subseteq Teams,
         ExpirePresence \/ ListOffline \/ Withdraw \/ Expire \/ ListWaiting \/ Offer
  PROVE  RoutingInv' /\ blocked' = blocked
<1>1. Rows /\ \A t \in Tickets : Row(ticket[t]) /\ Stays(ticket[t], ticket[t])
  BY OfferTaken DEF RoutingInv, Rows
<1>2. CASE ExpirePresence \/ ListWaiting
  BY <1>2 DEF ExpirePresence, ListWaiting, RoutingInv, Rows, WorkIsListed
<1>3. CASE ListOffline
  <2> DEFINE f == [t \in Tickets |-> IF ticket[t].status # "open" THEN NotOffered(ticket[t]) ELSE ticket[t]]
  <2>1. ticket' = [t \in Tickets |-> f[t]] /\ UNCHANGED <<blocking, blocked, slipped>>
    BY <1>3 DEF ListOffline
  <2>2. DOMAIN f = Tickets /\ \A t \in Tickets : Stays(ticket[t], f[t])
    BY <1>1, OfferTaken
  <2> HIDE DEF f
  <2>3. Rows' /\ \A t \in Tickets : Stays(ticket[t], ticket'[t])
    BY <1>1, <2>1, <2>2, ManyRows
  <2> QED
    BY <2>1, <2>3, NobodyGets
<1>4. CASE Withdraw
  <2>1. PICK e \in Employees : WithdrawOffers(e)
    BY <1>4 DEF Withdraw
  <2> DEFINE T == {t \in Tickets : ticket[t].offered = e}
             f == [t \in Tickets |-> IF t \in T THEN [NotOffered(ticket[t]) EXCEPT !.skipped = @ \cup {e}]
                                     ELSE ticket[t]]
  <2>2. ticket' = [t \in Tickets |-> f[t]] /\ UNCHANGED <<blocking, blocked, slipped>>
    BY <2>1 DEF WithdrawOffers
  <2>3. ASSUME NEW t \in Tickets PROVE Stays(ticket[t], f[t])
    <3> DEFINE free == NotOffered(ticket[t])  skipped == free.skipped \cup {e}
    <3>1. Row(free) /\ Stays(ticket[t], free)
      BY <1>1, OfferTaken DEF Stays
    <3>2. f[t] = ticket[t] \/ f[t] = [free EXCEPT !.skipped = skipped]
      OBVIOUS
    <3> HIDE DEF free
    <3>3. skipped \in SUBSET Employees
      BY <3>1 DEF Row, Ticket
    <3> HIDE DEF skipped
    <3>4. Stays(free, [free EXCEPT !.skipped = skipped])
      BY <3>1, <3>3 DEF Stays, Row, Ticket
    <3>5. Stays(ticket[t], [free EXCEPT !.skipped = skipped])
      BY <3>1, <3>4, StaysTransitive
    <3> QED
      BY <1>1, <3>2, <3>5
  <2>4. DOMAIN f = Tickets
    OBVIOUS
  <2> HIDE DEF f
  <2>5. Rows' /\ \A t \in Tickets : Stays(ticket[t], ticket'[t])
    BY <1>1, <2>2, <2>3, <2>4, ManyRows
  <2> QED
    BY <2>2, <2>5, NobodyGets
<1>5. CASE Expire
  <2>1. PICK t \in Tickets : ExpireOffer(t)
    BY <1>5 DEF Expire
  <2> DEFINE free == NotOffered(ticket[t])  skipped == free.skipped \cup {ticket[t].offered}
  <2>2. /\ ticket[t].offered # NoOne /\ UNCHANGED <<blocking, blocked, slipped>>
        /\ Change(t, [free EXCEPT !.skipped = skipped])
    BY <2>1 DEF ExpireOffer, OnlyTicket
  <2>3. ticket[t].offered \in Employees
    BY <1>1, <2>2 DEF Row, Ticket
  <2>4. Row(free) /\ Stays(ticket[t], free)
    BY <1>1, OfferTaken DEF Stays
  <2> HIDE DEF free
  <2>5. skipped \in SUBSET Employees
    BY <2>3, <2>4 DEF Row, Ticket
  <2> HIDE DEF skipped
  <2>6. Stays(free, [free EXCEPT !.skipped = skipped])
    BY <2>4, <2>5 DEF Stays, Row, Ticket
  <2>7. Stays(ticket[t], [free EXCEPT !.skipped = skipped])
    BY <2>4, <2>6, StaysTransitive
  <2>8. Rows' /\ \A u \in Tickets : Stays(ticket[u], ticket'[u])
    BY <1>1, <2>2, <2>7, OneRow
  <2> QED
    BY <2>2, <2>8, NobodyGets
<1>6. CASE Offer
  <2>1. PICK t \in Tickets : OfferTicket(t)
    BY <1>6 DEF Offer
  <2> DEFINE row == ticket[t]
  <2>2. UNCHANGED <<blocking, blocked, slipped>>
    BY <2>1 DEF OfferTicket
  <2>3. \/ ticket' = ticket
        \/ ticket' = [ticket EXCEPT ![t].skipped = {}]
        \/ \E e \in Employees, again \in {{}, row.skipped} :
             Change(t, [row EXCEPT !.offered = e, !.skipped = again])
    <3> DEFINE first == Free(row.team) \ row.skipped
               again == IF first = {} THEN {} ELSE row.skipped
               all   == IF first = {} THEN Free(row.team) ELSE first
    <3>1. \/ ticket' = ticket
          \/ ticket' = [ticket EXCEPT ![t].skipped = {}]
          \/ Waits(t) /\ \E e \in all : Change(t, [row EXCEPT !.offered = e, !.skipped = again])
      BY <2>1 DEF OfferTicket
    <3>2. ASSUME Waits(t) PROVE all \subseteq Employees
      <4>1. row.team \in Teams
        BY <3>2 DEF Waits
      <4> QED
        BY <4>1 DEF Free, Online, Members
    <3> HIDE DEF all
    <3> QED
      BY <3>1, <3>2
  <2>4. Row(row) /\ Stays(row, row) /\ row.skipped \in SUBSET Employees
    BY <1>1 DEF Row, Ticket
  <2>5. CASE ticket' = ticket
    BY <1>1, <2>2, <2>5, NobodyGets DEF Rows
  <2>6. CASE ticket' = [ticket EXCEPT ![t].skipped = {}]
    <3> DEFINE new == [row EXCEPT !.skipped = {}]
               f == [u \in Tickets |-> IF u = t THEN new ELSE ticket[u]]
    <3>1. Stays(row, new)
      <4> HIDE DEF row
      <4> QED
        BY <2>4 DEF Stays, Row, Ticket
    <3>2. ticket' = [u \in Tickets |-> f[u]] /\ DOMAIN f = Tickets
      BY <1>1, <2>6 DEF Rows
    <3>3. \A u \in Tickets : Stays(ticket[u], f[u])
      BY <1>1, <3>1
    <3> HIDE DEF f
    <3>4. Rows' /\ \A u \in Tickets : Stays(ticket[u], ticket'[u])
      BY <1>1, <3>2, <3>3, ManyRows
    <3> QED
      BY <2>2, <3>4, NobodyGets
  <2>7. ASSUME NEW e \in Employees, NEW again \in {{}, row.skipped},
               Change(t, [row EXCEPT !.offered = e, !.skipped = again])
        PROVE  RoutingInv'
    <3>1. again \in SUBSET Employees
      BY <2>4
    <3>2. Stays(row, [row EXCEPT !.offered = e, !.skipped = again])
      <4> HIDE DEF row
      <4> QED
        BY <2>4, <3>1 DEF Stays, Row, Ticket
    <3>3. Rows' /\ \A u \in Tickets : Stays(ticket[u], ticket'[u])
      BY <1>1, <2>7, <3>2, OneRow
    <3> QED
      BY <2>2, <3>3, NobodyGets
  <2> QED
    BY <2>2, <2>3, <2>5, <2>6, <2>7
<1> QED
  BY <1>2, <1>3, <1>4, <1>5, <1>6

(* The end of a blocking.                                                  *)
LEMMA FinishKeeps ==
  ASSUME RoutingInv, FinishBlock
  PROVE  /\ RoutingInv'
         /\ \A t \in Tickets : ticket'[t] = IF t \in blocking.listed THEN TakenFrom(blocking.who, ticket[t]) ELSE ticket[t]
<1> DEFINE f == [t \in Tickets |-> IF t \in blocking.listed THEN TakenFrom(blocking.who, ticket[t]) ELSE ticket[t]]
<1>1. ticket' = [t \in Tickets |-> f[t]] /\ blocking' = Idle
  BY DEF FinishBlock
<1>2. ASSUME NEW t \in Tickets PROVE Stays(ticket[t], f[t])
  <2>1. Row(ticket[t])
    BY DEF RoutingInv, Rows
  <2>2. /\ Stays(ticket[t], ticket[t]) /\ Stays(ticket[t], NotOffered(ticket[t]))
        /\ ticket[t].status = "in_progress" => Stays(ticket[t], Released(ticket[t]))
    BY <2>1, OfferTaken, WorkReleased
  <2> QED
    BY <2>2 DEF TakenFrom
<1>3. DOMAIN f = Tickets /\ Rows /\ \A t \in Tickets : ticket'[t] = f[t]
  BY <1>1 DEF RoutingInv
<1>4. \A t \in Tickets : ticket'[t] = IF t \in blocking.listed THEN TakenFrom(blocking.who, ticket[t]) ELSE ticket[t]
  BY <1>1
<1> HIDE DEF f
<1>5. Rows'
  BY <1>1, <1>2, <1>3, ManyRows
<1> QED
  BY <1>1, <1>4, <1>5 DEF RoutingInv, WorkIsListed

(* Every step.                                                             *)
LEMMA MembersKept ==
  ASSUME Members, [Next]_vars
  PROVE  Members'
<1>1. CASE UNCHANGED vars
  BY <1>1 DEF vars, Members
<1>2. CASE Command
  BY <1>2 DEF Command, Check, Assign, Transfer, Reopen, Gets, OnlyTicket, Members
<1>3. CASE OnTicket
  BY <1>3 DEF OnTicket, Release, SetTeam, Close, WithdrawClient, LinkIncident, UnlinkIncident, RouteTicket,
              OnlyTicket, Members
<1>4. CASE OnPeople
  BY <1>4 DEF OnPeople, SetPresence, StartBlock, Unblock, Members
<1>5. CASE OnTeams
  <2>1. PICK team \in Teams, S \in SUBSET Employees : member' = [member EXCEPT ![team] = S]
    BY <1>5 DEF OnTeams, UpdateTeam, ArchiveTeam
  <2> QED
    BY <2>1 DEF Members
<1>6. CASE ExpirePresence \/ FinishBlock \/ ListOffline \/ ListWaiting
  BY <1>6 DEF ExpirePresence, FinishBlock, ListOffline, ListWaiting, Members
<1>7. CASE Withdraw \/ Expire \/ Offer
  BY <1>7 DEF Withdraw, WithdrawOffers, Expire, ExpireOffer, Offer, OfferTicket, OnlyTicket, Members
<1> QED
  BY <1>1, <1>2, <1>3, <1>4, <1>5, <1>6, <1>7 DEF Next

LEMMA StepInv ==
  ASSUME RoutingInv, Members, AutoAssign \subseteq Teams, [Next]_vars
  PROVE  RoutingInv' /\ Members' /\ (FinishBlock \/ blocked' \subseteq blocked)
<1>1. CASE UNCHANGED vars
  BY <1>1 DEF vars, RoutingInv, Rows, WorkIsListed, Members
<1>2. Members'
  BY MembersKept
<1> QED
  BY <1>1, <1>2, CommandKeeps, OnTicketKeeps, OnPeopleKeeps, OnTeamsKeeps, TimersKeep, FinishKeeps DEF Next

(* What blocking takes.                                                    *)
LEMMA BlockTakes ==
  ASSUME RoutingInv, Members, AutoAssign \subseteq Teams, [Next]_vars,
         NEW e \in Employees, NEW t \in Tickets,
         e \in blocked' \ blocked, ticket[t].status = "in_progress", t \notin slipped
  PROVE  IF ticket[t].assignee = e THEN ticket'[t].status = "open"
         ELSE NotOffered(ticket'[t]) = NotOffered(ticket[t])
<1>1. FinishBlock
  BY StepInv
<1>2. blocking # Idle /\ e = blocking.who
  BY <1>1 DEF FinishBlock
<1> DEFINE row == ticket[t]
<1>3. Row(row) /\ ticket'[t] = IF t \in blocking.listed THEN TakenFrom(e, row) ELSE row
  BY <1>1, <1>2, FinishKeeps DEF RoutingInv, Rows
<1>4. CASE row.assignee = e
  <2>1. t \in blocking.listed
    BY <1>2, <1>4 DEF RoutingInv, WorkIsListed
  <2>2. ticket'[t] = Released(row)
    BY <1>3, <1>4, <2>1 DEF TakenFrom
  <2> QED
    BY <1>3, <1>4, <2>2, WorkReleased
<1>5. CASE row.assignee # e
  <2>1. ticket'[t] = row \/ ticket'[t] = NotOffered(row)
    BY <1>3, <1>5 DEF TakenFrom
  <2> HIDE DEF row
  <2>2. NotOffered(NotOffered(row)) = NotOffered(row)
    BY DEF NotOffered
  <2> QED
    BY <1>5, <2>1, <2>2 DEF row
<1> QED
  BY <1>4, <1>5

-----------------------------------------------------------------------------
(* Types: what the invariant above does not say.                           *)

\* An employee is being blocked, or nobody is.
Bounds ==
    /\ archived \subseteq Teams
    /\ presence \in [Employees -> {"online", "away"}] /\ blocked \subseteq Employees
    /\ checked \subseteq Tickets \X Employees
    /\ waiting \subseteq Tickets /\ offline \subseteq Employees
    /\ blocking = Idle \/ blocking.who \in Employees
    /\ blocking \in Blocking /\ slipped \subseteq Tickets
    /\ turns \in 0 .. MaxTurns

LEMMA BoundsInit == MaxTurns \in Nat /\ Init => Bounds
BY DEF Init, Bounds, Idle, Blocking

(* The bound of the turns.                                                 *)
LEMMA TurnTaken ==
  ASSUME MaxTurns \in Nat, Bounds, TakeTurn \/ UNCHANGED turns
  PROVE  turns' \in 0 .. MaxTurns
BY DEF Bounds, TakeTurn

LEMMA BoundsStep ==
  ASSUME MaxTurns \in Nat, Bounds, [Next]_vars
  PROVE  Bounds'
<1> USE DEF Outdated
<1>1. CASE UNCHANGED vars
  BY <1>1 DEF vars, Bounds
<1>2. CASE Command
  <2>1. PICK t \in Tickets, e \in Employees : Check(t, e) \/ Assign(t, e) \/ Transfer(t, e) \/ Reopen(t, e)
    BY <1>2 DEF Command
  <2>2. turns' \in 0 .. MaxTurns
    BY <2>1, TurnTaken DEF Check, Assign, Transfer, Reopen
  <2>3. CASE Check(t, e)
    BY <2>2, <2>3 DEF Check, Bounds
  <2>4. CASE Assign(t, e) \/ Transfer(t, e) \/ Reopen(t, e)
    <3>1. \E row : Gets(t, e, row)
      BY <2>4 DEF Assign, Transfer, Reopen
    <3> QED BY <2>2, <3>1 DEF Gets, Change, OnlyTicket, Bounds
  <2> QED BY <2>1, <2>3, <2>4
<1>3. CASE OnTicket
  <2>1. PICK t \in Tickets : \/ Release(t) \/ SetTeam(t) \/ Close(t) \/ WithdrawClient(t)
                             \/ LinkIncident(t) \/ UnlinkIncident(t) \/ RouteTicket(t)
    BY <1>3 DEF OnTicket
  <2>2. turns' \in 0 .. MaxTurns
    BY <2>1, TurnTaken
       DEF Release, SetTeam, Close, WithdrawClient, LinkIncident, UnlinkIncident, RouteTicket
  <2>3. OnlyTicket /\ checked' \subseteq checked /\ slipped' \subseteq slipped
    BY <2>1 DEF Release, SetTeam, Close, WithdrawClient, LinkIncident, UnlinkIncident, RouteTicket,
                Change, StillSlipped
  <2> QED BY <2>2, <2>3 DEF OnlyTicket, Bounds
<1>4. CASE OnPeople
  <2>1. PICK e \in Employees : SetPresence(e) \/ StartBlock(e) \/ Unblock(e)
    BY <1>4 DEF OnPeople
  <2>2. turns' \in 0 .. MaxTurns
    BY <2>1, TurnTaken DEF SetPresence, StartBlock, Unblock
  <2>3. CASE SetPresence(e)
    BY <2>2, <2>3 DEF SetPresence, Bounds
  <2>4. CASE StartBlock(e)
    <3>1. WorkOf(e) \subseteq Tickets
      BY DEF WorkOf
    <3>2. blocking' \in Blocking /\ blocking'.who \in Employees
      BY <2>4, <3>1 DEF StartBlock, Blocking
    <3> QED BY <2>2, <2>4, <3>2 DEF StartBlock, Bounds
  <2>5. CASE Unblock(e)
    BY <2>2, <2>5 DEF Unblock, Bounds
  <2> QED BY <2>1, <2>3, <2>4, <2>5
<1>5. CASE OnTeams
  <2>1. PICK team \in Teams : UpdateTeam(team) \/ ArchiveTeam(team)
    BY <1>5 DEF OnTeams
  <2>2. turns' \in 0 .. MaxTurns
    BY <2>1, TurnTaken DEF UpdateTeam, ArchiveTeam
  <2> QED BY <2>1, <2>2 DEF UpdateTeam, ArchiveTeam, Bounds
<1>6. CASE ExpirePresence
  BY <1>6, TurnTaken DEF ExpirePresence, Bounds
<1>7. CASE FinishBlock
  <2>1. blocking.who \in Employees /\ blocking' = Idle /\ Idle \in Blocking
    BY <1>7 DEF FinishBlock, Bounds, Idle, Blocking
  <2> QED BY <1>7, <2>1 DEF FinishBlock, StillSlipped, Bounds
<1>8. CASE ListOffline \/ ListWaiting
  BY <1>8 DEF ListOffline, ListWaiting, Bounds
<1>9. CASE Withdraw \/ Expire \/ Offer
  <2>1. UNCHANGED <<archived, presence, blocked, blocking, slipped, turns>>
        /\ checked' \subseteq checked /\ waiting' \subseteq waiting /\ offline' \subseteq offline
    BY <1>9 DEF Withdraw, WithdrawOffers, Expire, ExpireOffer, Offer, OfferTicket, Change, OnlyTicket
  <2> QED BY <2>1 DEF Bounds
<1> QED
  BY <1>1, <1>2, <1>3, <1>4, <1>5, <1>6, <1>7, <1>8, <1>9 DEF Next

LEMMA Typed == RoutingInv /\ Members /\ Bounds => TypeOK
BY DEF RoutingInv, Rows, Members, Bounds, TypeOK
=============================================================================
