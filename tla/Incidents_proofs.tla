-------------------------- MODULE Incidents_proofs --------------------------
(***************************************************************************)
(* Proofs about Incidents for any incidents and tickets, any number of     *)
(* updates and runs and any size of the lists a broadcast works through.   *)
(***************************************************************************)
EXTENDS Incidents, SequenceTheorems, FiniteSetTheorems, TLAPS

Sizes == IsFiniteSet(Tickets) /\ Batch \in Nat /\ MaxUpdates \in Nat

-----------------------------------------------------------------------------
(* The invariant.                                                          *)

\* A run, but for the bound of what it looks at.
AnyRun == [update : 0 .. MaxUpdates, overtaken : BOOLEAN, beside : BOOLEAN, force : BOOLEAN,
           listed : SUBSET Tickets, last : BOOLEAN, passed : SUBSET Tickets, waiting : BOOLEAN, done : Nat]

Shape ==
    /\ incident \in [Incidents -> Incident]
    /\ ticket \in [Tickets -> Ticket]
    /\ updates \in Seq(Update) /\ Len(updates) <= MaxUpdates
    /\ broadcast \in [Runs -> AnyRun]
    /\ matching \in [Tickets -> Incidents \cup {NoIncident}]
    /\ closings \in [Keys -> Nat]

\* What closed a ticket has told its client; only an update tells anybody, and not before there is a ticket.
ClosedIsTold ==
    /\ \A k \in Keys : closings[k] > 0 => k \in told
    /\ \A t \in Tickets, u \in Nat : <<t, u>> \in told => u \in DOMAIN updates /\ ticket[t].status # "none"

\* A run is about an update there is; a worker without one has no list.
Working ==
    \A r \in Runs : IF broadcast[r].update = 0 THEN broadcast[r].listed = {}
                     ELSE broadcast[r].update \in DOMAIN updates

Member(t, u) == Running(t) /\ updates[u].incident \in ticket[t].linked

\* The incident of a resolution that is not finished is not opened again; who was told is closed unless
\* something lets him stay open, as does a consent that lapsed.
Resolution(u) ==
    updates[u].resolving =>
      /\ ~updates[u].finished => incident[updates[u].incident].status = "resolved"
      /\ \A t \in Tickets \ updates[u].excused : ticket[t].granted /\ (<<t, u>> \in told => ~Running(t))

\* What a run knows of the members it has behind it, as long as the resolution is not finished: one it
\* passed over has to wait, and after the last list the others are in it.
Behind(r, u) ==
    updates[u].resolving /\ ~updates[u].finished =>
      \A t \in Tickets \ updates[u].excused : Member(t, u) =>
         /\ t \in broadcast[r].passed => broadcast[r].waiting
         /\ broadcast[r].last => t \in broadcast[r].listed \/ broadcast[r].waiting

\* Of two runs of one job the earlier was overtaken, and the later began beside it.  So nobody else tells
\* the tickets in the list of a run that is alone, or finishes its update.
Owned(r, u) ==
    /\ ~broadcast[r].overtaken => updates[u].job = "running"
    /\ \A q \in Runs \ {r} : broadcast[q].update = u =>
         broadcast[r].overtaken \/ (broadcast[q].overtaken /\ broadcast[r].beside)
    /\ Alone(r) => ~updates[u].finished /\ \A t \in broadcast[r].listed : <<t, u>> \notin told

Fit(u) == \A r \in Runs : broadcast[r].update = u => Behind(r, u) /\ Owned(r, u)

IncidentsInv ==
    /\ Shape
    /\ ClosedIsTold
    /\ Working
    /\ \A u \in DOMAIN updates : Resolution(u) /\ Fit(u)

-----------------------------------------------------------------------------
(* Sequences of updates.                                                   *)

LEMMA UpdatesTyped ==
  ASSUME updates \in Seq(Update)
  PROVE  /\ Len(updates) \in Nat /\ DOMAIN updates = 1 .. Len(updates)
         /\ \A u \in DOMAIN updates : updates[u] \in Update
BY LenProperties, ElementOfSeq

(* The rows of the updates change, but for what an update is.              *)
LEMMA UpdatesChanged ==
  ASSUME updates \in Seq(Update), NEW f \in [DOMAIN updates -> Update]
  PROVE  f \in Seq(Update) /\ Len(f) = Len(updates) /\ DOMAIN f = DOMAIN updates
<1>1. f \in [1 .. Len(updates) -> Update] /\ Len(updates) \in Nat
  BY UpdatesTyped
<1>2. f \in Seq(Update)
  BY <1>1, SeqDef
<1> QED
  BY <1>1, <1>2, LenProperties

LEMMA SetTyped ==
  ASSUME updates \in Seq(Update), NEW u \in DOMAIN updates, NEW row \in Update, Set(u, row)
  PROVE  /\ updates' \in Seq(Update) /\ Len(updates') = Len(updates) /\ DOMAIN updates' = DOMAIN updates
         /\ updates'[u] = row /\ \A v \in DOMAIN updates \ {u} : updates'[v] = updates[v]
<1>1. updates \in [DOMAIN updates -> Update]
  BY UpdatesTyped, LenProperties
<1>2. updates' \in [DOMAIN updates -> Update] /\ updates' = [updates EXCEPT ![u] = row]
  BY <1>1 DEF Set
<1> QED
  BY <1>1, <1>2, UpdatesChanged

LEMMA ExcuseTyped ==
  ASSUME updates \in Seq(Update), NEW t \in Tickets, Excuse(t)
  PROVE  /\ updates' \in Seq(Update) /\ Len(updates') = Len(updates) /\ DOMAIN updates' = DOMAIN updates
         /\ \A u \in DOMAIN updates : updates'[u] = [updates[u] EXCEPT !.excused = updates[u].excused \cup {t}]
<1>1. updates' = [u \in DOMAIN updates |-> [updates[u] EXCEPT !.excused = updates[u].excused \cup {t}]]
  BY DEF Excuse
<1>2. ASSUME NEW u \in DOMAIN updates
      PROVE  [updates[u] EXCEPT !.excused = updates[u].excused \cup {t}] \in Update
  <2> DEFINE row == updates[u]  excused == row.excused \cup {t}
  <2>1. row \in Update
    BY UpdatesTyped
  <2>2. excused \in SUBSET Tickets
    BY <2>1 DEF Update
  <2> HIDE DEF row, excused
  <2>3. [row EXCEPT !.excused = excused] \in Update
    BY <2>1, <2>2 DEF Update
  <2> QED
    BY <2>3 DEF row, excused
<1>3. updates' \in [DOMAIN updates -> Update]
  BY <1>1, <1>2
<1> QED
  BY <1>1, <1>3, UpdatesChanged

(* What an update is does not change; whom it lets stay open is only added to. *)
Same(u) ==
    /\ \A f \in {"incident", "resolving", "finished", "job"} :
         updates'[u][f] = updates[u][f]
    /\ updates[u].excused \subseteq updates'[u].excused

LEMMA ExcuseSame ==
  ASSUME updates \in Seq(Update), NEW t \in Tickets, Excuse(t), NEW u \in DOMAIN updates
  PROVE  Same(u) /\ t \in updates'[u].excused
<1> DEFINE row == updates[u]  excused == row.excused \cup {t}
<1>1. row \in Update /\ updates'[u] = [row EXCEPT !.excused = excused]
  BY UpdatesTyped, ExcuseTyped
<1>2. t \in excused /\ row.excused \subseteq excused
  OBVIOUS
<1> HIDE DEF excused
<1> QED
  BY <1>1, <1>2 DEF Same, Update

\* What AddUpdate adds.
New(i, resolving) ==
    [incident |-> i, resolving |-> resolving, finished |-> FALSE, job |-> "pending", old |-> FALSE,
     excused |-> {t \in Tickets : ~ticket[t].granted}]

LEMMA AddTyped ==
  ASSUME updates \in Seq(Update), MaxUpdates \in Nat, NEW i \in Incidents, NEW resolving \in BOOLEAN,
         AddUpdate(i, resolving)
  PROVE  /\ updates' \in Seq(Update) /\ Len(updates') <= MaxUpdates
         /\ DOMAIN updates' = DOMAIN updates \cup {Len(updates) + 1}
         /\ Len(updates) + 1 \notin DOMAIN updates
         /\ updates'[Len(updates) + 1] = New(i, resolving)
         /\ \A u \in DOMAIN updates : updates'[u] = updates[u]
<1>1. updates' = Append(updates, New(i, resolving)) /\ Len(updates) < MaxUpdates
  BY DEF AddUpdate, New
<1>2. New(i, resolving) \in Update
  BY DEF New, Update
<1> QED
  BY <1>1, <1>2, UpdatesTyped, AppendProperties, LenProperties

LEMMA HoldTyped ==
  ASSUME broadcast \in [Runs -> AnyRun], NEW r \in Runs, NEW row \in AnyRun, Hold(r, row)
  PROVE  /\ broadcast' \in [Runs -> AnyRun] /\ broadcast'[r] = row
         /\ \A q \in Runs \ {r} : broadcast'[q] = broadcast[q]
BY DEF Hold

LEMMA IdleTyped == MaxUpdates \in Nat => Idle \in AnyRun /\ Idle.update = 0 /\ Idle.listed = {}
BY DEF Idle, AnyRun

-----------------------------------------------------------------------------
(* What a step leaves of the invariant.                                    *)

(* An update that is only waited for, and whose runs do nothing.           *)
LEMMA OldUpdate ==
  ASSUME NEW u \in DOMAIN updates, broadcast \in [Runs -> AnyRun], Resolution(u), Fit(u), Same(u),
         \A r \in Runs : broadcast'[r].update = u => broadcast'[r] = broadcast[r],
         \A t \in Tickets : <<t, u>> \in told' <=> <<t, u>> \in told,
         updates[u].resolving /\ ~updates[u].finished => incident'[updates[u].incident].status = "resolved",
         updates[u].resolving =>
            \A t \in Tickets \ updates'[u].excused :
               /\ ticket[t].granted => ticket'[t].granted
               /\ Running(t)' => Running(t) \/ <<t, u>> \notin told
               /\ ~updates[u].finished /\ Member(t, u)' => Member(t, u)
  PROVE  Resolution(u)' /\ Fit(u)'
<1>1. Resolution(u)'
  BY DEF Resolution, Same
<1>2. ASSUME NEW r \in Runs, broadcast'[r].update = u PROVE Behind(r, u)'
  <2> SUFFICES ASSUME updates'[u].resolving, ~updates'[u].finished,
                      NEW t \in Tickets \ updates'[u].excused, Member(t, u)'
               PROVE  /\ t \in broadcast'[r].passed => broadcast'[r].waiting
                      /\ broadcast'[r].last => t \in broadcast'[r].listed \/ broadcast'[r].waiting
    BY DEF Behind
  <2>1. updates[u].resolving /\ ~updates[u].finished /\ t \notin updates[u].excused
    BY DEF Same
  <2>2. Member(t, u)
    BY <2>1
  <2>3. broadcast'[r] = broadcast[r] /\ Behind(r, u)
    BY <1>2 DEF Fit
  <2> QED
    BY <2>1, <2>2, <2>3 DEF Behind
<1>3. ASSUME NEW r \in Runs, broadcast'[r].update = u PROVE Owned(r, u)'
  <2>1. updates'[u].job = updates[u].job /\ updates'[u].finished = updates[u].finished
    BY DEF Same
  <2>2. broadcast'[r] = broadcast[r] /\ Owned(r, u) /\ (Alone(r)' <=> Alone(r))
    BY <1>3 DEF Alone, Fit
  <2>3. broadcast[r].listed \subseteq Tickets
    BY DEF AnyRun
  <2>4. ~broadcast'[r].overtaken => updates'[u].job = "running"
    BY <2>1, <2>2 DEF Owned
  <2>5. ASSUME NEW q \in Runs \ {r}, broadcast'[q].update = u
        PROVE  broadcast'[r].overtaken \/ (broadcast'[q].overtaken /\ broadcast'[r].beside)
    BY <2>2, <2>5 DEF Owned
  <2>6. ASSUME Alone(r)' PROVE ~updates'[u].finished /\ \A t \in broadcast'[r].listed : <<t, u>> \notin told'
    BY <2>1, <2>2, <2>3, <2>6 DEF Owned
  <2> QED
    BY <2>4, <2>5, <2>6 DEF Owned
<1> QED
  BY <1>1, <1>2, <1>3 DEF Fit

(* An update that is added: nobody works on it yet.                        *)
LEMMA NewUpdate ==
  ASSUME Shape, ClosedIsTold, Working, MaxUpdates \in Nat, NEW i \in Incidents, NEW resolving \in BOOLEAN,
         NEW n \in Nat, n = Len(updates) + 1, AddUpdate(i, resolving), UNCHANGED <<told, broadcast>>,
         \A t \in Tickets : ticket'[t].granted = ticket[t].granted,
         resolving => incident'[i].status = "resolved"
  PROVE  Resolution(n)' /\ Fit(n)'
<1>1. n \notin DOMAIN updates /\ updates'[n] = New(i, resolving) /\ n # 0
  BY AddTyped, UpdatesTyped DEF Shape
<1>2. \A t \in Tickets : <<t, n>> \notin told
  BY <1>1 DEF ClosedIsTold
<1>3. /\ updates'[n].incident = i /\ updates'[n].resolving = resolving /\ ~updates'[n].finished
      /\ \A t \in Tickets : t \in updates'[n].excused <=> ~ticket[t].granted
  BY <1>1 DEF New
<1>4. Resolution(n)'
  BY <1>2, <1>3 DEF Resolution
<1>5. \A r \in Runs : broadcast'[r].update # n
  BY <1>1 DEF Working
<1> QED
  BY <1>4, <1>5 DEF Fit

(* A step that tells nobody.                                               *)
LEMMA Quiet ==
  ASSUME IncidentsInv, Shape', UNCHANGED <<told, closings>>, Working',
         DOMAIN updates \subseteq DOMAIN updates',
         \A t \in Tickets : ticket'[t].status = "none" => ticket[t].status = "none",
         \A u \in DOMAIN updates' : Resolution(u)' /\ Fit(u)'
  PROVE  IncidentsInv'
<1>1. ClosedIsTold'
  BY DEF IncidentsInv, ClosedIsTold, Keys
<1> QED
  BY <1>1 DEF IncidentsInv

LEMMA StillWorking ==
  ASSUME Working, broadcast' = broadcast, DOMAIN updates \subseteq DOMAIN updates'
  PROVE  Working'
BY DEF Working

(* A command on an incident: no resolution of it is on its way.            *)
LEMMA CommandKeeps ==
  ASSUME IncidentsInv, MaxUpdates \in Nat, NEW i \in Incidents, UNCHANGED <<told, matching, closings, broadcast>>,
         incident' \in [Incidents -> Incident], \A j \in Incidents \ {i} : incident'[j] = incident[j],
         ticket' \in [Tickets -> Ticket],
         \A t \in Tickets : /\ ticket'[t].status = ticket[t].status /\ ticket'[t].granted = ticket[t].granted
                            /\ ticket'[t].linked \subseteq ticket[t].linked \cup {i},
         \A u \in DOMAIN updates : updates[u].resolving /\ ~updates[u].finished => updates[u].incident # i,
         \/ updates' = updates
         \/ \E resolving \in BOOLEAN : AddUpdate(i, resolving) /\ (resolving => incident'[i].status = "resolved")
  PROVE  IncidentsInv'
<1>1. Shape /\ ClosedIsTold /\ Working /\ \A u \in DOMAIN updates : updates[u] \in Update /\ Resolution(u) /\ Fit(u)
  BY UpdatesTyped DEF IncidentsInv, Shape
<1>2. ASSUME NEW u \in DOMAIN updates, updates'[u] = updates[u] PROVE Resolution(u)' /\ Fit(u)'
  <2>1. Same(u)
    BY <1>2 DEF Same
  <2>2. updates[u].resolving /\ ~updates[u].finished => incident'[updates[u].incident].status = "resolved"
    <3>1. updates[u].incident \in Incidents
      BY <1>1 DEF Update
    <3> QED
      BY <1>1, <3>1 DEF Resolution
  <2>3. ASSUME NEW t \in Tickets, updates[u].resolving
        PROVE  /\ ticket[t].granted => ticket'[t].granted
               /\ Running(t)' => Running(t)
               /\ ~updates[u].finished /\ Member(t, u)' => Member(t, u)
    BY <1>2, <2>3 DEF Running, Member
  <2> QED
    BY <1>1, <2>1, <2>2, <2>3, OldUpdate DEF Shape
<1>3. CASE updates' = updates
  <2>1. Shape'
    BY <1>1, <1>3 DEF Shape
  <2> QED
    BY <1>1, <1>2, <1>3, <2>1, Quiet, StillWorking
<1>4. ASSUME NEW resolving \in BOOLEAN, AddUpdate(i, resolving), resolving => incident'[i].status = "resolved"
      PROVE  IncidentsInv'
  <2> PICK n \in Nat : n = Len(updates) + 1
    BY <1>1, UpdatesTyped DEF Shape
  <2>1. /\ updates' \in Seq(Update) /\ Len(updates') <= MaxUpdates
        /\ DOMAIN updates' = DOMAIN updates \cup {n}
        /\ \A u \in DOMAIN updates : updates'[u] = updates[u]
    BY <1>1, <1>4, AddTyped DEF Shape
  <2>2. Shape'
    BY <1>1, <2>1 DEF Shape
  <2>3. Resolution(n)' /\ Fit(n)'
    BY <1>1, <1>4, NewUpdate
  <2>4. \A u \in DOMAIN updates' : Resolution(u)' /\ Fit(u)'
    BY <1>2, <2>1, <2>3
  <2> QED
    BY <1>1, <2>1, <2>2, <2>4, Quiet, StillWorking
<1> QED
  BY <1>3, <1>4

(* A step on one ticket lets it stay open, or does not bring it back.      *)
LEMMA TicketKeeps ==
  ASSUME IncidentsInv, NEW t \in Tickets, UNCHANGED <<incident, told, closings, broadcast>>,
         matching' \in [Tickets -> Incidents \cup {NoIncident}],
         ticket' \in [Tickets -> Ticket], \A v \in Tickets \ {t} : ticket'[v] = ticket[v],
         ticket'[t].status = "none" => ticket[t].status = "none",
         \/ Excuse(t)
         \/ /\ updates' = updates
            /\ ticket[t].granted => ticket'[t].granted
            /\ \A u \in DOMAIN updates : updates[u].resolving =>
                 /\ Running(t)' => Running(t) \/ <<t, u>> \notin told
                 /\ ~updates[u].finished /\ Member(t, u)' => Member(t, u)
  PROVE  IncidentsInv'
<1>1. Shape /\ ClosedIsTold /\ Working /\ \A u \in DOMAIN updates : updates[u] \in Update /\ Resolution(u) /\ Fit(u)
  BY UpdatesTyped DEF IncidentsInv, Shape
<1>2. /\ updates' \in Seq(Update) /\ Len(updates') = Len(updates) /\ DOMAIN updates' = DOMAIN updates
      /\ \A u \in DOMAIN updates : Same(u)
  BY <1>1, ExcuseTyped, ExcuseSame DEF Shape, Same
<1>3. Shape'
  BY <1>1, <1>2 DEF Shape
<1>4. ASSUME NEW u \in DOMAIN updates PROVE Resolution(u)' /\ Fit(u)'
  <2>1. Same(u) /\ (Excuse(t) => t \in updates'[u].excused)
    BY <1>1, <1>2, <1>4, ExcuseSame DEF Shape
  <2>2. updates[u].resolving /\ ~updates[u].finished => incident'[updates[u].incident].status = "resolved"
    BY <1>1 DEF Resolution
  <2>3. ASSUME updates[u].resolving, NEW v \in Tickets \ updates'[u].excused
        PROVE  /\ ticket[v].granted => ticket'[v].granted
               /\ Running(v)' => Running(v) \/ <<v, u>> \notin told
               /\ ~updates[u].finished /\ Member(v, u)' => Member(v, u)
    <3>1. CASE v = t
      BY <2>1, <2>3, <3>1
    <3>2. CASE v # t
      BY <2>1, <3>2 DEF Running, Member, Same
    <3> QED
      BY <3>1, <3>2
  <2> QED
    BY <1>1, <2>1, <2>2, <2>3, OldUpdate DEF Shape
<1> QED
  BY <1>1, <1>2, <1>3, <1>4, Quiet, StillWorking

-----------------------------------------------------------------------------
(* The steps.                                                              *)

LEMMA InitInv == Sizes /\ Init => IncidentsInv
<1> SUFFICES ASSUME Sizes, Init PROVE IncidentsInv
  OBVIOUS
<1>1. updates \in Seq(Update) /\ Len(updates) = 0 /\ DOMAIN updates = {}
  BY EmptySeq, LenProperties DEF Init
<1>2. broadcast \in [Runs -> AnyRun]
  BY IdleTyped DEF Init, Sizes
<1>3. Shape
  BY <1>1, <1>2 DEF Init, Shape, Sizes, Incident, Ticket
<1>4. Working /\ \A r \in Runs : broadcast[r].update = 0
  BY IdleTyped DEF Init, Sizes, Working
<1> QED
  BY <1>1, <1>3, <1>4 DEF Init, IncidentsInv, ClosedIsTold

LEMMA StatusSet ==
  ASSUME incident \in [Incidents -> Incident], NEW i \in Incidents,
         NEW status \in {"none", "suggested", "open", "resolved", "dismissed"}, SetStatus(i, status)
  PROVE  /\ incident' \in [Incidents -> Incident] /\ incident'[i].status = status
         /\ \A j \in Incidents \ {i} : incident'[j] = incident[j]
<1> DEFINE row == [incident[i] EXCEPT !.status = status]
<1>1. row \in Incident /\ row.status = status
  BY DEF Incident
<1>2. incident' = [incident EXCEPT ![i] = row]
  BY DEF SetStatus
<1> HIDE DEF row
<1> QED
  BY <1>1, <1>2

LEMMA LinkedTyped ==
  ASSUME ticket \in [Tickets -> Ticket], NEW i \in Incidents, NEW T \in SUBSET Tickets
  PROVE  /\ Linked(T, i) \in [Tickets -> Ticket]
         /\ \A t \in Tickets : /\ Linked(T, i)[t].status = ticket[t].status
                               /\ Linked(T, i)[t].granted = ticket[t].granted
                               /\ Linked(T, i)[t].linked \subseteq ticket[t].linked \cup {i}
<1>1. ASSUME NEW t \in Tickets
      PROVE  LET linked == [ticket[t] EXCEPT !.linked = @ \cup {i}]
             IN  /\ linked \in Ticket /\ linked.status = ticket[t].status
                 /\ linked.granted = ticket[t].granted /\ linked.linked = ticket[t].linked \cup {i}
  <2> DEFINE row == ticket[t]  S == row.linked \cup {i}
  <2>1. row \in Ticket
    OBVIOUS
  <2>2. S \in SUBSET Incidents
    BY <2>1 DEF Ticket
  <2> HIDE DEF row, S
  <2>3. LET linked == [row EXCEPT !.linked = S]
        IN  linked \in Ticket /\ linked.status = row.status /\ linked.granted = row.granted /\ linked.linked = S
    BY <2>1, <2>2 DEF Ticket
  <2> QED
    BY <2>3 DEF row, S
<1>2. \A t \in Tickets :
        Linked(T, i)[t] = IF t \in T /\ Running(t) /\ ~OtherIncident(t, i)
                          THEN [ticket[t] EXCEPT !.linked = @ \cup {i}] ELSE ticket[t]
  BY DEF Linked
<1>3. \A t \in Tickets : Linked(T, i)[t] \in Ticket
  BY <1>1, <1>2
<1>4. Linked(T, i) = [t \in Tickets |-> Linked(T, i)[t]]
  BY DEF Linked
<1>5. Linked(T, i) \in [Tickets -> Ticket]
  BY <1>3, <1>4
<1> QED
  BY <1>1, <1>2, <1>5

(* The commands on an incident, and the detector.                          *)
LEMMA OnIncidentKeeps ==
  ASSUME IncidentsInv, MaxUpdates \in Nat, OnIncident
  PROVE  IncidentsInv'
<1>1. PICK i \in Incidents :
        Suggest(i) \/ Create(i) \/ Dismiss(i) \/ Link(i) \/ Post(i) \/ Resolve(i) \/ Reopen(i)
  BY DEF OnIncident
<1>2. Shape /\ ClosedIsTold /\ \A u \in DOMAIN updates : Resolution(u)
  BY DEF IncidentsInv
<1>3. UNCHANGED <<told, matching, closings, broadcast>>
  BY <1>1 DEF Suggest, Create, Dismiss, Link, Post, Resolve, Reopen
<1>4. \/ incident' = incident /\ ~Resolve(i)
      \/ \E status \in {"none", "suggested", "open", "resolved", "dismissed"} :
           SetStatus(i, status) /\ (Resolve(i) => status = "resolved")
  BY <1>1 DEF Suggest, Create, Dismiss, Link, Post, Resolve, Reopen, Open
<1>5. /\ incident' \in [Incidents -> Incident] /\ (Resolve(i) => incident'[i].status = "resolved")
      /\ \A j \in Incidents \ {i} : incident'[j] = incident[j]
  BY <1>2, <1>4, StatusSet DEF Shape
<1>6. /\ ticket' \in [Tickets -> Ticket]
      /\ \A t \in Tickets : /\ ticket'[t].status = ticket[t].status /\ ticket'[t].granted = ticket[t].granted
                            /\ ticket'[t].linked \subseteq ticket[t].linked \cup {i}
  <2>1. ticket' = ticket \/ \E T \in SUBSET Tickets : ticket' = Linked(T, i)
    BY <1>1 DEF Suggest, Create, Dismiss, Link, Post, Resolve, Reopen
  <2> QED
    BY <1>2, <2>1, LinkedTyped DEF Shape
<1>7. \A u \in DOMAIN updates : updates[u].resolving /\ ~updates[u].finished => updates[u].incident # i
  <2>1. \A u \in DOMAIN updates : updates[u].resolving /\ ~updates[u].finished /\ updates[u].incident = i
                                  => incident[i].status = "resolved" /\ PendingResolution(i)
    BY <1>2 DEF Resolution, PendingResolution
  <2> QED
    BY <1>1, <2>1 DEF Suggest, Create, Dismiss, Link, Post, Resolve, Reopen, Open
<1>8. \/ updates' = updates
      \/ \E resolving \in BOOLEAN : AddUpdate(i, resolving) /\ (resolving => incident'[i].status = "resolved")
  <2>1. \/ updates' = updates
        \/ AddUpdate(i, FALSE)
        \/ AddUpdate(i, TRUE) /\ Resolve(i)
    BY <1>1 DEF Suggest, Create, Dismiss, Link, Post, Resolve, Reopen, MaybeTell
  <2> QED
    BY <1>5, <2>1
<1> QED
  BY <1>3, <1>5, <1>6, <1>7, <1>8, CommandKeeps

LEMMA TicketSet ==
  ASSUME ticket \in [Tickets -> Ticket], NEW t \in Tickets, NEW row \in Ticket,
         ticket' = [ticket EXCEPT ![t] = row]
  PROVE  /\ ticket' \in [Tickets -> Ticket] /\ ticket'[t] = row
         /\ \A v \in Tickets \ {t} : ticket'[v] = ticket[v]
OBVIOUS

(* What happens to a ticket.                                               *)
LEMMA OnTicketKeeps ==
  ASSUME IncidentsInv, OnTicket
  PROVE  IncidentsInv'
<1>1. PICK t \in Tickets :
        \/ Match(t) \/ CreateTicket(t) \/ Busy(t) \/ CloseTicket(t) \/ ReopenTicket(t) \/ ChangeConsent(t)
        \/ \E i \in Incidents : Unlink(i, t)
  BY DEF OnTicket
<1> DEFINE row == ticket[t]
<1>2. Shape /\ row \in Ticket /\ matching[t] \in Incidents \cup {NoIncident}
  BY DEF IncidentsInv, Shape
<1>3. UNCHANGED <<incident, told, closings, broadcast>>
  BY <1>1 DEF Match, CreateTicket, Busy, CloseTicket, ReopenTicket, ChangeConsent, Unlink
<1>4. matching' \in [Tickets -> Incidents \cup {NoIncident}]
  BY <1>1, <1>2 DEF Shape, Match, CreateTicket, Busy, CloseTicket, ReopenTicket, ChangeConsent, Unlink
<1>5. \E new \in Ticket :
        /\ ticket' = [ticket EXCEPT ![t] = new] /\ (new.status = "none" => row.status = "none")
        /\ \/ Excuse(t)
           \/ /\ updates' = updates
              /\ row.granted => new.granted
              /\ \/ new.status = row.status /\ new.linked \subseteq row.linked
                 \/ new.status \notin {"open", "in_progress"}
                 \/ /\ row.status = "none" /\ CreateTicket(t)
                    /\ new.linked \subseteq {i \in Incidents : Open(i)}
  <2>1. CASE Match(t)
    BY <1>2, <2>1 DEF Match, Shape
  <2>2. CASE CreateTicket(t)
    <3> DEFINE linked == IF matching[t] = NoIncident THEN {} ELSE {matching[t]}
    <3>1. /\ ticket' = [ticket EXCEPT ![t] = [row EXCEPT !.status = "open", !.linked = linked]]
          /\ linked \in SUBSET Incidents
          /\ Excuse(t) \/ (updates' = updates /\ linked \subseteq {i \in Incidents : Open(i)})
          /\ row.status = "none"
      BY <1>2, <2>2 DEF CreateTicket, Shape
    <3> HIDE DEF linked, row
    <3>2. LET new == [row EXCEPT !.status = "open", !.linked = linked]
          IN  /\ new \in Ticket /\ new.granted = row.granted /\ new.linked = linked
              /\ new.status = "open"
      BY <1>2, <3>1 DEF Ticket
    <3> QED
      BY <2>2, <3>1, <3>2
  <2>3. CASE Busy(t)
    <3>1. ticket' = [ticket EXCEPT ![t] = [row EXCEPT !.busy = ~row.busy]] /\ updates' = updates
      BY <2>3 DEF Busy
    <3> HIDE DEF row
    <3>2. LET new == [row EXCEPT !.busy = ~row.busy]
          IN  new \in Ticket /\ new.granted = row.granted /\ new.status = row.status /\ new.linked = row.linked
      BY <1>2 DEF Ticket
    <3> QED
      BY <3>1, <3>2
  <2>4. CASE CloseTicket(t)
    <3>1. ticket' = [ticket EXCEPT ![t] = [row EXCEPT !.status = "closed"]] /\ updates' = updates
      BY <2>4 DEF CloseTicket
    <3> HIDE DEF row
    <3>2. LET new == [row EXCEPT !.status = "closed"]
          IN  new \in Ticket /\ new.granted = row.granted /\ new.status = "closed"
      BY <1>2 DEF Ticket
    <3> QED
      BY <3>1, <3>2
  <2>5. CASE ReopenTicket(t)
    <3>1. ticket' = [ticket EXCEPT ![t] = [row EXCEPT !.status = "in_progress"]] /\ Excuse(t)
      BY <2>5 DEF ReopenTicket
    <3> HIDE DEF row
    <3>2. LET new == [row EXCEPT !.status = "in_progress"]
          IN  new \in Ticket /\ new.status = "in_progress"
      BY <1>2 DEF Ticket
    <3> QED
      BY <3>1, <3>2
  <2>6. CASE ChangeConsent(t)
    <3>1. ticket' = [ticket EXCEPT ![t] = [row EXCEPT !.granted = ~row.granted]] /\ Excuse(t)
      BY <2>6 DEF ChangeConsent
    <3> HIDE DEF row
    <3>2. LET new == [row EXCEPT !.granted = ~row.granted]
          IN  new \in Ticket /\ new.status = row.status
      BY <1>2 DEF Ticket
    <3> QED
      BY <3>1, <3>2
  <2>7. ASSUME NEW i \in Incidents, Unlink(i, t)
        PROVE  \E new \in Ticket :
                 /\ ticket' = [ticket EXCEPT ![t] = new] /\ updates' = updates
                 /\ row.granted => new.granted
                 /\ new.status = row.status /\ new.linked \subseteq row.linked
    <3> DEFINE linked == row.linked \ {i}
    <3>1. ticket' = [ticket EXCEPT ![t] = [row EXCEPT !.linked = linked]] /\ updates' = updates
      BY <2>7 DEF Unlink
    <3>2. linked \in SUBSET Incidents /\ linked \subseteq row.linked
      BY <1>2 DEF Ticket
    <3> HIDE DEF linked, row
    <3>3. LET new == [row EXCEPT !.linked = linked]
          IN  new \in Ticket /\ new.granted = row.granted /\ new.status = row.status /\ new.linked = linked
      BY <1>2, <3>2 DEF Ticket
    <3> QED
      BY <3>1, <3>2, <3>3
  <2> QED
    BY <1>1, <2>1, <2>2, <2>3, <2>4, <2>5, <2>6, <2>7
<1>6. PICK new \in Ticket :
        /\ ticket' = [ticket EXCEPT ![t] = new] /\ (new.status = "none" => row.status = "none")
        /\ \/ Excuse(t)
           \/ /\ updates' = updates
              /\ row.granted => new.granted
              /\ \/ new.status = row.status /\ new.linked \subseteq row.linked
                 \/ new.status \notin {"open", "in_progress"}
                 \/ /\ row.status = "none" /\ CreateTicket(t)
                    /\ new.linked \subseteq {i \in Incidents : Open(i)}
  BY <1>5
<1>7. /\ ticket' \in [Tickets -> Ticket] /\ ticket'[t] = new /\ \A v \in Tickets \ {t} : ticket'[v] = ticket[v]
  BY <1>2, <1>6, TicketSet DEF Shape
<1>8. ASSUME updates' = updates, NEW u \in DOMAIN updates, updates[u].resolving,
             \/ new.status = row.status /\ new.linked \subseteq row.linked
             \/ new.status \notin {"open", "in_progress"}
             \/ row.status = "none" /\ new.linked \subseteq {i \in Incidents : Open(i)}
      PROVE  /\ Running(t)' => Running(t) \/ <<t, u>> \notin told
             /\ ~updates[u].finished /\ Member(t, u)' => Member(t, u)
  <2>1. u \in Nat
    BY <1>2, UpdatesTyped DEF Shape
  <2>2. Resolution(u) /\ (row.status = "none" => <<t, u>> \notin told)
    BY <2>1 DEF IncidentsInv, ClosedIsTold
  <2> HIDE DEF row
  <2> QED
    BY <1>7, <1>8, <2>2 DEF Running, Member, Resolution, Open, row
<1> QED
  BY <1>3, <1>4, <1>6, <1>7, <1>8, TicketKeeps

-----------------------------------------------------------------------------
(* The broadcast.                                                          *)

\* Nothing happens to the incidents and their tickets that an update could notice.
Calm ==
    /\ \A i \in Incidents : incident'[i].status = incident[i].status
    /\ \A t \in Tickets : /\ ticket'[t].granted = ticket[t].granted /\ ticket'[t].linked = ticket[t].linked
                          /\ Running(t)' => Running(t)

\* No other run than those of u moves.
Only(u) == \A q \in Runs : broadcast'[q] \in {Idle, broadcast[q]} \/ broadcast'[q].update = u

(* The other updates.                                                      *)
LEMMA OthersKeep ==
  ASSUME IncidentsInv, MaxUpdates \in Nat, NEW u \in DOMAIN updates, NEW v \in DOMAIN updates \ {u},
         updates'[v] = updates[v], Calm, Only(u),
         \A t \in Tickets : <<t, v>> \in told' <=> <<t, v>> \in told
  PROVE  Resolution(v)' /\ Fit(v)'
<1>1. Shape /\ updates[v] \in Update /\ Resolution(v) /\ Fit(v)
  BY UpdatesTyped DEF IncidentsInv, Shape
<1>2. Same(v)
  BY DEF Same
<1>3. \A r \in Runs : broadcast'[r].update = v => broadcast'[r] = broadcast[r]
  <2>1. v # 0
    BY <1>1, UpdatesTyped DEF Shape
  <2> QED
    BY <2>1, IdleTyped DEF Only
<1>4. updates[v].resolving /\ ~updates[v].finished => incident'[updates[v].incident].status = "resolved"
  BY <1>1 DEF Resolution, Update, Calm
<1>5. \A t \in Tickets : Member(t, v)' => Member(t, v)
  BY DEF Member, Calm
<1> QED
  BY <1>1, <1>2, <1>3, <1>4, <1>5, OldUpdate DEF Calm, Shape

(* A run that is alone is the only one of its update.                      *)
LEMMA AloneIsOnly ==
  ASSUME NEW r \in Runs, NEW q \in Runs \ {r}, Owned(r, broadcast[r].update), Alone(r),
         broadcast[q].update = broadcast[r].update
  PROVE  FALSE
BY DEF Owned, Alone

(* A step of the runs of one update that tells nobody.                     *)
LEMMA RunKeeps ==
  ASSUME IncidentsInv, MaxUpdates \in Nat, NEW u \in DOMAIN updates, NEW row \in Update, Set(u, row),
         UNCHANGED <<incident, ticket, told, matching, closings>>,
         \A f \in {"incident", "resolving", "excused"} : row[f] = updates[u][f],
         updates[u].finished => row.finished,
         broadcast' \in [Runs -> AnyRun], Only(u),
         updates'[u] = row => Fit(u)'
  PROVE  IncidentsInv'
<1>1. Shape /\ Working /\ \A v \in DOMAIN updates : updates[v] \in Update /\ Resolution(v) /\ Fit(v)
  BY UpdatesTyped DEF IncidentsInv, Shape
<1>2. /\ updates' \in Seq(Update) /\ Len(updates') = Len(updates) /\ DOMAIN updates' = DOMAIN updates
      /\ updates'[u] = row /\ \A v \in DOMAIN updates \ {u} : updates'[v] = updates[v]
  BY <1>1, SetTyped DEF Shape
<1>3. Shape'
  BY <1>1, <1>2 DEF Shape
<1>4. Working'
  <2>1. u # 0
    BY <1>1, UpdatesTyped DEF Shape
  <2> QED
    BY <1>1, <1>2, <2>1, IdleTyped DEF Working, Only
<1>5. Calm
  BY DEF Calm, Running
<1>6. \A v \in DOMAIN updates \ {u} : Resolution(v)' /\ Fit(v)'
  BY <1>2, <1>5, OthersKeep
<1>7. Resolution(u)'
  BY <1>1, <1>2 DEF Resolution, Running
<1> QED
  BY <1>2, <1>3, <1>4, <1>6, <1>7, Quiet

(* A run begins.                                                           *)
LEMMA StartKeeps ==
  ASSUME IncidentsInv, MaxUpdates \in Nat, NEW u \in DOMAIN updates, NEW r \in Runs, StartJob(r, u)
  PROVE  IncidentsInv'
<1> DEFINE old == updates[u]
<1>1. Shape /\ old \in Update /\ Fit(u)
  BY UpdatesTyped DEF IncidentsInv, Shape
<1>2. /\ UNCHANGED <<incident, ticket, told, matching, closings>>
      /\ old.job = "pending" /\ broadcast[r] = Idle /\ u # 0 /\ u \in 0 .. MaxUpdates
  BY <1>1, UpdatesTyped DEF StartJob, Shape
<1>3. \A q \in Runs : broadcast[q].update = u => broadcast[q].overtaken
  BY <1>1, <1>2 DEF Fit, Owned
<1>4. \A q \in Runs : broadcast[q].update = u => Behind(q, u) /\ Owned(q, u)
  BY <1>1 DEF Fit
<1>5. CASE old.finished
  <2> DEFINE row == [old EXCEPT !.job = "done"]
  <2>1. Set(u, row) /\ broadcast' = broadcast
    BY <1>5 DEF StartJob
  <2>2. row \in Update /\ \A f \in {"incident", "resolving", "excused", "finished"} : row[f] = old[f]
    <3> HIDE DEF old
    <3> QED
      BY <1>1 DEF Update
  <2> HIDE DEF row
  <2>3. ASSUME updates'[u] = row, NEW q \in Runs, broadcast'[q].update = u PROVE Behind(q, u)' /\ Owned(q, u)'
    BY <1>2, <1>3, <1>4, <1>5, <2>1, <2>2, <2>3 DEF Behind, Owned, Alone
  <2> QED
    BY <1>1, <1>2, <2>1, <2>2, <2>3, RunKeeps DEF Fit, Only, Shape
<1>6. CASE ~old.finished
  <2>1. PICK force \in {old.old, old.resolving} :
          /\ Set(u, [old EXCEPT !.job = "running", !.old = force])
          /\ Hold(r, [Idle EXCEPT !.update = u, !.force = force, !.beside = \E q \in Runs : broadcast[q].update = u])
    BY <1>6 DEF StartJob
  <2> DEFINE beside == \E q \in Runs : broadcast[q].update = u
             row == [old EXCEPT !.job = "running", !.old = force]
             run == [Idle EXCEPT !.update = u, !.force = force, !.beside = beside]
  <2>2. /\ row \in Update /\ row.job = "running"
        /\ \A f \in {"incident", "resolving", "excused", "finished"} : row[f] = old[f]
    <3>1. force \in BOOLEAN
      BY <1>1 DEF Update
    <3> HIDE DEF old
    <3> QED
      BY <1>1, <3>1 DEF Update
  <2>3. beside \in BOOLEAN /\ (~beside => \A q \in Runs : broadcast[q].update # u)
    OBVIOUS
  <2>4. Set(u, row) /\ Hold(r, run)
    BY <2>1
  <2> HIDE DEF row, beside
  <2>5. /\ run \in AnyRun /\ run.update = u /\ run.beside = beside /\ run.listed = {} /\ ~run.last
        /\ run.passed = {} /\ ~run.overtaken
    BY <1>1, <1>2, <2>3 DEF Idle, AnyRun, Update
  <2> HIDE DEF run
  <2>6. /\ broadcast' \in [Runs -> AnyRun] /\ broadcast'[r] = run
        /\ \A q \in Runs \ {r} : broadcast'[q] = broadcast[q]
    BY <1>1, <2>4, <2>5, HoldTyped DEF Shape
  <2>7. ASSUME updates'[u] = row PROVE Behind(r, u)' /\ Owned(r, u)'
    <3>1. Behind(r, u)'
      BY <2>5, <2>6 DEF Behind
    <3>2. Owned(r, u)'
      BY <1>3, <1>6, <2>2, <2>3, <2>5, <2>6, <2>7 DEF Owned, Alone
    <3> QED
      BY <3>1, <3>2
  <2>8. ASSUME updates'[u] = row, NEW q \in Runs \ {r}, broadcast'[q].update = u PROVE Behind(q, u)' /\ Owned(q, u)'
    <3>1. broadcast[q].overtaken /\ Behind(q, u) /\ broadcast'[q] = broadcast[q]
      BY <1>3, <1>4, <2>6, <2>8
    <3>2. Behind(q, u)'
      BY <1>2, <2>2, <2>8, <3>1 DEF Behind, Member, Running
    <3>3. Owned(q, u)'
      BY <3>1 DEF Owned, Alone
    <3> QED
      BY <3>2, <3>3
  <2>9. updates'[u] = row => Fit(u)'
    BY <2>7, <2>8 DEF Fit
  <2> QED
    BY <1>2, <2>2, <2>4, <2>5, <2>6, <2>9, RunKeeps DEF Only
<1> QED
  BY <1>5, <1>6

(* Recovery overtakes all runs of the job.                                 *)
LEMMA RecoverKeeps ==
  ASSUME IncidentsInv, MaxUpdates \in Nat, NEW u \in DOMAIN updates, RecoverJob(u)
  PROVE  IncidentsInv'
<1> DEFINE old == updates[u]
           row == [old EXCEPT !.job = "pending"]
<1>1. Shape /\ old \in Update /\ Fit(u)
  BY UpdatesTyped DEF IncidentsInv, Shape
<1>2. UNCHANGED <<incident, ticket, told, matching, closings>> /\ Set(u, row)
  BY DEF RecoverJob
<1>3. row \in Update /\ \A f \in {"incident", "resolving", "excused", "finished"} : row[f] = old[f]
  <2> HIDE DEF old
  <2> QED
    BY <1>1 DEF Update
<1> HIDE DEF row
<1>4. ASSUME NEW q \in Runs
      PROVE  /\ broadcast'[q] \in AnyRun
             /\ IF broadcast[q].update = u
                THEN /\ broadcast'[q].overtaken
                     /\ \A f \in {"update", "listed", "last", "passed", "waiting"} : broadcast'[q][f] = broadcast[q][f]
                ELSE broadcast'[q] = broadcast[q]
  <2> DEFINE run == broadcast[q]
  <2>1. run \in AnyRun
    BY <1>1 DEF Shape
  <2>2. broadcast'[q] = IF run.update = u THEN [run EXCEPT !.overtaken = TRUE] ELSE run
    BY DEF RecoverJob
  <2> HIDE DEF run
  <2>3. /\ broadcast'[q] \in AnyRun
        /\ IF run.update = u
           THEN /\ broadcast'[q].overtaken
                /\ \A f \in {"update", "listed", "last", "passed", "waiting"} : broadcast'[q][f] = run[f]
           ELSE broadcast'[q] = run
    BY <2>1, <2>2 DEF AnyRun
  <2> QED
    BY <2>3 DEF run
<1>5. broadcast' \in [Runs -> AnyRun] /\ Only(u)
  <2>1. broadcast' = [q \in Runs |-> broadcast'[q]]
    BY DEF RecoverJob
  <2>2. broadcast' \in [Runs -> AnyRun]
    BY <1>4, <2>1
  <2> QED
    BY <1>4, <2>2 DEF Only
<1>6. ASSUME updates'[u] = row, NEW q \in Runs, broadcast'[q].update = u PROVE Behind(q, u)' /\ Owned(q, u)'
  <2>1. broadcast[q].update = u
    BY <1>4, <1>6
  <2>2. Behind(q, u) /\ broadcast'[q].overtaken
    BY <1>1, <1>4, <2>1 DEF Fit
  <2>3. Behind(q, u)'
    BY <1>2, <1>3, <1>4, <1>6, <2>1, <2>2 DEF Behind, Member, Running
  <2>4. Owned(q, u)'
    BY <2>2 DEF Owned, Alone
  <2> QED
    BY <2>3, <2>4
<1> QED
  BY <1>2, <1>3, <1>5, <1>6, RunKeeps DEF Fit

(* A run ends: if it was not overtaken, the others of its update were.     *)
LEMMA LeaveKeeps ==
  ASSUME IncidentsInv, MaxUpdates \in Nat, NEW r \in Runs, NEW u \in DOMAIN updates,
         broadcast[r].update = u, NEW finished \in BOOLEAN, NEW state \in {"pending", "running", "failed", "done"},
         Leave(r, finished, state)
  PROVE  IncidentsInv'
<1> DEFINE old == updates[u]
           job == IF broadcast[r].overtaken THEN old.job ELSE state
           done == old.finished \/ finished
           row == [old EXCEPT !.finished = done, !.job = job]
<1>1. Shape /\ old \in Update /\ Fit(u) /\ u # 0
  BY UpdatesTyped DEF IncidentsInv, Shape
<1>2. UNCHANGED <<incident, ticket, told, matching, closings>> /\ Set(u, row) /\ Hold(r, Idle)
  BY DEF Leave
<1>3. job \in {"pending", "running", "failed", "done"} /\ done \in BOOLEAN /\ (old.finished => done)
      /\ (broadcast[r].overtaken => job = old.job)
  BY <1>1 DEF Update
<1> HIDE DEF job, done
<1>4. /\ row \in Update /\ row.job = job /\ row.finished = done
      /\ \A f \in {"incident", "resolving", "excused"} : row[f] = old[f]
  <2> HIDE DEF old
  <2> QED
    BY <1>1, <1>3 DEF Update
<1> HIDE DEF row
<1>5. /\ broadcast' \in [Runs -> AnyRun] /\ broadcast'[r] = Idle
      /\ \A q \in Runs \ {r} : broadcast'[q] = broadcast[q]
  BY <1>1, <1>2, IdleTyped, HoldTyped DEF Shape
<1>6. ASSUME updates'[u] = row, NEW q \in Runs, broadcast'[q].update = u PROVE Behind(q, u)' /\ Owned(q, u)'
  <2>1. q # r /\ broadcast'[q] = broadcast[q] /\ broadcast[q].update = u
    BY <1>1, <1>5, <1>6, IdleTyped
  <2>2. Behind(q, u) /\ Owned(q, u)
    BY <1>1, <2>1 DEF Fit
  <2>3. ~Alone(q)
    BY <2>1, <2>2, AloneIsOnly
  <2>4. Behind(q, u)'
    BY <1>2, <1>3, <1>4, <1>6, <2>1, <2>2 DEF Behind, Member, Running
  <2>5. ~broadcast[q].overtaken => broadcast[r].overtaken
    BY <2>1, <2>2 DEF Owned
  <2>6. ~broadcast'[q].overtaken => updates'[u].job = "running"
    BY <1>3, <1>4, <1>6, <2>1, <2>2, <2>5 DEF Owned
  <2>7. \A p \in Runs \ {q} : broadcast'[p].update = u =>
          broadcast'[q].overtaken \/ (broadcast'[p].overtaken /\ broadcast'[q].beside)
    BY <1>1, <1>5, <2>1, <2>2, IdleTyped DEF Owned
  <2> QED
    BY <2>1, <2>3, <2>4, <2>6, <2>7 DEF Owned, Alone
<1>7. Only(u)
  BY <1>5 DEF Only
<1> QED
  BY <1>2, <1>3, <1>4, <1>5, <1>6, <1>7, RunKeeps DEF Fit

(* The next tickets are listed.                                            *)
LEMMA ListKeeps ==
  ASSUME IncidentsInv, Sizes, NEW r \in Runs, NEW u \in DOMAIN updates, broadcast[r].update = u, ListTickets(r)
  PROVE  IncidentsInv'
<1> DEFINE run == broadcast[r]
           all == Recipients(u) \ run.passed
<1>1. Shape /\ run \in AnyRun /\ updates[u] \in Update /\ Resolution(u) /\ Fit(u) /\ u # 0
  BY UpdatesTyped DEF IncidentsInv, Shape
<1>2. UNCHANGED <<incident, ticket, updates, told, matching, closings>>
  BY DEF ListTickets
<1>3. PICK T \in SUBSET all :
        /\ Cardinality(T) = Batch \/ (T = all /\ Cardinality(all) < Batch)
        /\ Hold(r, [run EXCEPT !.listed = T, !.last = Cardinality(T) < Batch, !.done = run.done + Cardinality(T)])
  BY DEF ListTickets
<1> DEFINE last == Cardinality(T) < Batch
           done == run.done + Cardinality(T)
           new == [run EXCEPT !.listed = T, !.last = last, !.done = done]
<1>4. T \in SUBSET Tickets
  BY DEF Recipients
<1>5. done \in Nat /\ last \in BOOLEAN
  <2>1. Cardinality(T) \in Nat
    BY <1>4, FS_Subset, FS_CardinalityType DEF Sizes
  <2>2. run.done \in Nat
    BY <1>1 DEF AnyRun
  <2> QED
    BY <2>1, <2>2
<1>6. last => T = all
  BY <1>3 DEF Sizes
<1>7. \A t \in T : <<t, u>> \notin told
  BY DEF Recipients
<1>8. \A t \in Tickets : Member(t, u) /\ <<t, u>> \notin told => t \in all \/ t \in run.passed
  BY DEF Recipients, Member
<1>9. Hold(r, new)
  BY <1>3
<1> HIDE DEF last, done, all
<1>10. /\ new \in AnyRun /\ new.listed = T /\ new.last = last
       /\ \A f \in {"update", "overtaken", "beside", "passed", "waiting"} : new[f] = run[f]
  <2> HIDE DEF run
  <2> QED
    BY <1>1, <1>4, <1>5 DEF AnyRun
<1> HIDE DEF new
<1>11. /\ broadcast' \in [Runs -> AnyRun] /\ broadcast'[r] = new
       /\ \A q \in Runs \ {r} : broadcast'[q] = broadcast[q]
  BY <1>1, <1>9, <1>10, HoldTyped DEF Shape
<1>12. \A q \in Runs : broadcast[q].update = u => Behind(q, u) /\ Owned(q, u)
  BY <1>1 DEF Fit
<1>13. \A t \in Tickets : Member(t, u)' <=> Member(t, u)
  BY <1>2 DEF Member, Running
<1>14. Behind(r, u)'
  <2>1. ASSUME updates[u].resolving, ~updates[u].finished, NEW t \in Tickets \ updates[u].excused, Member(t, u)
        PROVE  /\ t \in new.passed => new.waiting
               /\ new.last => t \in new.listed \/ new.waiting
    <3>1. (t \in run.passed => run.waiting) /\ <<t, u>> \notin told
      BY <1>1, <1>12, <2>1 DEF Behind, Resolution, Member
    <3> QED
      BY <1>6, <1>8, <1>10, <2>1, <3>1
  <2> QED
    BY <1>2, <1>11, <1>13, <2>1 DEF Behind
<1>15. Owned(r, u)'
  <2>1. Alone(r)' => Alone(r)
    BY <1>10, <1>11 DEF Alone
  <2> QED
    BY <1>2, <1>7, <1>10, <1>11, <1>12, <2>1 DEF Owned
<1>16. ASSUME NEW q \in Runs \ {r}, broadcast'[q].update = u PROVE Behind(q, u)' /\ Owned(q, u)'
  <2>1. broadcast'[q] = broadcast[q] /\ Behind(q, u) /\ Owned(q, u)
    BY <1>11, <1>12, <1>16
  <2>2. Behind(q, u)'
    BY <1>2, <1>13, <2>1 DEF Behind
  <2>3. Owned(q, u)'
    BY <1>2, <1>10, <1>11, <2>1 DEF Owned, Alone
  <2> QED
    BY <2>2, <2>3
<1>17. Set(u, updates[u])
  BY <1>1, <1>2, UpdatesTyped, LenProperties DEF Set, Shape
<1>18. Fit(u)' /\ Only(u)
  BY <1>10, <1>11, <1>14, <1>15, <1>16 DEF Fit, Only
<1> QED
  BY <1>1, <1>2, <1>11, <1>17, <1>18, RunKeeps DEF Sizes

(* A ticket is passed over: if it is still one of the incident, it is put off, and the run waits.     *)
LEMMA PassOverKeeps ==
  ASSUME IncidentsInv, MaxUpdates \in Nat, NEW r \in Runs, NEW u \in DOMAIN updates, broadcast[r].update = u,
         NEW t \in Tickets, SendToTicket(r, t), PassOver(r, t)
  PROVE  IncidentsInv'
<1> DEFINE run == broadcast[r]
           listed == run.listed \ {t}
           passed == run.passed \cup {t}
           waiting == run.waiting \/ ~Gone(u, t)
           new == [run EXCEPT !.listed = listed, !.passed = passed, !.waiting = waiting]
<1>1. Shape /\ run \in AnyRun /\ updates[u] \in Update /\ Resolution(u) /\ Fit(u) /\ u # 0
  BY UpdatesTyped DEF IncidentsInv, Shape
<1>2. UNCHANGED <<incident, ticket, updates, told, matching, closings>> /\ Hold(r, new)
  BY DEF SendToTicket, PassOver, Passed
<1>3. listed \in SUBSET Tickets /\ passed \in SUBSET Tickets /\ waiting \in BOOLEAN /\ listed \subseteq run.listed
  BY <1>1 DEF AnyRun
<1>4. Gone(u, t) /\ Member(t, u) => ~ticket[t].granted
  BY DEF Gone, Member
<1>5. /\ waiting <=> run.waiting \/ ~Gone(u, t)
      /\ \A v \in passed : v \in run.passed \/ v = t
      /\ \A v \in run.listed : v \in listed \/ v = t
  OBVIOUS
<1> HIDE DEF listed, passed, waiting
<1>6. /\ new \in AnyRun /\ new.listed = listed /\ new.passed = passed /\ new.waiting = waiting
      /\ \A f \in {"update", "overtaken", "beside", "last"} : new[f] = run[f]
  <2> HIDE DEF run
  <2> QED
    BY <1>1, <1>3 DEF AnyRun
<1> HIDE DEF new
<1>7. /\ broadcast' \in [Runs -> AnyRun] /\ broadcast'[r] = new
      /\ \A q \in Runs \ {r} : broadcast'[q] = broadcast[q]
  BY <1>1, <1>2, <1>6, HoldTyped DEF Shape
<1>8. \A q \in Runs : broadcast[q].update = u => Behind(q, u) /\ Owned(q, u)
  BY <1>1 DEF Fit
<1>9. \A v \in Tickets : Member(v, u)' <=> Member(v, u)
  BY <1>2 DEF Member, Running
<1>10. Behind(r, u)'
  <2>1. ASSUME updates[u].resolving, ~updates[u].finished, NEW v \in Tickets \ updates[u].excused, Member(v, u)
        PROVE  /\ v \in new.passed => new.waiting
               /\ new.last => v \in new.listed \/ new.waiting
    <3>1. /\ v \in run.passed => run.waiting
          /\ run.last => v \in run.listed \/ run.waiting
          /\ ticket[v].granted
      BY <1>1, <1>8, <2>1 DEF Behind, Resolution
    <3>2. v = t => waiting
      BY <1>4, <1>5, <2>1, <3>1
    <3> QED
      BY <1>5, <1>6, <3>1, <3>2
  <2> QED
    BY <1>2, <1>7, <1>9, <2>1 DEF Behind
<1>11. Owned(r, u)'
  <2>1. Alone(r)' => Alone(r)
    BY <1>6, <1>7 DEF Alone
  <2> QED
    BY <1>2, <1>3, <1>6, <1>7, <1>8, <2>1 DEF Owned
<1>12. ASSUME NEW q \in Runs \ {r}, broadcast'[q].update = u PROVE Behind(q, u)' /\ Owned(q, u)'
  <2>1. broadcast'[q] = broadcast[q] /\ Behind(q, u) /\ Owned(q, u)
    BY <1>7, <1>8, <1>12
  <2>2. Behind(q, u)'
    BY <1>2, <1>9, <2>1 DEF Behind
  <2>3. Owned(q, u)'
    BY <1>2, <1>6, <1>7, <2>1 DEF Owned, Alone
  <2> QED
    BY <2>2, <2>3
<1>13. Set(u, updates[u])
  BY <1>1, <1>2, UpdatesTyped, LenProperties DEF Set, Shape
<1>14. Fit(u)' /\ Only(u)
  BY <1>6, <1>7, <1>10, <1>11, <1>12 DEF Fit, Only
<1> QED
  BY <1>1, <1>2, <1>7, <1>13, <1>14, RunKeeps

(* A ticket has its message, and is closed if the incident is over.        *)
LEMMA TellKeeps ==
  ASSUME IncidentsInv, MaxUpdates \in Nat, NEW r \in Runs, NEW u \in DOMAIN updates, broadcast[r].update = u,
         NEW t \in Tickets, SendToTicket(r, t), Tell(r, t), Running(t)
  PROVE  /\ IncidentsInv'
         /\ \A q \in Runs \ {r} : broadcast'[q] = broadcast[q]
         /\ \A v \in broadcast[r].listed \ broadcast'[r].listed : v = t
         /\ Alone(r) /\ closings' # closings =>
              closings[<<t, u>>] = 0 /\ incident[updates[u].incident].status = "resolved"
<1> DEFINE run == broadcast[r]
           old == updates[u]
           listed == run.listed \ {t}
           new == [run EXCEPT !.listed = listed]
<1>1. /\ Shape /\ ClosedIsTold /\ Working /\ run \in AnyRun /\ u # 0
      /\ \A v \in DOMAIN updates : updates[v] \in Update /\ Resolution(v) /\ Fit(v)
  BY UpdatesTyped DEF IncidentsInv, Shape
<1>2. /\ t \in run.listed /\ Hold(r, new) /\ UNCHANGED <<updates, matching>>
      /\ told' = told \cup {<<t, u>>}
      /\ IF old.resolving THEN CloseForIncident(u, t) ELSE UNCHANGED <<incident, ticket, closings>>
  BY DEF SendToTicket, Tell
<1>3. listed \in SUBSET Tickets /\ listed \subseteq run.listed /\ t \notin listed
      /\ \A v \in run.listed : v \in listed \/ v = t
  BY <1>1 DEF AnyRun
<1> HIDE DEF listed
<1>4. /\ new \in AnyRun /\ new.listed = listed
      /\ \A f \in {"update", "overtaken", "beside", "last", "passed", "waiting"} : new[f] = run[f]
  <2> HIDE DEF run
  <2> QED
    BY <1>1, <1>3 DEF AnyRun
<1> HIDE DEF new
<1>5. /\ broadcast' \in [Runs -> AnyRun] /\ broadcast'[r] = new
      /\ \A q \in Runs \ {r} : broadcast'[q] = broadcast[q]
  BY <1>1, <1>2, <1>4, HoldTyped DEF Shape
<1>6. u \in 1 .. MaxUpdates /\ u \in Nat /\ <<t, u>> \in Keys
  <2>1. u \in 1 .. Len(updates) /\ Len(updates) \in Nat /\ Len(updates) <= MaxUpdates
    BY <1>1, UpdatesTyped DEF Shape
  <2>2. u \in 1 .. MaxUpdates /\ u \in Nat
    BY <2>1
  <2> QED
    BY <2>2 DEF Keys
<1>7. /\ ticket' \in [Tickets -> Ticket] /\ \A v \in Tickets \ {t} : ticket'[v] = ticket[v]
      /\ ticket'[t].granted = ticket[t].granted /\ ticket'[t].linked = ticket[t].linked /\ ticket'[t].status # "none"
      /\ old.resolving => ~Running(t)'
  <2>1. CASE ~old.resolving
    BY <1>1, <1>2, <2>1 DEF Shape, Running
  <2>2. CASE old.resolving
    <3>1. PICK status \in {"awaiting_rating", "closed"} : ticket' = [ticket EXCEPT ![t].status = status]
      BY <1>2, <2>2 DEF CloseForIncident
    <3> DEFINE row == [ticket[t] EXCEPT !.status = status]
    <3>2. row \in Ticket /\ row.status = status /\ row.granted = ticket[t].granted /\ row.linked = ticket[t].linked
      BY <1>1 DEF Shape, Ticket
    <3>3. ticket' = [ticket EXCEPT ![t] = row]
      BY <3>1
    <3> HIDE DEF row
    <3> QED
      BY <1>1, <2>2, <3>2, <3>3, TicketSet DEF Shape, Running
  <2> QED
    BY <2>1, <2>2
<1>8. /\ incident' \in [Incidents -> Incident]
      /\ \A i \in Incidents : incident'[i].status = incident[i].status
  <2>1. old.incident \in Incidents
    BY <1>1 DEF Update
  <2>2. CASE incident' = incident
    BY <1>1, <2>2 DEF Shape
  <2>3. CASE incident' = [incident EXCEPT ![old.incident].learning = TRUE]
    <3> DEFINE i == old.incident  row == [incident[i] EXCEPT !.learning = TRUE]
    <3>1. row \in Incident /\ row.status = incident[i].status
      BY <1>1, <2>1 DEF Shape, Incident
    <3>2. incident' = [incident EXCEPT ![i] = row]
      BY <2>3
    <3> HIDE DEF row
    <3> QED
      BY <1>1, <2>1, <3>1, <3>2 DEF Shape
  <2> QED
    BY <1>2, <2>2, <2>3 DEF CloseForIncident
<1>9. Calm
  BY <1>2, <1>7, <1>8 DEF Calm, Running
<1>10. Owned(r, u) /\ \A q \in Runs : broadcast[q].update = u => Behind(q, u) /\ Owned(q, u)
  BY <1>1 DEF Fit
<1>11. /\ closings' \in [Keys -> Nat] /\ \A k \in Keys : k # <<t, u>> => closings'[k] = closings[k]
       /\ closings' # closings => old.resolving
  <2>1. closings \in [Keys -> Nat] /\ closings[<<t, u>>] + 1 \in Nat
    BY <1>1, <1>6 DEF Shape
  <2>2. CASE closings' = closings
    BY <2>1, <2>2
  <2>3. CASE old.resolving /\ closings' = [closings EXCEPT ![<<t, u>>] = closings[<<t, u>>] + 1]
    BY <1>6, <2>1, <2>3
  <2> QED
    BY <1>2, <2>2, <2>3 DEF CloseForIncident
<1>12. Shape'
  BY <1>1, <1>2, <1>5, <1>7, <1>8, <1>11 DEF Shape
<1>13. ClosedIsTold'
  <2>1. ASSUME NEW k \in Keys, closings'[k] > 0 PROVE k \in told'
    BY <1>1, <1>2, <1>11, <2>1 DEF ClosedIsTold
  <2>2. ASSUME NEW v \in Tickets, NEW w \in Nat, <<v, w>> \in told'
        PROVE  w \in DOMAIN updates' /\ ticket'[v].status # "none"
    BY <1>1, <1>2, <1>7, <2>2 DEF ClosedIsTold
  <2> QED
    BY <2>1, <2>2 DEF ClosedIsTold
<1>14. Working' /\ Only(u)
  BY <1>1, <1>2, <1>4, <1>5 DEF Working, Only
<1>15. ASSUME NEW v \in DOMAIN updates, v # u PROVE Resolution(v)' /\ Fit(v)'
  BY <1>2, <1>9, <1>14, <1>15, OthersKeep
<1>16. \A w \in Tickets : Member(w, u)' => Member(w, u) /\ (old.resolving => w # t)
  BY <1>2, <1>7, <1>9 DEF Member, Calm
<1>17. Resolution(u)'
  <2>1. old.resolving /\ ~old.finished => incident'[old.incident].status = "resolved"
    BY <1>1, <1>8 DEF Resolution, Update
  <2>2. ASSUME old.resolving, NEW w \in Tickets \ old.excused
        PROVE  ticket'[w].granted /\ (<<w, u>> \in told' => ~Running(w)')
    <3>1. ticket[w].granted /\ (<<w, u>> \in told => ~Running(w))
      BY <1>1, <2>2 DEF Resolution
    <3>2. w = t \/ (<<w, u>> \in told' => <<w, u>> \in told)
      BY <1>2
    <3> QED
      BY <1>7, <1>9, <2>2, <3>1, <3>2 DEF Calm
  <2> QED
    BY <1>2, <2>1, <2>2 DEF Resolution
<1>18. ASSUME NEW q \in Runs, broadcast'[q].update = u PROVE Behind(q, u)'
  <2>1. /\ broadcast[q].update = u /\ Behind(q, u) /\ broadcast'[q].passed = broadcast[q].passed
        /\ broadcast'[q].waiting = broadcast[q].waiting /\ broadcast'[q].last = broadcast[q].last
        /\ \A w \in broadcast[q].listed : w = t \/ w \in broadcast'[q].listed
    BY <1>3, <1>4, <1>5, <1>10, <1>18
  <2>2. ASSUME old.resolving, ~old.finished, NEW w \in Tickets \ old.excused, Member(w, u)'
        PROVE  /\ w \in broadcast[q].passed => broadcast[q].waiting
               /\ broadcast[q].last => w \in broadcast'[q].listed \/ broadcast[q].waiting
    BY <1>16, <2>1, <2>2 DEF Behind
  <2> QED
    BY <1>2, <2>1, <2>2 DEF Behind
<1>19. Owned(r, u)'
  <2>1. Alone(r)' => Alone(r)
    BY <1>4, <1>5 DEF Alone
  <2>2. ASSUME Alone(r) PROVE ~old.finished /\ \A v \in listed : <<v, u>> \notin told'
    BY <1>2, <1>3, <1>10, <2>2 DEF Owned
  <2> QED
    BY <1>2, <1>4, <1>5, <1>10, <2>1, <2>2 DEF Owned
<1>20. ASSUME NEW q \in Runs \ {r}, broadcast'[q].update = u PROVE Owned(q, u)'
  <2>1. broadcast'[q] = broadcast[q] /\ Owned(q, u) /\ ~Alone(q)
    BY <1>5, <1>10, <1>20, AloneIsOnly
  <2> QED
    BY <1>2, <1>4, <1>5, <2>1 DEF Owned, Alone
<1>21. IncidentsInv'
  BY <1>2, <1>12, <1>13, <1>14, <1>15, <1>17, <1>18, <1>19, <1>20 DEF IncidentsInv, Fit
<1>22. ASSUME Alone(r), closings' # closings
       PROVE  closings[<<t, u>>] = 0 /\ incident[updates[u].incident].status = "resolved"
  <2>1. <<t, u>> \notin told /\ ~old.finished /\ old.resolving
    BY <1>2, <1>10, <1>11, <1>22 DEF Owned
  <2>2. closings[<<t, u>>] \in Nat
    BY <1>1, <1>6 DEF Shape
  <2>3. closings[<<t, u>>] = 0
    BY <1>1, <1>6, <2>1, <2>2 DEF ClosedIsTold
  <2> QED
    BY <1>1, <2>1, <2>3 DEF Resolution
<1> QED
  BY <1>3, <1>4, <1>5, <1>21, <1>22

(* Every step of a run.                                                    *)
LEMMA BroadcastKeeps ==
  ASSUME IncidentsInv, Sizes, Broadcast
  PROVE  IncidentsInv'
<1>1. PICK r \in Runs :
        \/ ListTickets(r) \/ EndRun(r) \/ PauseRun(r) \/ FailRun(r) \/ Die(r)
        \/ \E t \in Tickets : SendToTicket(r, t)
  BY DEF Broadcast
<1>2. MaxUpdates \in Nat /\ broadcast[r].update # 0
  BY <1>1 DEF Sizes, ListTickets, EndRun, PauseRun, FailRun, Die, SendToTicket, IncidentsInv, Working
<1>3. PICK u \in DOMAIN updates : broadcast[r].update = u
  BY <1>2 DEF IncidentsInv, Working
<1>4. CASE ListTickets(r)
  BY <1>3, <1>4, ListKeeps
<1>5. ASSUME NEW finished \in BOOLEAN, NEW state \in {"pending", "running", "failed", "done"},
             Leave(r, finished, state)
      PROVE  IncidentsInv'
  BY <1>2, <1>3, <1>5, LeaveKeeps
<1>6. ASSUME NEW t \in Tickets, SendToTicket(r, t) PROVE IncidentsInv'
  <2>1. PassOver(r, t) \/ (Tell(r, t) /\ Running(t))
    BY <1>6 DEF SendToTicket, Gone
  <2> QED
    BY <1>2, <1>3, <1>6, <2>1, PassOverKeeps, TellKeeps
<1> QED
  BY <1>1, <1>4, <1>5, <1>6 DEF EndRun, PauseRun, FailRun, Die

LEMMA StepInv ==
  ASSUME IncidentsInv, Sizes, [Next]_vars
  PROVE  IncidentsInv'
<1>1. CASE UNCHANGED vars
  <2>1. Shape' /\ ClosedIsTold' /\ Working'
    BY <1>1 DEF vars, IncidentsInv, Shape, ClosedIsTold, Working
  <2>2. ASSUME NEW u \in DOMAIN updates PROVE Resolution(u)' /\ Fit(u)'
    <3>1. Resolution(u)'
      BY <1>1 DEF vars, IncidentsInv, Resolution, Running
    <3>2. ASSUME NEW r \in Runs, broadcast[r].update = u PROVE Behind(r, u)' /\ Owned(r, u)'
      BY <1>1, <3>2 DEF vars, IncidentsInv, Fit, Behind, Owned, Alone, Member, Running
    <3> QED
      BY <1>1, <3>1, <3>2 DEF Fit, vars
  <2> QED
    BY <1>1, <2>1, <2>2 DEF vars, IncidentsInv
<1>2. CASE Job
  BY <1>2, StartKeeps, RecoverKeeps DEF Job, Sizes
<1> QED
  BY <1>1, <1>2, OnIncidentKeeps, OnTicketKeeps, BroadcastKeeps DEF Next, Sizes

(* What closes a ticket.                                                   *)
LEMMA ClosesOnce ==
  ASSUME IncidentsInv, Sizes, [Next]_vars, NEW r \in Runs, NEW t \in Tickets, Closes(r, t), Alone(r)
  PROVE  LET u == broadcast[r].update IN closings[t, u] = 0 /\ ~Open(updates[u].incident)
<1>1. closings' # closings /\ t \in broadcast[r].listed /\ t \notin broadcast'[r].listed
  BY DEF Closes
<1>2. PICK q \in Runs, w \in Tickets : SendToTicket(q, w)
  BY <1>1 DEF Next, vars, OnIncident, OnTicket, Job, Broadcast, Suggest, Create, Dismiss, Link, Post, Resolve, Reopen,
              Match, CreateTicket, Busy, CloseTicket, ReopenTicket, ChangeConsent, Unlink,
              StartJob, RecoverJob, ListTickets, EndRun, PauseRun, FailRun, Die, Leave
<1>3. Tell(q, w) /\ Running(w)
  BY <1>1, <1>2 DEF SendToTicket, PassOver, Gone
<1>4. PICK u \in DOMAIN updates : broadcast[q].update = u
  BY <1>2 DEF IncidentsInv, Working, SendToTicket
<1>5. q = r
  BY <1>1, <1>2, <1>3, <1>4, TellKeeps DEF Sizes
<1>6. w = t
  BY <1>1, <1>2, <1>3, <1>4, <1>5, TellKeeps DEF Sizes
<1> QED
  BY <1>1, <1>2, <1>3, <1>4, <1>5, <1>6, TellKeeps DEF Sizes, Open

(* What finishes an update.                                                *)
LEMMA FinishedByEndRun ==
  ASSUME IncidentsInv, Sizes, [Next]_vars, NEW u \in DOMAIN updates,
         updates'[u].finished, ~updates[u].finished
  PROVE  \E r \in Runs : broadcast[r].update = u /\ EndRun(r) /\ ~broadcast[r].waiting
<1>1. Shape /\ updates \in Seq(Update) /\ MaxUpdates \in Nat /\ \A v \in DOMAIN updates : updates[v] \in Update
  BY UpdatesTyped DEF IncidentsInv, Shape, Sizes
<1>2. updates'[u] # updates[u]
  OBVIOUS
<1>3. ~OnIncident
  <2>1. ASSUME OnIncident
        PROVE  updates' = updates \/ \E i \in Incidents, resolving \in BOOLEAN : AddUpdate(i, resolving)
    BY <2>1 DEF OnIncident, Suggest, Create, Dismiss, Link, Post, Resolve, Reopen, MaybeTell
  <2> QED
    BY <1>1, <1>2, <2>1, AddTyped
<1>4. ~OnTicket
  <2>1. ASSUME OnTicket PROVE updates' = updates \/ \E t \in Tickets : Excuse(t)
    BY <2>1 DEF OnTicket, Match, CreateTicket, Busy, CloseTicket, ReopenTicket, ChangeConsent, Unlink
  <2> QED
    BY <1>1, <2>1, ExcuseSame DEF Same
<1>5. ASSUME NEW v \in DOMAIN updates, NEW row \in Update, Set(v, row)
      PROVE  v = u /\ row.finished # updates[v].finished
  BY <1>1, <1>2, <1>5, SetTyped
<1>6. ~Job
  <2>1. ASSUME NEW v \in DOMAIN updates, RecoverJob(v) \/ \E r \in Runs : StartJob(r, v)
        PROVE  FALSE
    <3> DEFINE old == updates[v]
    <3>1. \E job \in {"pending", "running", "done"}, force \in BOOLEAN :
            Set(v, [old EXCEPT !.job = job]) \/ Set(v, [old EXCEPT !.job = job, !.old = force])
      <4>1. old.old \in BOOLEAN /\ old.resolving \in BOOLEAN
        BY <1>1 DEF Update
      <4> QED
        BY <2>1, <4>1 DEF RecoverJob, StartJob
    <3> HIDE DEF old
    <3>2. PICK job \in {"pending", "running", "done"}, force \in BOOLEAN :
            Set(v, [old EXCEPT !.job = job]) \/ Set(v, [old EXCEPT !.job = job, !.old = force])
      BY <3>1
    <3>3. /\ [old EXCEPT !.job = job] \in Update
          /\ [old EXCEPT !.job = job].finished = old.finished
          /\ [old EXCEPT !.job = job, !.old = force] \in Update
          /\ [old EXCEPT !.job = job, !.old = force].finished = old.finished
      BY <1>1 DEF Update, old
    <3> QED
      BY <1>5, <3>2, <3>3 DEF old
  <2> QED
    BY <2>1 DEF Job
<1>7. PICK r \in Runs :
        \/ ListTickets(r) \/ EndRun(r) \/ PauseRun(r) \/ FailRun(r) \/ Die(r)
        \/ \E t \in Tickets : SendToTicket(r, t)
  BY <1>2, <1>3, <1>4, <1>6 DEF Next, vars, Broadcast
<1>8. broadcast[r].update # 0 /\ ~ListTickets(r) /\ ~\E t \in Tickets : SendToTicket(r, t)
  BY <1>2, <1>7 DEF ListTickets, EndRun, PauseRun, FailRun, Die, SendToTicket
<1>9. broadcast[r].update \in DOMAIN updates
  BY <1>8 DEF IncidentsInv, Working
<1>10. ASSUME NEW finished \in BOOLEAN, NEW state \in {"pending", "running", "failed", "done"},
              Leave(r, finished, state)
       PROVE  broadcast[r].update = u /\ finished
  <2> DEFINE v == broadcast[r].update
             old == updates[v]
             job == IF broadcast[r].overtaken THEN old.job ELSE state
             done == old.finished \/ finished
             row == [old EXCEPT !.finished = done, !.job = job]
  <2>1. Set(v, row) /\ v \in DOMAIN updates /\ old \in Update
    BY <1>1, <1>9, <1>10 DEF Leave
  <2>2. job \in {"pending", "running", "failed", "done"} /\ done \in BOOLEAN /\ (~finished => done = old.finished)
    BY <2>1 DEF Update
  <2> HIDE DEF job, done
  <2>3. row \in Update /\ row.finished = done
    <3> HIDE DEF old
    <3> QED
      BY <2>1, <2>2 DEF Update
  <2> HIDE DEF row
  <2> QED
    BY <1>5, <2>1, <2>2, <2>3
<1> QED
  BY <1>7, <1>8, <1>10 DEF EndRun, PauseRun, FailRun, Die

(* Nobody is left open.                                                    *)
LEMMA LeavesNobody ==
  ASSUME IncidentsInv, Sizes, [Next]_vars, NEW u \in DOMAIN updates,
         updates[u].resolving, updates'[u].finished, ~updates[u].finished,
         NEW t \in Tickets, Running(t), updates[u].incident \in ticket[t].linked
  PROVE  t \in updates[u].excused
<1>1. PICK r \in Runs : broadcast[r].update = u /\ EndRun(r) /\ ~broadcast[r].waiting
  BY FinishedByEndRun
<1> QED
  BY <1>1 DEF EndRun, IncidentsInv, Fit, Behind, Member

-----------------------------------------------------------------------------
(* Types: what the invariant above does not say.                           *)

Sized == Sizes /\ PerRun \in Nat /\ MaxTurns \in Nat

\* A run looks at one list more than it needs to reach its bound; who was told has his key.
Bounds ==
    /\ \A r \in Runs : broadcast[r].done <= PerRun + Batch
    /\ told \subseteq Keys
    /\ turns \in 0 .. MaxTurns

LEMMA BoundsInit == Sized /\ Init => Bounds
BY DEF Init, Idle, Bounds, Sized, Sizes

(* How many tickets a run has looked at.                                   *)
LEMMA FewDone ==
  ASSUME IncidentsInv, Sized, Bounds, NEW r \in Runs, NEW row \in AnyRun, Hold(r, row),
         row.done <= PerRun + Batch
  PROVE  \A q \in Runs : broadcast'[q].done <= PerRun + Batch
BY HoldTyped DEF Bounds, IncidentsInv, Shape

LEMMA BoundsStep ==
  ASSUME IncidentsInv, Sized, Bounds, [Next]_vars
  PROVE  Bounds'
<1>1. /\ Shape /\ broadcast \in [Runs -> AnyRun] /\ IsFiniteSet(Tickets)
      /\ MaxUpdates \in Nat /\ PerRun \in Nat /\ Batch \in Nat /\ MaxTurns \in Nat
      /\ Idle \in AnyRun /\ Idle.done = 0
  BY IdleTyped DEF IncidentsInv, Shape, Sized, Sizes, Idle
<1>2. turns' \in 0 .. MaxTurns
  <2>1. TakeTurn \/ UNCHANGED turns
    BY DEF Next, vars, OnIncident, OnTicket, Job, Broadcast, Suggest, Create, Dismiss, Link, Post, Resolve, Reopen,
           Match, CreateTicket, Busy, CloseTicket, ReopenTicket, ChangeConsent, Unlink,
           StartJob, RecoverJob, ListTickets, EndRun, PauseRun, FailRun, Die, SendToTicket
  <2> QED
    BY <1>1, <2>1 DEF Bounds, TakeTurn
<1>3. told' \subseteq Keys
  <2>1. told' = told \/ \E r \in Runs, t \in Tickets : SendToTicket(r, t) /\ Tell(r, t)
    BY DEF Next, vars, OnIncident, OnTicket, Job, Broadcast, Suggest, Create, Dismiss, Link, Post, Resolve, Reopen,
           Match, CreateTicket, Busy, CloseTicket, ReopenTicket, ChangeConsent, Unlink,
           StartJob, RecoverJob, ListTickets, EndRun, PauseRun, FailRun, Die, Leave, SendToTicket, PassOver
  <2>2. ASSUME NEW r \in Runs, NEW t \in Tickets, SendToTicket(r, t), Tell(r, t) PROVE told' \subseteq Keys
    <3>1. broadcast[r].update \in 1 .. Len(updates) /\ Len(updates) \in Nat /\ Len(updates) <= MaxUpdates
      BY <1>1, <2>2, UpdatesTyped DEF SendToTicket, IncidentsInv, Working, Shape
    <3>2. broadcast[r].update \in 1 .. MaxUpdates
      BY <1>1, <3>1
    <3> QED
      BY <2>2, <3>2 DEF Tell, Bounds, Keys
  <2> QED
    BY <2>1, <2>2 DEF Bounds
<1>4. \A q \in Runs : broadcast'[q].done <= PerRun + Batch
  <2>1. CASE broadcast' = broadcast
    BY <2>1 DEF Bounds
  <2>2. ASSUME NEW r \in Runs, NEW row \in AnyRun, Hold(r, row), row.done \in {0, broadcast[r].done}
        PROVE  \A q \in Runs : broadcast'[q].done <= PerRun + Batch
    BY <1>1, <2>2, FewDone DEF Bounds
  <2>3. ASSUME NEW r \in Runs, NEW u \in DOMAIN updates, StartJob(r, u), broadcast' # broadcast
        PROVE  \A q \in Runs : broadcast'[q].done <= PerRun + Batch
    <3> DEFINE beside == \E q \in Runs : broadcast[q].update = u
    <3>1. PICK force \in {updates[u].old, updates[u].resolving} :
            Hold(r, [Idle EXCEPT !.update = u, !.force = force, !.beside = beside])
      BY <2>3 DEF StartJob
    <3>2. force \in BOOLEAN /\ beside \in BOOLEAN /\ u \in 0 .. MaxUpdates
      <4>1. updates[u] \in Update /\ u \in 1 .. Len(updates) /\ Len(updates) \in Nat /\ Len(updates) <= MaxUpdates
        BY <1>1, UpdatesTyped DEF Shape
      <4> QED
        BY <1>1, <4>1 DEF Update
    <3> HIDE DEF beside
    <3> DEFINE run == [Idle EXCEPT !.update = u, !.force = force, !.beside = beside]
    <3>3. run \in AnyRun /\ run.done = 0
      BY <1>1, <3>2 DEF Idle, AnyRun
    <3>4. Hold(r, run)
      BY <3>1
    <3> HIDE DEF run
    <3> QED
      BY <2>2, <3>3, <3>4
  <2>4. ASSUME NEW u \in DOMAIN updates, RecoverJob(u), NEW q \in Runs
        PROVE  broadcast'[q].done <= PerRun + Batch
    <3> DEFINE run == broadcast[q]
    <3>1. run \in AnyRun /\ run.done <= PerRun + Batch /\ broadcast'[q] \in {run, [run EXCEPT !.overtaken = TRUE]}
      BY <1>1, <2>4 DEF RecoverJob, Bounds
    <3> HIDE DEF run
    <3>2. [run EXCEPT !.overtaken = TRUE].done = run.done
      BY <3>1 DEF AnyRun
    <3> QED
      BY <3>1, <3>2
  <2>5. ASSUME NEW r \in Runs, ListTickets(r)
        PROVE  \A q \in Runs : broadcast'[q].done <= PerRun + Batch
    <3> DEFINE run == broadcast[r]
               all == Recipients(run.update) \ run.passed
    <3>1. PICK T \in SUBSET all :
            /\ Cardinality(T) = Batch \/ (T = all /\ Cardinality(all) < Batch)
            /\ Hold(r, [run EXCEPT !.listed = T, !.last = Cardinality(T) < Batch, !.done = run.done + Cardinality(T)])
      BY <2>5 DEF ListTickets
    <3>2. T \in SUBSET Tickets /\ run \in AnyRun /\ run.done < PerRun /\ run.done \in Nat
      BY <1>1, <2>5 DEF ListTickets, Recipients, AnyRun
    <3>3. Cardinality(T) \in Nat
      BY <1>1, <3>2, FS_Subset, FS_CardinalityType
    <3>4. Cardinality(T) <= Batch
      <4>1. Cardinality(T) = Batch \/ Cardinality(T) < Batch
        BY <3>1
      <4> QED BY <1>1, <3>3, <4>1
    <3> DEFINE n == Cardinality(T)  last == n < Batch  done == run.done + n
               row == [run EXCEPT !.listed = T, !.last = last, !.done = done]
    <3>5. done <= PerRun + Batch /\ done \in Nat /\ last \in BOOLEAN
      BY <1>1, <3>2, <3>3, <3>4
    <3>6. Hold(r, row)
      BY <3>1
    <3> HIDE DEF run, done, last
    <3>7. row \in AnyRun /\ row.done = done
      BY <3>2, <3>5 DEF AnyRun
    <3> HIDE DEF row
    <3> QED
      BY <3>5, <3>6, <3>7, FewDone
  <2>6. ASSUME NEW r \in Runs, EndRun(r) \/ PauseRun(r) \/ FailRun(r) \/ Die(r)
        PROVE  \A q \in Runs : broadcast'[q].done <= PerRun + Batch
    BY <1>1, <2>2, <2>6 DEF EndRun, PauseRun, FailRun, Die, Leave
  <2>7. ASSUME NEW r \in Runs, NEW t \in Tickets, SendToTicket(r, t)
        PROVE  \A q \in Runs : broadcast'[q].done <= PerRun + Batch
    <3> DEFINE run == broadcast[r]  listed == run.listed \ {t}  passed == run.passed \cup {t}
               waiting == run.waiting \/ ~Gone(run.update, t)
               passedRow == [run EXCEPT !.listed = listed, !.passed = passed, !.waiting = waiting]
               sentRow == [run EXCEPT !.listed = listed]
    <3>1. Hold(r, passedRow) \/ Hold(r, sentRow)
      BY <2>7 DEF SendToTicket, PassOver, Passed, Tell
    <3>2. run \in AnyRun /\ listed \in SUBSET Tickets /\ passed \in SUBSET Tickets /\ waiting \in BOOLEAN
      BY <1>1 DEF AnyRun
    <3> HIDE DEF run, listed, passed, waiting
    <3>3. /\ passedRow \in AnyRun /\ passedRow.done = run.done
          /\ sentRow \in AnyRun /\ sentRow.done = run.done
      BY <3>2 DEF AnyRun
    <3> HIDE DEF passedRow, sentRow
    <3> QED
      BY <2>2, <3>1, <3>3 DEF run
  <2>8. CASE OnIncident
    BY <2>1, <2>8 DEF OnIncident, Suggest, Create, Dismiss, Link, Post, Resolve, Reopen
  <2>9. CASE OnTicket
    BY <2>1, <2>9 DEF OnTicket, Match, CreateTicket, Busy, CloseTicket, ReopenTicket, ChangeConsent, Unlink
  <2>10. CASE Job
    BY <2>1, <2>3, <2>4, <2>10 DEF Job
  <2>11. CASE Broadcast
    BY <2>5, <2>6, <2>7, <2>11 DEF Broadcast
  <2>12. CASE UNCHANGED vars
    BY <2>1, <2>12 DEF vars
  <2> QED
    BY <2>8, <2>9, <2>10, <2>11, <2>12 DEF Next
<1> QED
  BY <1>2, <1>3, <1>4 DEF Bounds

LEMMA Typed == IncidentsInv /\ Sized /\ Bounds => TypeOK
<1> SUFFICES ASSUME IncidentsInv, Sized, Bounds PROVE TypeOK
  OBVIOUS
<1>1. Shape /\ PerRun + Batch \in Nat /\ MaxUpdates \in Nat
  BY DEF IncidentsInv, Sized, Sizes
<1>2. ASSUME NEW r \in Runs PROVE broadcast[r] \in Run
  <2>1. broadcast[r] \in AnyRun /\ broadcast[r].done <= PerRun + Batch
    BY <1>1 DEF Shape, Bounds
  <2>2. broadcast[r].done \in 0 .. PerRun + Batch
    BY <1>1, <2>1 DEF AnyRun
  <2> QED
    BY <2>1, <2>2 DEF AnyRun, Run
<1>3. broadcast \in [Runs -> Run]
  BY <1>1, <1>2 DEF Shape
<1>4. Len(updates) <= MaxUpdates /\ \A u \in DOMAIN updates : updates[u] \in Update
  BY <1>1, UpdatesTyped DEF Shape
<1> QED
  BY <1>1, <1>3, <1>4 DEF Shape, Bounds, TypeOK
=============================================================================
