-------------------------------- MODULE Sla --------------------------------
(***************************************************************************)
(* The two clocks of a ticket: the time to the first answer and the time   *)
(* to the solution, both counted in working time of a calendar.  The clock *)
(* of the solution stands still while the ticket waits for the client.     *)
(* Deadlines are kept as instants and computed anew when the clock goes on *)
(* again, is given other targets, or the ticket is reopened; a timer looks *)
(* at the ticket when sla_next_check_at has come.                          *)
(*                                                                         *)
(* Every step is one transaction with the row of the ticket locked, except *)
(* Tick.  worked and overran are history: the working time a clock has run *)
(* counted tick by tick, and whether it has ever reached its target.       *)
(***************************************************************************)
EXTENDS Integers, Sequences, FiniteSets

CONSTANTS
    Classes,        \* urgencies a ticket may be given
    Targets,        \* class -> the minutes of each clock; 0 where there is no policy
    Calendars,      \* the calendars looked at
    DayLength,      \* minutes of a day (1440)
    SearchDays,     \* MAX_SEARCH_DAYS (3700)
    MaxTime,        \* bound: minutes
    MaxTurns        \* bound: turns, of the kinds that TakeTurn lets happen

Clocks == {"response", "resolution"}
Never  == -1

\* warning, breach, escalation
Stages == 0 .. 3
Breached == 2

VARIABLES calendar, now, enabled, ticket, turns

vars == <<calendar, now, enabled, ticket, turns>>

Marks == {"reopened_off", "closed_waiting"}

Times == Nat \cup {Never}

Ticket == [status   : {"open", "in_progress", "awaiting_rating", "closed"},
           class    : Classes,
           answered : BOOLEAN,          \* first_responded_at is set
           started  : Times,            \* resolution_started_at
           since    : Times,            \* waiting_since
           paused   : 0 .. MaxTime,     \* sla_paused_seconds
           minutes  : [Clocks -> Nat],
           warn     : [Clocks -> Times],
           due      : [Clocks -> Times],
           stage    : [Clocks -> Stages],
           next     : Times,            \* sla_next_check_at
           breached : SUBSET Clocks,
           worked   : [Clocks -> 0 .. MaxTime],
           overran  : SUBSET Clocks,
           marks    : SUBSET Marks]     \* history, see the properties

TypeOK ==
    /\ calendar \in Calendars /\ now \in 0 .. MaxTime /\ enabled \in BOOLEAN
    /\ ticket \in Ticket
    /\ turns \in 0 .. MaxTurns

-----------------------------------------------------------------------------
(* Working time.  A calendar has the intervals of each day of the week,    *)
(* holidays, and days off on which people work as on a regular day.        *)

Larger(a, b)  == IF a > b THEN a ELSE b
Smaller(a, b) == IF a < b THEN a ELSE b

Weekday(cal, day) == (day % Len(cal.week)) + 1

RegularWorkday(cal) ==
    LET full == {w \in DOMAIN cal.week : cal.week[w] # <<>>}
    IN IF full = {} THEN <<>> ELSE cal.week[CHOOSE w \in full : \A v \in full : w <= v]

\* What assertValidWeek lets through: the intervals of a day are in order and do not overlap.
ValidHours(hours) ==
    /\ hours \in Seq([from : Nat, to : Nat])
    /\ \A n \in DOMAIN hours : hours[n].from < hours[n].to /\ hours[n].to <= DayLength
    /\ \A n, m \in DOMAIN hours : n < m => hours[n].to <= hours[m].from

ValidCalendar(cal) ==
    /\ DOMAIN cal.week = 1 .. Len(cal.week) /\ Len(cal.week) \in Nat \ {0}
    /\ \A w \in DOMAIN cal.week : ValidHours(cal.week[w])

\* A policy has both targets, and the one of the first answer is not the larger one.
ValidTargets ==
    /\ Targets \in [Classes -> [Clocks -> Nat]]
    /\ \A class \in Classes :
          /\ Targets[class]["response"] = 0 <=> Targets[class]["resolution"] = 0
          /\ Targets[class]["response"] <= Targets[class]["resolution"]

\* The working intervals of a day, as instants.
WorkIntervals(cal, day) ==
    LET hours == CASE day \in cal.holidays                          -> <<>>
                   [] day \in cal.workdays \ cal.holidays           -> RegularWorkday(cal)
                   [] day \notin cal.workdays \cup cal.holidays     -> cal.week[Weekday(cal, day)]
    IN [n \in DOMAIN hours |-> [open  |-> day * DayLength + hours[n].from,
                                close |-> day * DayLength + hours[n].to]]

HasWorkingTime(cal) == RegularWorkday(cal) # <<>> \/ cal.workdays # {}

DayOf(time) == time \div DayLength

SpansFrom(cal, time, days) ==
    LET spans[n \in 0 .. days] ==
            IF n = 0 THEN <<>> ELSE spans[n - 1] \o WorkIntervals(cal, DayOf(time) + n - 1)
    IN spans[days]

\* A step of the search: left is what is still to run, at the instant once it is found.
Searched(found, span, start) ==
    LET begin == Larger(span.open, start) IN
    CASE found.at # Never \/ span.close <= start -> found
      [] found.at = Never /\ span.close > start /\ begin + found.left <= span.close
            -> [found EXCEPT !.at = begin + found.left]
      [] OTHER -> [found EXCEPT !.left = @ - (span.close - begin)]

Search(start, minutes, spans) ==
    LET search[n \in 0 .. Len(spans)] ==
            IF n = 0 THEN [left |-> minutes, at |-> Never] ELSE Searched(search[n - 1], spans[n], start)
    IN search[Len(spans)].at

\* The warning is of a share of the target: rounded down to a minute here.
AddBusinessTime(cal, start, minutes) ==
    LET at == Search(start, minutes, SpansFrom(cal, start, SearchDays))
    IN IF ~HasWorkingTime(cal) \/ at = Never THEN start + minutes ELSE at

\* The days searched are enough for every target and pause; past them the minutes count as they pass.
EnoughTime(cal) ==
    HasWorkingTime(cal) =>
        \A class \in Classes, start \in 0 .. MaxTime :
            \A minutes \in 1 .. Targets[class]["resolution"] + MaxTime :
                Search(start, minutes, SpansFrom(cal, start, SearchDays)) # Never

Overlap_Signed(span, start, end) ==     \* variant: an interval outside counts as negative
    Smaller(span.close, end) - Larger(span.open, start)

Overlap(span, start, end) == Larger(0, Smaller(span.close, end) - Larger(span.open, start))

Total(start, end, spans) ==
    LET total[n \in 0 .. Len(spans)] == IF n = 0 THEN 0 ELSE total[n - 1] + Overlap(spans[n], start, end)
    IN total[Len(spans)]

BusinessMinutesBetween_Wall(cal, start, end) == end - start     \* variant: all the time that passed

BusinessMinutesBetween(cal, start, end) ==
    IF end <= start \/ ~HasWorkingTime(cal) THEN Larger(0, end - start)
    ELSE LET days == Smaller(DayOf(end) - DayOf(start) + 1, SearchDays)
         IN Total(start, end, SpansFrom(cal, start, days))

IsWorkingTime(cal, time) ==
    ~HasWorkingTime(cal)
    \/ \E n \in DOMAIN WorkIntervals(cal, DayOf(time)) :
          LET s == WorkIntervals(cal, DayOf(time))[n] IN s.open <= time /\ time < s.close

-----------------------------------------------------------------------------
(* Setting the clocks.                                                     *)

Warning(minutes) == (3 * minutes) \div 4

\* Clock c of row t is due after the given minutes from start on; target is what is shown.
Timed(t, c, start, minutes, target) ==
    [t EXCEPT !.minutes[c] = target,
              !.warn[c]    = AddBusinessTime(calendar, start, Warning(minutes)),
              !.due[c]     = AddBusinessTime(calendar, start, minutes)]

Untimed(t, c) == [t EXCEPT !.minutes[c] = 0, !.warn[c] = Never, !.due[c] = Never]

\* The ticket was created at 0; its class may have no policy.
ResponseTimed(t) ==
    LET target == Targets[t.class]["response"]
    IN IF target = 0 THEN Untimed(t, "response") ELSE Timed(t, "response", 0, target, target)

ResolutionTimed(t, target) ==
    IF target = 0 THEN Untimed(t, "resolution")
    ELSE Timed(t, "resolution", t.started, target + t.paused, target)

Running(t) == t.status \in {"open", "in_progress"}

\* reclassifySla: what is not over gets its targets anew, if SLA is on.
Reclassified(t, on) ==
    LET response   == IF ~t.answered /\ t.stage["response"] < Breached THEN ResponseTimed(t) ELSE t
        resolution == IF t.stage["resolution"] < Breached
                      THEN ResolutionTimed(response, Targets[t.class]["resolution"]) ELSE response
    IN IF on /\ Running(t) THEN [resolution EXCEPT !.next = now] ELSE t

Paused(t) == [t EXCEPT !.since = now, !.next = now]

Resumed(t) ==
    LET row == [t EXCEPT !.since = Never, !.next = now,
                         !.paused = @ + BusinessMinutesBetween(calendar, t.since, now)]
    IN IF t.minutes["resolution"] # 0 /\ t.stage["resolution"] < Breached
       THEN ResolutionTimed(row, t.minutes["resolution"]) ELSE row

Stopped_Waiting(t) ==       \* variant: as if the clock ran while the ticket waits
    [t EXCEPT !.since = Never, !.next = Never,
              !.breached = IF t.due["resolution"] # Never /\ t.due["resolution"] < now
                           THEN @ \cup {"resolution"} ELSE @]

\* stopSla: it still sees whether the ticket was waiting.
Stopped(t) ==
    [t EXCEPT !.since = Never, !.next = Never,
              !.breached = IF t.due["resolution"] # Never /\ t.due["resolution"] < now /\ t.since = Never
                           THEN @ \cup {"resolution"} ELSE @]

Restarted(t) ==
    LET row == [t EXCEPT !.started = now, !.paused = 0, !.stage["resolution"] = 0, !.since = Never,
                         !.warn["resolution"] = Never, !.due["resolution"] = Never, !.next = now,
                         !.worked["resolution"] = 0]
        target == Targets[t.class]["resolution"]
    IN IF enabled /\ target # 0 THEN ResolutionTimed(row, target) ELSE row

Init ==
    /\ calendar \in Calendars
    /\ now = 0
    /\ enabled \in BOOLEAN
    /\ \E class \in Classes :
         LET row == [status |-> "open", class |-> class, answered |-> FALSE, started |-> 0, since |-> Never,
                     paused |-> 0, minutes |-> [c \in Clocks |-> 0], warn |-> [c \in Clocks |-> Never],
                     due |-> [c \in Clocks |-> Never], stage |-> [c \in Clocks |-> 0], next |-> Never,
                     breached |-> {}, worked |-> [c \in Clocks |-> 0], overran |-> {}, marks |-> {}]
             timed == ResolutionTimed(ResponseTimed(row), Targets[class]["resolution"])
         IN ticket = IF enabled /\ Targets[class]["response"] # 0
                     THEN [timed EXCEPT !.next = Smaller(timed.warn["response"], timed.warn["resolution"])]
                     ELSE row
    /\ turns = 0

-----------------------------------------------------------------------------
(* What happens to the ticket.  Overran keeps the history.                 *)

Counted(t) == [t EXCEPT !.overran = @ \cup {c \in Clocks : t.minutes[c] # 0 /\ t.worked[c] >= t.minutes[c]}]

Becomes(t) == ticket' = Counted(t) /\ UNCHANGED <<calendar, now, enabled>>

TakeTurn == turns < MaxTurns /\ turns' = turns + 1

Tick ==
    /\ now < MaxTime
    /\ now' = now + 1
    /\ LET ticks == {c \in Clocks : IsWorkingTime(calendar, now) /\ (c = "resolution" => ticket.since = Never)}
       IN ticket' = Counted([ticket EXCEPT !.worked = [c \in Clocks |-> IF c \in ticks THEN @[c] + 1 ELSE @[c]]])
    /\ UNCHANGED <<calendar, enabled, turns>>

Assign  == ticket.status = "open" /\ Becomes([ticket EXCEPT !.status = "in_progress"]) /\ UNCHANGED turns

\* A released ticket goes on waiting for the client.
Release == ticket.status = "in_progress" /\ Becomes([ticket EXCEPT !.status = "open"]) /\ TakeTurn

Classify ==
    /\ Running(ticket)
    /\ \E class \in Classes \ {ticket.class} : Becomes(Reclassified([ticket EXCEPT !.class = class], enabled))
    /\ TakeTurn

\* A reply of the staff was delivered (recordOutcome), maybe after the ticket was closed.
MarkFirstResponse ==
    /\ ~ticket.answered
    /\ Becomes([ticket EXCEPT !.answered = TRUE, !.next = now,
                              !.breached = IF ticket.due["response"] # Never /\ ticket.due["response"] < now
                                           THEN @ \cup {"response"} ELSE @])
    /\ UNCHANGED turns

Wait ==
    /\ ticket.status = "in_progress" /\ ticket.since = Never
    /\ TakeTurn
    /\ Becomes(Paused(ticket))

\* The staff ends the waiting, or the client writes (also to a released ticket).
Resume ==
    /\ Running(ticket) /\ ticket.since # Never
    /\ Becomes(Resumed(ticket)) /\ UNCHANGED turns

Close ==
    /\ ticket.status = "in_progress"
    /\ Becomes(Stopped([ticket EXCEPT !.status = "awaiting_rating"])) /\ UNCHANGED turns

AutoClose ==
    /\ ticket.status = "in_progress" /\ ticket.since # Never
    /\ Becomes([Stopped(ticket) EXCEPT !.status = "closed"]) /\ UNCHANGED turns

\* closeForIncident forgets that the ticket waits before it stops the clock.
CloseForIncident ==
    /\ Running(ticket)
    /\ \E status \in {"awaiting_rating", "closed"} :
         Becomes(Stopped([ticket EXCEPT !.status = status, !.since = Never,
                                        !.marks = IF ticket.since # Never THEN @ \cup {"closed_waiting"}
                                                  ELSE @]))
    /\ TakeTurn

FinishRating ==
    /\ ticket.status = "awaiting_rating"
    /\ Becomes([ticket EXCEPT !.status = "closed"]) /\ UNCHANGED turns

Reopen ==
    /\ ~Running(ticket)
    /\ TakeTurn
    /\ Becomes([Restarted(ticket) EXCEPT !.status = "in_progress",
                                         !.marks = IF ~enabled /\ \E c \in Clocks : ticket.minutes[c] # 0
                                                   THEN @ \cup {"reopened_off"} ELSE @])

\* saveSlaConfig: the targets and the calendar stay.  It takes no lock of a client; that it may fall into
\* a command that has read the settings before is left out (see README).
Switch ==
    /\ TakeTurn
    /\ enabled' = ~enabled
    /\ ticket' =
         CASE enabled /\ Running(ticket) ->
                [Untimed(Untimed(ticket, "response"), "resolution") EXCEPT !.next = Never]
           [] ~enabled /\ Running(ticket) /\ \A c \in Clocks : ticket.minutes[c] = 0 ->
                Counted(Reclassified(ticket, TRUE))
           [] OTHER -> ticket
    /\ UNCHANGED <<calendar, now>>

-----------------------------------------------------------------------------
(* The timer.                                                              *)

Active(t, c) ==
    /\ Running(t)
    /\ t.minutes[c] # 0 /\ t.warn[c] # Never /\ t.due[c] # Never
    /\ IF c = "response" THEN ~t.answered ELSE t.since = Never

Checkpoints(t, c) == <<t.warn[c], t.due[c], AddBusinessTime(calendar, t.due[c], t.minutes[c])>>

Stage(t, c) == Larger(t.stage[c], Cardinality({n \in 1 .. 3 : Checkpoints(t, c)[n] <= now}))

NextCheck_Last(t, clocks) ==        \* variant: the later clock decides
    LET ahead == {Checkpoints(t, c)[Stage(t, c) + 1] : c \in {k \in clocks : Stage(t, k) < 3}}
    IN IF ahead = {} THEN Never ELSE CHOOSE p \in ahead : \A q \in ahead : p >= q

NextCheck(t, clocks) ==
    LET ahead == {Checkpoints(t, c)[Stage(t, c) + 1] : c \in {k \in clocks : Stage(t, k) < 3}}
    IN IF ahead = {} THEN Never ELSE CHOOSE p \in ahead : \A q \in ahead : p <= q

CheckTicket ==
    /\ ticket.next # Never /\ ticket.next <= now
    /\ LET clocks == IF enabled THEN {c \in Clocks : Active(ticket, c)} ELSE {}
       IN Becomes([ticket EXCEPT
                      !.stage    = [c \in Clocks |-> IF c \in clocks THEN Stage(ticket, c) ELSE @[c]],
                      !.breached = @ \cup {c \in clocks : Stage(ticket, c) >= Breached},
                      !.next     = NextCheck(ticket, clocks)])
    /\ UNCHANGED turns

Next ==
    \/ Tick
    \/ Assign
    \/ Release
    \/ Classify
    \/ MarkFirstResponse
    \/ Wait
    \/ Resume
    \/ Close
    \/ AutoClose
    \/ CloseForIncident
    \/ FinishRating
    \/ Reopen
    \/ Switch
    \/ CheckTicket

Spec == Init /\ [][Next]_vars

-----------------------------------------------------------------------------
(* Properties.                                                             *)

\* However often a ticket waits, is released, gets another urgency, or SLA is switched off and on, the
\* deadline of its solution has come exactly when the clock has run its target in working time.
ClockIsFair ==
    Active(ticket, "resolution") /\ ticket.stage["resolution"] < Breached =>
        (now >= ticket.due["resolution"] <=> ticket.worked["resolution"] >= ticket.minutes["resolution"])

\* A clock that runs is never forgotten: the timer looks at the ticket no later than at its next stage.
\* (Not so for a ticket reopened while SLA was switched off, see README.)
ChecksAreScheduled ==
    \A c \in Clocks :
        enabled /\ Active(ticket, c) /\ ticket.stage[c] < 3 /\ "reopened_off" \notin ticket.marks =>
            ticket.next # Never /\ ticket.next <= Larger(now, Checkpoints(ticket, c)[ticket.stage[c] + 1])

\* A ticket is counted as breached only if the clock did reach its target.
\* (Not so for a ticket that an incident closes while it waits for the client, see README.)
BreachIsTrue == "closed_waiting" \notin ticket.marks => ticket.breached \subseteq ticket.overran
=============================================================================
