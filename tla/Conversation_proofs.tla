------------------------- MODULE Conversation_proofs -------------------------
(***************************************************************************)
(* What holds of the conversation for every number of inputs, closings,    *)
(* replies and editions.  A step takes the rows db through the operators   *)
(* of Conversation, so the invariant is a predicate of rows, Good(d), and  *)
(* there is one lemma per operator: it keeps Good.                         *)
(***************************************************************************)
EXTENDS Conversation, SequenceTheorems, FiniteSetTheorems, WellFoundedInduction, TLAPS

-----------------------------------------------------------------------------
(* The invariant.                                                          *)

AnyTicket == Nat \ {0}

AnyCycle == [ticket : AnyTicket, expired : BOOLEAN, attempts : 0 .. MaxAttempts,
             finished : Reasons, invalidated : BOOLEAN, before : 0 .. MaxInputs]

AnyMessage == [ticket : Nat, text : 0 .. MaxInputs]

AnyDelivery == [kind : {"staff", "ticket_closed", "auto_closed"}, number : 0 .. MaxReplies,
                ticket : AnyTicket, cycle : 0 .. MaxCycles,
                state : {"queued", "sending", "delivered", "undelivered"}]

AnyClosing == [ticket : AnyTicket, lifecycle : Nat, reply : 1 .. MaxReplies,
               read : BOOLEAN, fresh : BOOLEAN]

Revision == [input : 1 .. MaxInputs, target : 1 .. MaxInputs]

\* The types of the rows, without the bounds on tickets and buttons: these need counting, see Brought.
Typed(d) ==
    /\ d \in [policy : Editions, client : Client, buttons : [Buttons -> Nat], buffer : Seq(Buffered),
              inbox : Seq(Input), ticket : Seq(Ticket), cycle : Seq(AnyCycle),
              message : [1 .. MaxInputs -> AnyMessage], out : SUBSET AnyDelivery,
              replies : 0 .. MaxReplies, closing : SUBSET AnyClosing, revising : SUBSET Revision]
    /\ Len(d.buffer) <= MaxBuffered /\ Len(d.inbox) <= MaxInputs /\ Len(d.cycle) <= MaxCycles

Working == {"open", "in_progress"}

OneOpen(d)     == \A t, u \in Unclosed(d) : t = u
WithConsent(d) == Unclosed(d) # {} => d.client.state = "granted"

\* A ticket that is worked on has no cycle, one that waits for its rating has the last one.
Cycled(d) ==
    \A t \in Tickets(d) :
        /\ d.ticket[t].cycle \in 0 .. Len(d.cycle)
        /\ d.ticket[t].status \in Working => d.ticket[t].cycle = 0
        /\ d.ticket[t].status = "awaiting_rating" =>
              /\ d.ticket[t].cycle = Len(d.cycle) /\ Len(d.cycle) # 0
              /\ d.cycle[Len(d.cycle)].finished = ""

Counted(d) ==
    \A c \in DOMAIN d.cycle :
        /\ d.cycle[c].ticket \in Tickets(d)
        /\ ~d.cycle[c].invalidated => d.ticket[d.cycle[c].ticket].cycle = c

Messaged(d) ==
    \A i \in 1 .. MaxInputs :
        /\ d.message[i].ticket \in 0 .. Len(d.ticket)
        /\ d.message[i].ticket = 0 => d.message[i].text = 0

Emptied(d) ==
    d.client.erased =>
        /\ d.client.state = "withdrawn"
        /\ \A i \in 1 .. MaxInputs : d.message[i].text = 0
        /\ d.buffer = <<>> /\ Pending(d) = {} /\ Unclosed(d) = {}
        /\ \A c \in DOMAIN d.cycle : d.cycle[c].invalidated

\* A job that has read the current version of its ticket may close it.
Ordered(d) ==
    \A j \in d.closing :
        /\ j.ticket \in Tickets(d)
        /\ j.fresh => /\ j.read
                      /\ d.ticket[j.ticket].status = "in_progress"
                      /\ d.ticket[j.ticket].lifecycle = j.lifecycle

\* What an input that is not handled yet says fits its kind.
Handleable(d) ==
    \A i \in Pending(d) :
        /\ d.inbox[i].kind = "edit"  => d.inbox[i].target # 0
        /\ d.inbox[i].kind = "press" => d.inbox[i].button \in Buttons

\* The rating a pending input was received for is the one that is asked for, if one is and was not
\* asked over this input; inputs that came after the end of a rating come after those that came before.
Asking(d) ==
    \A i \in Pending(d) :
        /\ d.inbox[i].asked \in 0 .. Len(d.cycle)
        /\ d.inbox[i].asked # 0 /\ ~d.inbox[i].late =>
              d.cycle[d.inbox[i].asked].finished \notin {"expired", "notification_not_delivered"}
        /\ d.inbox[i].late =>
              /\ d.inbox[i].asked # 0
              /\ \A k \in Pending(d) : i < k /\ d.inbox[k].asked = d.inbox[i].asked => d.inbox[k].late
        /\ \A t \in Tickets(d) : d.ticket[t].status = "awaiting_rating" =>
              /\ d.inbox[i].asked = Len(d.cycle) \/ i <= d.cycle[Len(d.cycle)].before
              /\ d.inbox[i].late /\ d.inbox[i].asked = Len(d.cycle) => d.cycle[Len(d.cycle)].expired

\* What the client has written since the ticket began to wait is still to be handled.
Heard(d) ==
    \A t \in Tickets(d) : d.ticket[t].status \in Working /\ d.ticket[t].heard =>
        /\ d.ticket[t].waiting
        /\ \E i \in Pending(d) : d.inbox[i].kind \in {"text", "rating"}

\* A job has its reply, the only one with its number, and reads its ticket after the delivery.
Answering(d) ==
    /\ \A r \in d.out : r.kind = "staff" => r.number \in 1 .. d.replies
    /\ \A r, q \in d.out : r.kind = "staff" /\ q.kind = "staff" /\ r.number = q.number => r = q
    /\ \A j \in d.closing :
          \E r \in d.out : r.kind = "staff" /\ r.number = j.reply /\ (j.read => r.state = "delivered")

Addressed(d) == \A r \in d.out : r.ticket \in Tickets(d) /\ r.cycle \in 0 .. Len(d.cycle)

Good(d) ==
    /\ Typed(d)
    /\ OneOpen(d) /\ WithConsent(d)
    /\ Cycled(d) /\ Counted(d)
    /\ Messaged(d) /\ Emptied(d)
    /\ Ordered(d)
    /\ Handleable(d) /\ Asking(d) /\ Heard(d)
    /\ Answering(d) /\ Addressed(d)

-----------------------------------------------------------------------------
(* The ticket that is not closed, and the rating that is asked for.        *)

LEMMA Domains ==
  ASSUME NEW d, Typed(d)
  PROVE  /\ Len(d.ticket) \in Nat /\ Tickets(d) = 1 .. Len(d.ticket)
         /\ Len(d.cycle) \in Nat /\ DOMAIN d.cycle = 1 .. Len(d.cycle)
         /\ Len(d.inbox) \in Nat /\ DOMAIN d.inbox = 1 .. Len(d.inbox)
         /\ Len(d.buffer) \in Nat /\ DOMAIN d.buffer = 1 .. Len(d.buffer)
         /\ \A t \in Tickets(d) : d.ticket[t] \in Ticket
         /\ \A c \in DOMAIN d.cycle : d.cycle[c] \in AnyCycle
         /\ \A i \in DOMAIN d.inbox : d.inbox[i] \in Input
         /\ \A b \in DOMAIN d.buffer : d.buffer[b] \in Buffered
<1>1. d.ticket \in Seq(Ticket) /\ d.cycle \in Seq(AnyCycle) /\ d.inbox \in Seq(Input)
        /\ d.buffer \in Seq(Buffered)
  BY DEF Typed
<1> QED BY <1>1, LenProperties, ElementOfSeq DEF Tickets

LEMMA CurrentIs ==
  ASSUME NEW d, Typed(d), OneOpen(d)
  PROVE  /\ Current(d) = 0 <=> Unclosed(d) = {}
         /\ \A t \in Unclosed(d) : Current(d) = t
         /\ Current(d) # 0 => Current(d) \in Unclosed(d)
<1>1. \A t \in Unclosed(d) : t # 0 /\ Current(d) = t
  BY Domains DEF Current, OneOpen, Unclosed
<1> QED BY <1>1 DEF Current

LEMMA AskedIs ==
  ASSUME NEW d, Typed(d), OneOpen(d), Cycled(d)
  PROVE  /\ \A t \in Tickets(d) : d.ticket[t].status = "awaiting_rating" =>
                Current(d) = t /\ Asked(d) = Len(d.cycle) /\ Asked(d) # 0
         /\ Asked(d) # 0 =>
                /\ Current(d) \in Unclosed(d)
                /\ d.ticket[Current(d)].status = "awaiting_rating"
                /\ d.ticket[Current(d)].cycle = Asked(d) /\ Asked(d) = Len(d.cycle)
                /\ Asked(d) \in DOMAIN d.cycle
<1>1. \A t \in Tickets(d) : d.ticket[t].status = "awaiting_rating" =>
        Current(d) = t /\ Asked(d) = Len(d.cycle) /\ Asked(d) # 0
  BY CurrentIs, Domains DEF Asked, Unclosed, Cycled
<1>2. ASSUME Asked(d) # 0
      PROVE  /\ Current(d) \in Unclosed(d)
             /\ d.ticket[Current(d)].status = "awaiting_rating"
             /\ d.ticket[Current(d)].cycle = Asked(d)
  BY <1>2, CurrentIs DEF Asked
<1>3. Asked(d) # 0 => Asked(d) = Len(d.cycle) /\ Asked(d) \in DOMAIN d.cycle
  BY <1>1, <1>2, Domains DEF Unclosed
<1> QED BY <1>1, <1>2, <1>3

-----------------------------------------------------------------------------
(* Steps that change little.                                               *)

\* The inbox and what the tickets and cycles say of ratings stay; versions become outdated, cycles
\* invalidated, texts erased.
Quiet(d, e) ==
    /\ e.inbox = d.inbox
    /\ e.client.state \in {d.client.state, "granted"} \/ Unclosed(d) = {}
    /\ e.client.erased =>
          /\ d.client.erased /\ e.client.state = d.client.state
          /\ e.buffer = <<>> /\ \A i \in 1 .. MaxInputs : e.message[i].text = 0
    /\ Len(e.ticket) = Len(d.ticket)
    /\ \A t \in Tickets(d) :
          /\ e.ticket[t].cycle = d.ticket[t].cycle
          /\ \/ e.ticket[t].status = d.ticket[t].status
             \/ e.ticket[t].status \in Working /\ d.ticket[t].status \in Working
          /\ e.ticket[t].heard => d.ticket[t].heard /\ e.ticket[t].waiting = d.ticket[t].waiting
    /\ Len(e.cycle) = Len(d.cycle)
    /\ \A c \in DOMAIN d.cycle :
          /\ e.cycle[c].ticket = d.cycle[c].ticket
          /\ e.cycle[c].finished = d.cycle[c].finished
          /\ d.cycle[c].expired => e.cycle[c].expired
          /\ d.cycle[c].invalidated => e.cycle[c].invalidated
          /\ e.cycle[c].before = d.cycle[c].before

\* The jobs are the same, or wait for the next reading.
StillOrdered(d, e) ==
    \A k \in e.closing : \E j \in d.closing :
        /\ k.ticket = j.ticket /\ k.lifecycle = j.lifecycle /\ k.reply = j.reply
        /\ k.read => j.read
        /\ k.fresh => /\ j.fresh /\ k.read
                      /\ e.ticket[j.ticket].status = d.ticket[j.ticket].status
                      /\ e.ticket[j.ticket].lifecycle = d.ticket[j.ticket].lifecycle

LEMMA OrderedStays ==
  ASSUME NEW d, NEW e, Ordered(d), Tickets(e) = Tickets(d), StillOrdered(d, e)
  PROVE  Ordered(e)
<1> SUFFICES ASSUME NEW k \in e.closing
             PROVE  /\ k.ticket \in Tickets(e)
                    /\ k.fresh => /\ k.read
                                  /\ e.ticket[k.ticket].status = "in_progress"
                                  /\ e.ticket[k.ticket].lifecycle = k.lifecycle
  BY DEF Ordered
<1>1. PICK j \in d.closing :
        /\ k.ticket = j.ticket /\ k.lifecycle = j.lifecycle
        /\ k.fresh => /\ j.fresh /\ k.read
                      /\ e.ticket[j.ticket].status = d.ticket[j.ticket].status
                      /\ e.ticket[j.ticket].lifecycle = d.ticket[j.ticket].lifecycle
  BY DEF StillOrdered
<1> QED BY <1>1 DEF Ordered

LEMMA AnsweringStays ==
  ASSUME NEW d, NEW e, Answering(d), e.out = d.out, e.replies = d.replies, StillOrdered(d, e)
  PROVE  Answering(e)
<1>1. ASSUME NEW k \in e.closing
      PROVE  \E r \in e.out : r.kind = "staff" /\ r.number = k.reply /\ (k.read => r.state = "delivered")
  <2>1. PICK j \in d.closing : k.reply = j.reply /\ (k.read => j.read)
    BY DEF StillOrdered
  <2> QED BY <2>1 DEF Answering
<1> QED BY <1>1 DEF Answering

\* A quiet step keeps the parts about consent, tickets, cycles and the inbox.
LEMMA QuietKeeps ==
  ASSUME NEW d, NEW e, Good(d), Typed(e), Quiet(d, e), StillOrdered(d, e),
         Messaged(e), Answering(e), Addressed(e)
  PROVE  Good(e)
<1>1. Typed(d) /\ OneOpen(d) /\ WithConsent(d) /\ Cycled(d) /\ Counted(d) /\ Emptied(d) /\ Ordered(d)
        /\ Handleable(d) /\ Asking(d) /\ Heard(d)
  BY DEF Good
<1>2. /\ Tickets(e) = Tickets(d) /\ Tickets(d) = 1 .. Len(d.ticket)
      /\ DOMAIN e.cycle = DOMAIN d.cycle /\ DOMAIN d.cycle = 1 .. Len(d.cycle)
      /\ Len(d.cycle) \in Nat
  BY <1>1, Domains DEF Quiet
<1>3. /\ Len(e.cycle) = Len(d.cycle)
       /\ \A t \in Tickets(d) :
             /\ e.ticket[t].cycle = d.ticket[t].cycle
             /\ \/ e.ticket[t].status = d.ticket[t].status
                \/ e.ticket[t].status \in Working /\ d.ticket[t].status \in Working
       /\ \A c \in DOMAIN d.cycle : /\ e.cycle[c].ticket = d.cycle[c].ticket
                                    /\ e.cycle[c].finished = d.cycle[c].finished
                                    /\ d.cycle[c].invalidated => e.cycle[c].invalidated
  BY DEF Quiet
<1>4. Pending(e) = Pending(d)
  BY DEF Quiet, Pending
<1>5. Unclosed(e) = Unclosed(d)
  BY <1>2 DEF Quiet, Unclosed, Working
<1>6. OneOpen(e)
  BY <1>1, <1>5 DEF OneOpen
<1>7. WithConsent(e)
  BY <1>1, <1>5 DEF WithConsent, Quiet
<1>8. Cycled(e)
  <2>1. ASSUME NEW t \in Tickets(d)
        PROVE  /\ e.ticket[t].cycle \in 0 .. Len(e.cycle)
               /\ e.ticket[t].status \in Working => e.ticket[t].cycle = 0
               /\ e.ticket[t].status = "awaiting_rating" =>
                      /\ e.ticket[t].cycle = Len(e.cycle) /\ Len(e.cycle) # 0
                      /\ e.cycle[Len(e.cycle)].finished = ""
    <3>1. /\ d.ticket[t].cycle \in 0 .. Len(d.cycle)
          /\ d.ticket[t].status \in Working => d.ticket[t].cycle = 0
          /\ d.ticket[t].status = "awaiting_rating" =>
                /\ d.ticket[t].cycle = Len(d.cycle) /\ Len(d.cycle) # 0
                /\ d.cycle[Len(d.cycle)].finished = ""
      BY <1>1 DEF Cycled
    <3>2. Len(d.cycle) # 0 => Len(d.cycle) \in DOMAIN d.cycle
      BY <1>2
    <3> QED BY <1>3, <3>1, <3>2 DEF Working
  <2> QED BY <2>1, <1>2 DEF Cycled
<1>9. Counted(e)
  <2>1. ASSUME NEW c \in DOMAIN d.cycle
        PROVE  /\ e.cycle[c].ticket \in Tickets(d)
               /\ ~e.cycle[c].invalidated => e.ticket[e.cycle[c].ticket].cycle = c
    <3>1. /\ d.cycle[c].ticket \in Tickets(d)
          /\ ~d.cycle[c].invalidated => d.ticket[d.cycle[c].ticket].cycle = c
      BY <1>1 DEF Counted
    <3> QED BY <1>3, <3>1
  <2> QED BY <2>1, <1>2 DEF Counted
<1>10. Emptied(e)
  BY <1>1, <1>2, <1>4, <1>5 DEF Quiet, Emptied
<1>11. Ordered(e)
  BY <1>1, <1>2, OrderedStays
<1>12. Handleable(e)
  BY <1>1, <1>4 DEF Handleable, Quiet
<1>13. Asking(e)
  <2> SUFFICES ASSUME NEW i \in Pending(e)
      PROVE  /\ e.inbox[i].asked \in 0 .. Len(e.cycle)
             /\ e.inbox[i].asked # 0 /\ ~e.inbox[i].late =>
                   e.cycle[e.inbox[i].asked].finished \notin {"expired", "notification_not_delivered"}
             /\ e.inbox[i].late =>
                   /\ e.inbox[i].asked # 0
                   /\ \A k \in Pending(e) : i < k /\ e.inbox[k].asked = e.inbox[i].asked => e.inbox[k].late
             /\ \A t \in Tickets(e) : e.ticket[t].status = "awaiting_rating" =>
                   /\ e.inbox[i].asked = Len(e.cycle) \/ i <= e.cycle[Len(e.cycle)].before
                   /\ e.inbox[i].late /\ e.inbox[i].asked = Len(e.cycle) => e.cycle[Len(e.cycle)].expired
    BY DEF Asking
  <2>1. e.inbox = d.inbox /\ Len(e.cycle) = Len(d.cycle)
    BY DEF Quiet
  <2>2. e.inbox[i].asked # 0 => e.inbox[i].asked \in DOMAIN d.cycle
    BY <1>1, <1>2, <1>4, <2>1 DEF Asking
  <2>3. e.inbox[i].asked # 0 /\ ~e.inbox[i].late =>
          e.cycle[e.inbox[i].asked].finished \notin {"expired", "notification_not_delivered"}
    BY <1>1, <1>4, <2>1, <2>2 DEF Asking, Quiet
  <2>4. \A t \in Tickets(e) : e.ticket[t].status = "awaiting_rating" =>
          d.ticket[t].status = "awaiting_rating" /\ Len(d.cycle) \in DOMAIN d.cycle
    <3>1. \A t \in Tickets(d) : d.ticket[t].status = "awaiting_rating" => Len(d.cycle) # 0
      BY <1>1 DEF Cycled
    <3> QED BY <1>2, <1>3, <3>1 DEF Working
  <2>5. \A t \in Tickets(e) : e.ticket[t].status = "awaiting_rating" =>
          /\ e.inbox[i].asked = Len(e.cycle) \/ i <= e.cycle[Len(e.cycle)].before
          /\ e.inbox[i].late /\ e.inbox[i].asked = Len(e.cycle) => e.cycle[Len(e.cycle)].expired
    BY <1>1, <1>2, <1>4, <2>1, <2>4 DEF Asking, Quiet
  <2> QED BY <1>1, <1>4, <2>1, <2>3, <2>5 DEF Asking
<1>14. Heard(e)
  <2>1. ASSUME NEW t \in Tickets(d), e.ticket[t].status \in Working, e.ticket[t].heard
        PROVE  e.ticket[t].waiting /\ \E i \in Pending(e) : e.inbox[i].kind \in {"text", "rating"}
    BY <1>1, <1>4, <2>1 DEF Quiet, Heard, Working
  <2> QED BY <1>2, <2>1 DEF Heard
<1> QED BY <1>6, <1>7, <1>8, <1>9, <1>10, <1>11, <1>12, <1>13, <1>14 DEF Good

-----------------------------------------------------------------------------
(* Reading and changing rows.                                              *)

\* No rating is answered, and none is begun.
Unanswered(d, e) ==
    /\ Len(e.cycle) = Len(d.cycle)
    /\ \A c \in DOMAIN d.cycle :
          /\ e.cycle[c].attempts <= d.cycle[c].attempts
          /\ e.cycle[c].finished \in {"rated", "attempts_exhausted"} =>
                e.cycle[c].finished = d.cycle[c].finished

LEMMA NothingAnswered ==
  ASSUME NEW d, NEW e, Typed(d), e.cycle = d.cycle
  PROVE  Unanswered(d, e)
<1>1. \A c \in DOMAIN d.cycle : d.cycle[c].attempts \in Nat
  BY Domains DEF AnyCycle
<1> QED BY <1>1 DEF Unanswered

LEMMA OutdatedJobs ==
  ASSUME NEW jobs \in SUBSET AnyClosing, NEW t
  PROVE  /\ Outdated(jobs, t) \in SUBSET AnyClosing
         /\ \A k \in Outdated(jobs, t) : \E j \in jobs :
               /\ k.ticket = j.ticket /\ k.lifecycle = j.lifecycle /\ k.reply = j.reply
               /\ k.read = j.read
               /\ k.fresh => j.fresh /\ j.ticket # t
<1> SUFFICES ASSUME NEW k \in Outdated(jobs, t)
             PROVE  /\ k \in AnyClosing
                    /\ \E j \in jobs :
                         /\ k.ticket = j.ticket /\ k.lifecycle = j.lifecycle /\ k.reply = j.reply
                         /\ k.read = j.read
                         /\ k.fresh => j.fresh /\ j.ticket # t
  OBVIOUS
<1>1. PICK j \in jobs : k = IF j.ticket = t THEN [j EXCEPT !.fresh = FALSE] ELSE j
  BY DEF Outdated
<1>2. j \in AnyClosing
  OBVIOUS
<1> QED BY <1>1, <1>2 DEF AnyClosing

LEMMA TouchKeeps ==
  ASSUME NEW d, Good(d), NEW t
  PROVE  Good(Touch(d, t)) /\ Touch(d, t) = [d EXCEPT !.closing = Touch(d, t).closing]
<1> DEFINE e == Touch(d, t)
<1>1. Typed(d) /\ d.closing \in SUBSET AnyClosing
  BY DEF Good, Typed
<1>2. e.closing = Outdated(d.closing, t) /\ e = [d EXCEPT !.closing = Outdated(d.closing, t)]
  BY <1>1 DEF Touch, Typed
<1>3. Outdated(d.closing, t) \in SUBSET AnyClosing
  BY <1>1, OutdatedJobs
<1>4. /\ e.inbox = d.inbox /\ e.client = d.client /\ e.ticket = d.ticket /\ e.cycle = d.cycle
      /\ e.buffer = d.buffer /\ e.message = d.message /\ e.out = d.out /\ e.replies = d.replies
  BY <1>1, <1>2 DEF Typed
<1>5. Typed(e)
  BY <1>1, <1>2, <1>3 DEF Typed
<1> HIDE DEF e
<1>6. StillOrdered(d, e)
  <2> SUFFICES ASSUME NEW k \in e.closing
               PROVE  \E j \in d.closing :
                         /\ k.ticket = j.ticket /\ k.lifecycle = j.lifecycle /\ k.reply = j.reply
                         /\ k.read => j.read
                         /\ k.fresh => j.fresh /\ k.read
    BY <1>4 DEF StillOrdered
  <2>1. PICK j \in d.closing :
               /\ k.ticket = j.ticket /\ k.lifecycle = j.lifecycle /\ k.reply = j.reply
               /\ k.read = j.read
               /\ k.fresh => j.fresh /\ j.ticket # t
    BY <1>1, <1>2, OutdatedJobs
  <2>2. j.fresh => j.read
    BY DEF Good, Ordered
  <2> QED BY <2>1, <2>2
<1>7. Messaged(e) /\ Answering(e) /\ Addressed(e)
  BY <1>4, <1>6, AnsweringStays DEF Good, Messaged, Addressed, Tickets
<1>8. Quiet(d, e)
  BY <1>4 DEF Quiet, Good, Emptied
<1>9. Good(e)
  BY <1>5, <1>6, <1>7, <1>8, QuietKeeps
<1> QED BY <1>2, <1>9 DEF e

\* The new row of a ticket that stays in work, in its rating or closed.
LEMMA ChangeKeeps ==
  ASSUME NEW d, Good(d), NEW t \in Tickets(d), NEW row \in Ticket,
         row.cycle = d.ticket[t].cycle,
         \/ row.status = d.ticket[t].status
         \/ row.status \in Working /\ d.ticket[t].status \in Working,
         row.heard => d.ticket[t].heard /\ row.waiting = d.ticket[t].waiting
  PROVE  /\ Good(Change(d, t, row))
         /\ Change(d, t, row) = [d EXCEPT !.ticket = [d.ticket EXCEPT ![t] = row],
                                          !.closing = Outdated(d.closing, t)]
<1> DEFINE e == Change(d, t, row)
<1>1. Typed(d) /\ d.closing \in SUBSET AnyClosing /\ d.ticket \in Seq(Ticket)
  BY DEF Good, Typed
<1>2. e = [d EXCEPT !.ticket = [d.ticket EXCEPT ![t] = row], !.closing = Outdated(d.closing, t)]
  BY <1>1 DEF Change, Typed
<1>3. Outdated(d.closing, t) \in SUBSET AnyClosing
  BY <1>1, OutdatedJobs
<1>4. t \in 1 .. Len(d.ticket) /\ Tickets(d) = 1 .. Len(d.ticket)
  BY <1>1, Domains
<1>5. /\ [d.ticket EXCEPT ![t] = row] \in Seq(Ticket)
      /\ Len([d.ticket EXCEPT ![t] = row]) = Len(d.ticket)
      /\ \A u \in 1 .. Len(d.ticket) : [d.ticket EXCEPT ![t] = row][u] = IF u = t THEN row ELSE d.ticket[u]
  BY <1>1, <1>4, ExceptSeq
<1>6. /\ e.inbox = d.inbox /\ e.client = d.client /\ e.cycle = d.cycle
      /\ e.buffer = d.buffer /\ e.message = d.message /\ e.out = d.out /\ e.replies = d.replies
      /\ e.ticket = [d.ticket EXCEPT ![t] = row] /\ e.closing = Outdated(d.closing, t)
  BY <1>1, <1>2 DEF Typed
<1>7. Typed(e)
  <2> DEFINE rows == [d.ticket EXCEPT ![t] = row]
             jobs == Outdated(d.closing, t)
  <2>1. e = [d EXCEPT !.ticket = rows, !.closing = jobs]
    BY <1>2
  <2>2. rows \in Seq(Ticket) /\ jobs \in SUBSET AnyClosing
    BY <1>3, <1>5
  <2> HIDE DEF e, rows, jobs
  <2> QED BY <1>1, <2>1, <2>2 DEF Typed
<1> HIDE DEF e
<1>8. Tickets(e) = Tickets(d)
  BY <1>4, <1>5, <1>6 DEF Tickets
<1>9. StillOrdered(d, e)
  <2> SUFFICES ASSUME NEW k \in e.closing
               PROVE  \E j \in d.closing :
                         /\ k.ticket = j.ticket /\ k.lifecycle = j.lifecycle /\ k.reply = j.reply
                         /\ k.read => j.read
                         /\ k.fresh => /\ j.fresh /\ k.read
                                       /\ e.ticket[j.ticket].status = d.ticket[j.ticket].status
                                       /\ e.ticket[j.ticket].lifecycle = d.ticket[j.ticket].lifecycle
    BY DEF StillOrdered
  <2>1. PICK j \in d.closing :
               /\ k.ticket = j.ticket /\ k.lifecycle = j.lifecycle /\ k.reply = j.reply
               /\ k.read = j.read
               /\ k.fresh => j.fresh /\ j.ticket # t
    BY <1>1, <1>6, OutdatedJobs
  <2>2. (j.fresh => j.read) /\ j.ticket \in Tickets(d)
    BY DEF Good, Ordered
  <2> QED BY <1>4, <1>5, <1>6, <2>1, <2>2
<1>10. Messaged(e) /\ Answering(e) /\ Addressed(e)
  BY <1>5, <1>6, <1>8, <1>9, AnsweringStays DEF Good, Messaged, Addressed
<1>11. Quiet(d, e)
  <2>1. \A u \in Tickets(d) :
          /\ e.ticket[u].cycle = d.ticket[u].cycle
          /\ \/ e.ticket[u].status = d.ticket[u].status
             \/ e.ticket[u].status \in Working /\ d.ticket[u].status \in Working
          /\ e.ticket[u].heard => d.ticket[u].heard /\ e.ticket[u].waiting = d.ticket[u].waiting
    BY <1>4, <1>5, <1>6
  <2>2. e.client.erased => d.buffer = <<>> /\ \A i \in 1 .. MaxInputs : d.message[i].text = 0
    BY <1>6 DEF Good, Emptied
  <2> QED BY <1>5, <1>6, <2>1, <2>2 DEF Quiet
<1>12. Good(e)
  BY <1>7, <1>9, <1>10, <1>11, QuietKeeps
<1> QED BY <1>2, <1>12 DEF e

\* A job's reply stays as long as the job is there, and as it is once it is delivered.
LEMMA SettleKeeps ==
  ASSUME NEW d, Good(d), NEW S, S \subseteq {r \in d.out : r.state # "delivered"},
         NEW state \in {"queued", "sending", "delivered", "undelivered"}
  PROVE  Good(Settle(d, S, state)) /\ Settle(d, S, state) = [d EXCEPT !.out = Settle(d, S, state).out]
<1> DEFINE e == Settle(d, S, state)
<1> DEFINE new == {r \in (d.out \ S) \cup {[q EXCEPT !.state = state] : q \in S} : Kept(d, r)}
<1>1. Typed(d) /\ d.out \in SUBSET AnyDelivery
  BY DEF Good, Typed
<1>2. e = [d EXCEPT !.out = new] /\ e.out = new
  BY <1>1 DEF Settle, Typed
<1>3. \A r \in new : \E q \in d.out :
         /\ (r = q /\ q \notin S) \/ (r = [q EXCEPT !.state = state] /\ q \in S)
         /\ r \in AnyDelivery
         /\ r.kind = q.kind /\ r.number = q.number /\ r.ticket = q.ticket /\ r.cycle = q.cycle
  <2>1. \A q \in S : /\ q \in d.out /\ [q EXCEPT !.state = state] \in AnyDelivery
                     /\ [q EXCEPT !.state = state].kind = q.kind
                     /\ [q EXCEPT !.state = state].number = q.number
                     /\ [q EXCEPT !.state = state].ticket = q.ticket
                     /\ [q EXCEPT !.state = state].cycle = q.cycle
    BY <1>1 DEF AnyDelivery
  <2>2. \A r \in new : \/ r \in d.out /\ r \notin S
                       \/ \E q \in S : r = [q EXCEPT !.state = state]
    OBVIOUS
  <2> HIDE DEF new
  <2> SUFFICES ASSUME NEW r \in new
               PROVE  \E q \in d.out :
                         /\ (r = q /\ q \notin S) \/ (r = [q EXCEPT !.state = state] /\ q \in S)
                         /\ r \in AnyDelivery
                         /\ r.kind = q.kind /\ r.number = q.number
                         /\ r.ticket = q.ticket /\ r.cycle = q.cycle
    OBVIOUS
  <2>3. CASE r \in d.out /\ r \notin S
    BY <1>1, <2>3
  <2>4. ASSUME NEW q \in S, r = [q EXCEPT !.state = state]
        PROVE  \E q0 \in d.out :
                  /\ (r = q0 /\ q0 \notin S) \/ (r = [q0 EXCEPT !.state = state] /\ q0 \in S)
                  /\ r \in AnyDelivery
                  /\ r.kind = q0.kind /\ r.number = q0.number
                  /\ r.ticket = q0.ticket /\ r.cycle = q0.cycle
    BY <2>1, <2>4
  <2> QED BY <2>2, <2>3, <2>4
<1>4. \A q \in d.out : q \notin S /\ Kept(d, q) => q \in new
  OBVIOUS
<1>5. \A j \in d.closing, q \in d.out : q.kind = "staff" /\ j.reply = q.number => Kept(d, q)
  BY DEF Kept
<1>6. \A j \in d.closing, q \in d.out : q \in S /\ q.kind = "staff" /\ j.reply = q.number =>
        [q EXCEPT !.state = state] \in new
  <2> SUFFICES ASSUME NEW j \in d.closing, NEW q \in d.out, q \in S, q.kind = "staff", j.reply = q.number
               PROVE  [q EXCEPT !.state = state] \in new
    OBVIOUS
  <2>1. [q EXCEPT !.state = state].kind = "staff" /\ [q EXCEPT !.state = state].number = q.number
    BY <1>1 DEF AnyDelivery
  <2>2. Kept(d, [q EXCEPT !.state = state])
    BY <2>1 DEF Kept
  <2> QED BY <2>2
<1>7. \A q \in S : /\ [q EXCEPT !.state = state].kind = q.kind
                   /\ [q EXCEPT !.state = state].number = q.number
                   /\ q \in d.out /\ q.state # "delivered"
  BY <1>1 DEF AnyDelivery
<1> HIDE DEF new
<1>8. /\ e.inbox = d.inbox /\ e.client = d.client /\ e.ticket = d.ticket /\ e.cycle = d.cycle
      /\ e.buffer = d.buffer /\ e.message = d.message /\ e.closing = d.closing
      /\ e.replies = d.replies
  BY <1>1, <1>2 DEF Typed
<1>9. new \in SUBSET AnyDelivery
  BY <1>3
<1>10. Typed(e)
  BY <1>1, <1>2, <1>9 DEF Typed
<1> HIDE DEF e
<1>11. Answering(e)
  <2>1. \A r \in new : r.kind = "staff" => r.number \in 1 .. d.replies
    BY <1>3 DEF Good, Answering
  <2>2. ASSUME NEW r \in new, NEW q \in new, r.kind = "staff", q.kind = "staff", r.number = q.number
        PROVE  r = q
    <3>1. PICK r0 \in d.out : /\ (r = r0 /\ r0 \notin S) \/ (r = [r0 EXCEPT !.state = state] /\ r0 \in S)
                              /\ r.kind = r0.kind /\ r.number = r0.number
      BY <1>3
    <3>2. PICK q0 \in d.out : /\ (q = q0 /\ q0 \notin S) \/ (q = [q0 EXCEPT !.state = state] /\ q0 \in S)
                              /\ q.kind = q0.kind /\ q.number = q0.number
      BY <1>3
    <3>3. r0 = q0
      BY <2>2, <3>1, <3>2 DEF Good, Answering
    <3> QED BY <3>1, <3>2, <3>3
  <2>3. ASSUME NEW j \in d.closing
        PROVE  \E r \in new : r.kind = "staff" /\ r.number = j.reply /\ (j.read => r.state = "delivered")
    <3>1. PICK q \in d.out : q.kind = "staff" /\ q.number = j.reply /\ (j.read => q.state = "delivered")
      BY DEF Good, Answering
    <3>2. CASE q \in S
      BY <1>6, <1>7, <3>1, <3>2
    <3>3. CASE q \notin S
      BY <1>4, <1>5, <3>1, <3>3
    <3> QED BY <3>2, <3>3
  <2> QED BY <1>2, <1>8, <2>1, <2>2, <2>3 DEF Answering
<1>12. Addressed(e)
  BY <1>2, <1>3, <1>8 DEF Addressed, Good, Tickets
<1>13. Messaged(e) /\ Quiet(d, e)
  BY <1>8 DEF Quiet, Good, Emptied, Messaged
<1>14. StillOrdered(d, e)
  <2>1. \A j \in d.closing : j.fresh => j.read
    BY DEF Good, Ordered
  <2> QED BY <1>8, <2>1 DEF StillOrdered
<1>15. Good(e)
  BY <1>10, <1>11, <1>12, <1>13, <1>14, QuietKeeps
<1> QED BY <1>2, <1>15 DEF e

LEMMA CancelKeeps ==
  ASSUME NEW d, Good(d)
  PROVE  /\ Good(CancelClientDeliveries(d))
         /\ CancelClientDeliveries(d) = [d EXCEPT !.out = CancelClientDeliveries(d).out]
         /\ \A c : /\ Good(CancelCycleDeliveries(d, c))
                   /\ CancelCycleDeliveries(d, c) = [d EXCEPT !.out = CancelCycleDeliveries(d, c).out]
<1>1. Queued(d) \subseteq {r \in d.out : r.state # "delivered"}
  BY DEF Queued
<1>2. \A c : {r \in Queued(d) : r.cycle = c} \subseteq {r \in d.out : r.state # "delivered"}
  BY <1>1
<1> QED BY <1>1, <1>2, SettleKeeps DEF CancelClientDeliveries, CancelCycleDeliveries

-----------------------------------------------------------------------------
(* Consent.                                                                *)

LEMMA MapIsSeq ==
  ASSUME NEW S, NEW n \in Nat, NEW f \in [1 .. n -> S]
  PROVE  f \in Seq(S) /\ Len(f) = n
BY IsASeq DEF Seq

\* The rows beside the inbox, the tickets and what belongs to them.
Beside(d, e) ==
    /\ e.inbox = d.inbox /\ e.ticket = d.ticket /\ e.cycle = d.cycle /\ e.message = d.message
    /\ e.out = d.out /\ e.replies = d.replies /\ e.closing = d.closing

LEMMA BesideKeeps ==
  ASSUME NEW d, NEW e, Good(d), Typed(e), Beside(d, e),
         e.client.state \in {d.client.state, "granted"} \/ Unclosed(d) = {},
         e.client.erased => d.client.erased /\ e.client.state = d.client.state /\ e.buffer = <<>>
  PROVE  Good(e) /\ e.inbox = d.inbox /\ Unanswered(d, e)
<1>1. Typed(d) /\ Emptied(d) /\ Ordered(d) /\ Messaged(d) /\ Answering(d) /\ Addressed(d)
  BY DEF Good
<1>2. /\ e.inbox = d.inbox /\ e.ticket = d.ticket /\ e.cycle = d.cycle /\ e.message = d.message
      /\ e.out = d.out /\ e.replies = d.replies /\ e.closing = d.closing
  BY DEF Beside
<1>3. Quiet(d, e)
  BY <1>1, <1>2 DEF Quiet, Emptied
<1>4. StillOrdered(d, e)
  BY <1>1, <1>2 DEF StillOrdered, Ordered
<1>5. Messaged(e) /\ Answering(e) /\ Addressed(e)
  BY <1>1, <1>2 DEF Messaged, Answering, Addressed, Tickets
<1> QED BY <1>1, <1>2, <1>3, <1>4, <1>5, QuietKeeps, NothingAnswered

LEMMA BufferKeeps ==
  ASSUME NEW d, Good(d), ~d.client.erased, NEW i \in 1 .. MaxInputs, NEW kind \in Messages
  PROVE  Good(Buffer(d, i, kind)) /\ Beside(d, Buffer(d, i, kind))
            /\ Buffer(d, i, kind).client = d.client
<1> DEFINE row == [input |-> i, kind |-> kind]
<1>1. Typed(d) /\ d.buffer \in Seq(Buffered) /\ row \in Buffered
  BY DEF Good, Typed, Buffered
<1>2. CASE Len(d.buffer) < MaxBuffered
  <2> DEFINE e == [d EXCEPT !.buffer = Append(d.buffer, row)]
  <2>1. Buffer(d, i, kind) = e
    BY <1>1, <1>2 DEF Buffer, Typed
  <2>2. Append(d.buffer, row) \in Seq(Buffered) /\ Len(Append(d.buffer, row)) = Len(d.buffer) + 1
    BY <1>1, AppendProperties
  <2>3. Len(d.buffer) + 1 <= MaxBuffered
    BY <1>1, <1>2, Domains, BoundsAssumption
  <2> HIDE DEF row
  <2>4. Typed(e)
    BY <1>1, <2>2, <2>3 DEF Typed
  <2>5. Beside(d, e) /\ e.client = d.client
    BY <1>1 DEF Typed, Beside
  <2> HIDE DEF e
  <2>6. Good(e)
    BY <2>4, <2>5, BesideKeeps
  <2> QED BY <2>1, <2>5, <2>6
<1>3. CASE ~(Len(d.buffer) < MaxBuffered)
  BY <1>3 DEF Buffer, Beside
<1> QED BY <1>2, <1>3

LEMMA OfferKeeps ==
  ASSUME NEW d, Good(d), NEW actions
  PROVE  Good(Offer(d, actions)) /\ Beside(d, Offer(d, actions))
            /\ Offer(d, actions).client = d.client
<1> DEFINE new == [b \in Buttons |-> IF b \in actions \X {d.policy} THEN d.buttons[b] + 1
                                     ELSE d.buttons[b]]
<1> DEFINE e == [d EXCEPT !.buttons = new]
<1>1. Typed(d) /\ d.buttons \in [Buttons -> Nat]
  BY DEF Good, Typed
<1>2. Offer(d, actions) = e
  BY <1>1 DEF Offer, Typed
<1>3. new \in [Buttons -> Nat]
  BY <1>1
<1> HIDE DEF new
<1>4. Typed(e)
  BY <1>1, <1>3 DEF Typed
<1>5. Beside(d, e) /\ e.client = d.client /\ e.buffer = d.buffer
  BY <1>1 DEF Typed, Beside
<1> HIDE DEF e
<1>6. Good(e)
  BY <1>4, <1>5, BesideKeeps DEF Good, Emptied
<1> QED BY <1>2, <1>5, <1>6

LEMMA PressedKeeps ==
  ASSUME NEW d, Good(d), NEW b \in Buttons, d.buttons[b] # 0
  PROVE  Good(Pressed(d, b)) /\ Beside(d, Pressed(d, b))
            /\ Pressed(d, b).client = d.client /\ Pressed(d, b).policy = d.policy
            /\ Pressed(d, b).buffer = d.buffer
<1> DEFINE new == [d.buttons EXCEPT ![b] = d.buttons[b] - 1]
<1> DEFINE e == [d EXCEPT !.buttons = new]
<1>1. Typed(d) /\ d.buttons \in [Buttons -> Nat]
  BY DEF Good, Typed
<1>2. Pressed(d, b) = e
  BY <1>1 DEF Pressed, Typed
<1>3. new \in [Buttons -> Nat]
  BY <1>1
<1> HIDE DEF new
<1>4. Typed(e)
  BY <1>1, <1>3 DEF Typed
<1>5. Beside(d, e) /\ e.client = d.client /\ e.buffer = d.buffer /\ e.policy = d.policy
  BY <1>1 DEF Typed, Beside
<1> HIDE DEF e
<1>6. Good(e)
  BY <1>4, <1>5, BesideKeeps DEF Good, Emptied
<1> QED BY <1>2, <1>5, <1>6

LEMMA GrantKeeps ==
  ASSUME NEW d, Good(d), ~d.client.erased
  PROVE  /\ Good(GrantConsent(d)) /\ Beside(d, GrantConsent(d))
         /\ GrantConsent(d).client.state = "granted" /\ ~GrantConsent(d).client.erased
         /\ GrantConsent(d).buffer = d.buffer
<1> DEFINE new == [d.client EXCEPT !.state = "granted", !.edition = d.policy, !.revision = d.client.revision + 1]
<1> DEFINE e == [d EXCEPT !.client = new]
<1>1. Typed(d) /\ d.client \in Client /\ d.policy \in Editions
  BY DEF Good, Typed
<1>2. GrantConsent(d) = e
  BY <1>1 DEF GrantConsent, Typed, Client
<1>3. new \in Client /\ new.state = "granted" /\ ~new.erased
  <2> DEFINE rev == d.client.revision + 1
  <2>1. rev \in Nat /\ d.policy \in 0 .. Policies
    BY <1>1, BoundsAssumption DEF Client, Editions
  <2>2. new = [d.client EXCEPT !.state = "granted", !.edition = d.policy, !.revision = rev]
    OBVIOUS
  <2> HIDE DEF rev, new
  <2> QED BY <1>1, <2>1, <2>2 DEF Client
<1> HIDE DEF new
<1>4. Typed(e)
  BY <1>1, <1>3 DEF Typed
<1>5. Beside(d, e) /\ e.client = new /\ e.buffer = d.buffer
  BY <1>1 DEF Typed, Beside
<1> HIDE DEF e
<1>6. Good(e)
  BY <1>3, <1>4, <1>5, BesideKeeps
<1> QED BY <1>2, <1>3, <1>5, <1>6

LEMMA DeclineKeeps ==
  ASSUME NEW d, Good(d), ~d.client.erased
  PROVE  Good(DeclineConsent(d)) /\ Beside(d, DeclineConsent(d))
<1> DEFINE e == [d EXCEPT !.client = [d.client EXCEPT !.state = "declined"], !.buffer = <<>>]
<1>1. Typed(d) /\ d.client \in Client
  BY DEF Good, Typed
<1>2. CASE d.client.state # "granted"
  <2>1. DeclineConsent(d) = e
    BY <1>1, <1>2 DEF DeclineConsent, Typed
  <2>2. [d.client EXCEPT !.state = "declined"] \in Client /\ ~[d.client EXCEPT !.state = "declined"].erased
    BY <1>1 DEF Client
  <2>3. <<>> \in Seq(Buffered) /\ Len(<<>>) = 0 /\ 0 <= MaxBuffered
    BY EmptySeq, BoundsAssumption
  <2>4. Typed(e)
    BY <1>1, <2>2, <2>3 DEF Typed
  <2>5. Beside(d, e) /\ ~e.client.erased
    BY <1>1, <2>2 DEF Typed, Beside
  <2> HIDE DEF e
  <2>6. Unclosed(d) = {}
    BY <1>2 DEF Good, WithConsent
  <2>7. Good(e)
    BY <2>4, <2>5, <2>6, BesideKeeps
  <2> QED BY <2>1, <2>5, <2>7
<1>3. CASE d.client.state = "granted"
  BY <1>3 DEF DeclineConsent, Beside
<1> QED BY <1>2, <1>3

LEMMA ForgetKeeps ==
  ASSUME NEW d, Good(d)
  PROVE  LET e == ForgetPending(d)
         IN /\ Good(e)
            /\ e.inbox = d.inbox /\ e.ticket = d.ticket /\ e.cycle = d.cycle /\ e.message = d.message
            /\ e.replies = d.replies /\ e.closing = d.closing /\ e.client = d.client
            /\ e.buffer = <<>>
<1> DEFINE e == [d EXCEPT !.buffer = <<>>, !.buttons = [b \in Buttons |-> 0]]
<1>1. Typed(d)
  BY DEF Good
<1>2. [b \in Buttons |-> 0] \in [Buttons -> Nat] /\ <<>> \in Seq(Buffered)
        /\ Len(<<>>) = 0 /\ 0 <= MaxBuffered
  BY EmptySeq, BoundsAssumption
<1>3. Typed(e)
  BY <1>1, <1>2 DEF Typed
<1>4. Beside(d, e) /\ e.client = d.client /\ e.buffer = <<>>
  BY <1>1 DEF Typed, Beside
<1> HIDE DEF e
<1>5. Good(e)
  BY <1>3, <1>4, BesideKeeps
<1> DEFINE f == CancelClientDeliveries(e)
<1>6. Good(f) /\ f = [e EXCEPT !.out = f.out]
  BY <1>5, CancelKeeps
<1>7. ForgetPending(d) = f
  BY DEF ForgetPending, e
<1> HIDE DEF f
<1>8. Typed(e)
  BY <1>3
<1>9. /\ f.inbox = e.inbox /\ f.ticket = e.ticket /\ f.cycle = e.cycle /\ f.message = e.message
      /\ f.replies = e.replies /\ f.closing = e.closing /\ f.client = e.client
      /\ f.buffer = e.buffer
  BY <1>6, <1>8 DEF Typed
<1> QED BY <1>4, <1>6, <1>7, <1>9 DEF Beside

-----------------------------------------------------------------------------
(* Withdrawal and erasure.                                                 *)

Marked(cycles, T) ==
    [c \in DOMAIN cycles |-> IF cycles[c].ticket \in T
                             THEN [cycles[c] EXCEPT !.invalidated = TRUE] ELSE cycles[c]]

LEMMA MarkedRows ==
  ASSUME NEW cycles \in Seq(AnyCycle), NEW T
  PROVE  /\ Marked(cycles, T) \in Seq(AnyCycle) /\ Len(Marked(cycles, T)) = Len(cycles)
         /\ \A c \in DOMAIN cycles :
               /\ Marked(cycles, T)[c].ticket = cycles[c].ticket
               /\ Marked(cycles, T)[c].finished = cycles[c].finished
               /\ Marked(cycles, T)[c].expired = cycles[c].expired
               /\ Marked(cycles, T)[c].attempts = cycles[c].attempts
               /\ Marked(cycles, T)[c].before = cycles[c].before
               /\ cycles[c].invalidated => Marked(cycles, T)[c].invalidated
               /\ cycles[c].ticket \in T => Marked(cycles, T)[c].invalidated
<1> DEFINE e == Marked(cycles, T)
<1>1. Len(cycles) \in Nat /\ DOMAIN cycles = 1 .. Len(cycles)
        /\ \A c \in DOMAIN cycles : cycles[c] \in AnyCycle
  BY LenProperties, ElementOfSeq
<1>2. ASSUME NEW c \in DOMAIN cycles
      PROVE  /\ e[c] \in AnyCycle
             /\ e[c].ticket = cycles[c].ticket /\ e[c].finished = cycles[c].finished
             /\ e[c].expired = cycles[c].expired /\ e[c].attempts = cycles[c].attempts
             /\ e[c].before = cycles[c].before
             /\ cycles[c].invalidated => e[c].invalidated
             /\ cycles[c].ticket \in T => e[c].invalidated
  <2> DEFINE row == cycles[c]
  <2>1. e[c] = IF row.ticket \in T THEN [row EXCEPT !.invalidated = TRUE] ELSE row
    BY DEF Marked
  <2>2. row \in AnyCycle
    BY <1>1
  <2> HIDE DEF row, e
  <2>3. /\ e[c] \in AnyCycle
        /\ e[c].ticket = row.ticket /\ e[c].finished = row.finished
        /\ e[c].expired = row.expired /\ e[c].attempts = row.attempts
        /\ e[c].before = row.before
        /\ row.invalidated => e[c].invalidated
        /\ row.ticket \in T => e[c].invalidated
    BY <2>1, <2>2 DEF AnyCycle
  <2> QED BY <2>3 DEF row
<1>3. e \in [1 .. Len(cycles) -> AnyCycle]
  BY <1>1, <1>2 DEF Marked
<1>4. e \in Seq(AnyCycle) /\ Len(e) = Len(cycles)
  BY <1>1, <1>3, MapIsSeq
<1> QED BY <1>2, <1>4

LEMMA InvalidateKeeps ==
  ASSUME NEW d, Good(d), NEW T
  PROVE  /\ Good(Invalidate(d, T)) /\ Invalidate(d, T).inbox = d.inbox
         /\ Unanswered(d, Invalidate(d, T))
         /\ Invalidate(d, T) = [d EXCEPT !.cycle = Invalidate(d, T).cycle]
         /\ \A c \in DOMAIN d.cycle : /\ Invalidate(d, T).cycle[c].ticket = d.cycle[c].ticket
                                      /\ d.cycle[c].invalidated => Invalidate(d, T).cycle[c].invalidated
                                      /\ d.cycle[c].ticket \in T => Invalidate(d, T).cycle[c].invalidated
<1> DEFINE new == Marked(d.cycle, T)
<1> DEFINE e == [d EXCEPT !.cycle = new]
<1>1. Typed(d) /\ Emptied(d) /\ Ordered(d) /\ Messaged(d) /\ Answering(d) /\ Addressed(d)
        /\ d.cycle \in Seq(AnyCycle)
  BY DEF Good, Typed
<1>2. Invalidate(d, T) = e
  BY <1>1 DEF Invalidate, Typed, Marked
<1>3. /\ new \in Seq(AnyCycle) /\ Len(new) = Len(d.cycle)
      /\ \A c \in DOMAIN d.cycle :
            /\ new[c].ticket = d.cycle[c].ticket /\ new[c].finished = d.cycle[c].finished
            /\ new[c].expired = d.cycle[c].expired /\ new[c].attempts = d.cycle[c].attempts
            /\ new[c].before = d.cycle[c].before
            /\ d.cycle[c].invalidated => new[c].invalidated
            /\ d.cycle[c].ticket \in T => new[c].invalidated
  BY <1>1, MarkedRows
<1> HIDE DEF new
<1>4. Typed(e)
  BY <1>1, <1>3 DEF Typed
<1>5. /\ e.inbox = d.inbox /\ e.ticket = d.ticket /\ e.cycle = new /\ e.message = d.message
      /\ e.out = d.out /\ e.replies = d.replies /\ e.closing = d.closing /\ e.client = d.client
      /\ e.buffer = d.buffer
  BY <1>1 DEF Typed
<1>6. e = [d EXCEPT !.cycle = e.cycle]
  BY <1>5
<1> HIDE DEF e
<1>7. Quiet(d, e)
  BY <1>1, <1>3, <1>5 DEF Quiet, Emptied
<1>8. StillOrdered(d, e) /\ Messaged(e) /\ Answering(e) /\ Addressed(e)
  BY <1>1, <1>3, <1>5 DEF StillOrdered, Ordered, Messaged, Answering, Addressed, Tickets
<1>9. Unanswered(d, e)
  <2>1. \A c \in DOMAIN d.cycle : d.cycle[c].attempts \in Nat
    BY <1>1, Domains DEF AnyCycle
  <2> QED BY <1>3, <1>5, <2>1 DEF Unanswered
<1> QED BY <1>2, <1>3, <1>4, <1>5, <1>6, <1>7, <1>8, <1>9, QuietKeeps

\* Every ticket is closed, no closing counts any more, and no job holds a current version.
AllOver(d, e) ==
    /\ Len(e.ticket) = Len(d.ticket)
    /\ \A t \in Tickets(d) : e.ticket[t].status = "closed" /\ e.ticket[t].cycle = d.ticket[t].cycle
    /\ Len(e.cycle) = Len(d.cycle)
    /\ \A c \in DOMAIN d.cycle : /\ e.cycle[c].ticket = d.cycle[c].ticket
                                 /\ e.cycle[c].finished = d.cycle[c].finished
                                 /\ e.cycle[c].invalidated
    /\ \A k \in e.closing : ~k.fresh

LEMMA OverKeeps ==
  ASSUME NEW d, NEW e, Good(d), Typed(e), AllOver(d, e), StillOrdered(d, e),
         e.inbox = d.inbox \/ Pending(e) = {},
         Messaged(e), Answering(e), Addressed(e),
         e.client.erased => /\ e.client.state = "withdrawn" /\ e.buffer = <<>> /\ Pending(e) = {}
                            /\ \A i \in 1 .. MaxInputs : e.message[i].text = 0
  PROVE  Good(e)
<1>1. Typed(d) /\ Cycled(d) /\ Counted(d) /\ Ordered(d) /\ Handleable(d) /\ Asking(d)
  BY DEF Good
<1>2. /\ Tickets(e) = Tickets(d) /\ Tickets(d) = 1 .. Len(d.ticket)
      /\ DOMAIN e.cycle = DOMAIN d.cycle /\ DOMAIN d.cycle = 1 .. Len(d.cycle)
      /\ Len(d.cycle) \in Nat
  BY <1>1, Domains DEF AllOver
<1>3. \A t \in Tickets(e) : e.ticket[t].status = "closed"
  BY <1>2 DEF AllOver
<1>4. Unclosed(e) = {}
  BY <1>3 DEF Unclosed
<1>5. OneOpen(e) /\ WithConsent(e)
  BY <1>4 DEF OneOpen, WithConsent
<1>6. Cycled(e)
  BY <1>1, <1>2, <1>3 DEF Cycled, Working, AllOver
<1>7. Counted(e)
  BY <1>1, <1>2 DEF Counted, AllOver
<1>8. Emptied(e)
  BY <1>2, <1>4 DEF Emptied, AllOver
<1>9. Ordered(e)
  BY <1>1, <1>2, OrderedStays
<1>10. Heard(e)
  BY <1>3 DEF Heard, Working
<1>11. Handleable(e) /\ Asking(e)
  <2>1. CASE Pending(e) = {}
    BY <2>1 DEF Handleable, Asking
  <2>2. CASE e.inbox = d.inbox
    <3>1. Pending(e) = Pending(d)
      BY <2>2 DEF Pending
    <3>2. \A i \in Pending(d) : d.inbox[i].asked # 0 => d.inbox[i].asked \in DOMAIN d.cycle
      BY <1>1, <1>2 DEF Asking
    <3>3. \A i \in Pending(e) :
            /\ e.inbox[i].asked \in 0 .. Len(e.cycle)
            /\ e.inbox[i].asked # 0 /\ ~e.inbox[i].late =>
                  e.cycle[e.inbox[i].asked].finished \notin {"expired", "notification_not_delivered"}
            /\ e.inbox[i].late =>
                  /\ e.inbox[i].asked # 0
                  /\ \A k \in Pending(e) : i < k /\ e.inbox[k].asked = e.inbox[i].asked => e.inbox[k].late
      BY <1>1, <2>2, <3>1, <3>2 DEF Asking, AllOver
    <3>4. Asking(e)
      BY <1>3, <3>3 DEF Asking
    <3>5. Handleable(e)
      BY <1>1, <2>2, <3>1 DEF Handleable
    <3> QED BY <3>4, <3>5
  <2> QED BY <2>1, <2>2
<1> QED BY <1>5, <1>6, <1>7, <1>8, <1>9, <1>10, <1>11 DEF Good

Stale(jobs, T) == {IF j.ticket \in T THEN [j EXCEPT !.fresh = FALSE] ELSE j : j \in jobs}

LEMMA StaleJobs ==
  ASSUME NEW jobs \in SUBSET AnyClosing, NEW T
  PROVE  /\ Stale(jobs, T) \in SUBSET AnyClosing
         /\ \A k \in Stale(jobs, T) : \E j \in jobs :
               /\ k.ticket = j.ticket /\ k.lifecycle = j.lifecycle /\ k.reply = j.reply
               /\ k.read = j.read /\ (k.fresh => j.fresh /\ j.ticket \notin T)
<1> SUFFICES ASSUME NEW k \in Stale(jobs, T)
             PROVE  /\ k \in AnyClosing
                    /\ \E j \in jobs :
                         /\ k.ticket = j.ticket /\ k.lifecycle = j.lifecycle /\ k.reply = j.reply
                         /\ k.read = j.read /\ (k.fresh => j.fresh /\ j.ticket \notin T)
  OBVIOUS
<1>1. PICK j \in jobs : k = IF j.ticket \in T THEN [j EXCEPT !.fresh = FALSE] ELSE j
  BY DEF Stale
<1>2. j \in AnyClosing
  OBVIOUS
<1> QED BY <1>1, <1>2 DEF AnyClosing

AllStale(jobs) == {[j EXCEPT !.fresh = FALSE] : j \in jobs}

LEMMA AllStaleJobs ==
  ASSUME NEW jobs \in SUBSET AnyClosing
  PROVE  /\ AllStale(jobs) \in SUBSET AnyClosing
         /\ \A k \in AllStale(jobs) : ~k.fresh /\ \E j \in jobs :
               /\ k.ticket = j.ticket /\ k.lifecycle = j.lifecycle /\ k.reply = j.reply
               /\ k.read = j.read
<1> SUFFICES ASSUME NEW k \in AllStale(jobs)
             PROVE  /\ k \in AnyClosing
                    /\ ~k.fresh /\ \E j \in jobs :
                         /\ k.ticket = j.ticket /\ k.lifecycle = j.lifecycle /\ k.reply = j.reply
                         /\ k.read = j.read
  OBVIOUS
<1>1. PICK j \in jobs : k = [j EXCEPT !.fresh = FALSE]
  BY DEF AllStale
<1>2. j \in AnyClosing
  OBVIOUS
<1> QED BY <1>1, <1>2 DEF AnyClosing

LEMMA EndedRow ==
  ASSUME NEW row \in Ticket
  PROVE  Ended(row) \in Ticket /\ Ended(row).status = "closed" /\ Ended(row).cycle = row.cycle
<1> DEFINE n == row.lifecycle + 1
<1>1. n \in Nat
  BY DEF Ticket
<1>2. Ended(row) = [row EXCEPT !.status = "closed", !.lifecycle = n]
  BY DEF Ended, Ticket
<1> HIDE DEF n
<1> QED BY <1>1, <1>2 DEF Ticket

LEMMA WithdrawnClient ==
  ASSUME NEW c \in Client
  PROVE  /\ Withdrawn(c) \in Client /\ Withdrawn(c).state = "withdrawn"
         /\ Withdrawn(c).erased = c.erased
         /\ [Withdrawn(c) EXCEPT !.erased = TRUE] \in Client
         /\ [Withdrawn(c) EXCEPT !.erased = TRUE].state = "withdrawn"
<1> DEFINE n == c.revision + 1
<1>1. n \in Nat
  BY DEF Client
<1>2. Withdrawn(c) = [c EXCEPT !.state = "withdrawn", !.revision = n]
  BY DEF Withdrawn, Client
<1> HIDE DEF n
<1> QED BY <1>1, <1>2 DEF Client

LEMMA WithdrawKeeps ==
  ASSUME NEW d, Good(d)
  PROVE  /\ Good(WithdrawConsent(d)) /\ WithdrawConsent(d).inbox = d.inbox
         /\ Unanswered(d, WithdrawConsent(d))
<1> DEFINE f == ForgetPending(d)
<1>1. /\ Good(f)
      /\ f.inbox = d.inbox /\ f.ticket = d.ticket /\ f.cycle = d.cycle /\ f.message = d.message
      /\ f.replies = d.replies /\ f.closing = d.closing /\ f.client = d.client /\ f.buffer = <<>>
  BY ForgetKeeps
<1> DEFINE cl == IF f.client.state = "withdrawn" THEN f.client ELSE Withdrawn(f.client)
<1> DEFINE tk == [t \in DOMAIN f.ticket |-> Ended(f.ticket[t])]
<1> DEFINE js == AllStale(f.closing)
<1> DEFINE g == [f EXCEPT !.client = cl, !.ticket = tk, !.closing = js]
<1> DEFINE e == Invalidate(g, Tickets(d))
<1>2. WithdrawConsent(d) = e
  <2>1. Typed(f)
    BY <1>1 DEF Good
  <2>2. [f EXCEPT !.client = IF @.state = "withdrawn" THEN @ ELSE Withdrawn(@),
                  !.ticket = [t \in DOMAIN @ |-> Ended(@[t])],
                  !.closing = {[j EXCEPT !.fresh = FALSE] : j \in @}] = g
    BY <2>1 DEF Typed, AllStale
  <2> QED BY <2>2 DEF WithdrawConsent
<1> HIDE DEF f
<1>3. /\ Typed(f) /\ f.closing \in SUBSET AnyClosing /\ f.client \in Client
      /\ Tickets(d) = 1 .. Len(f.ticket) /\ DOMAIN f.ticket = 1 .. Len(f.ticket) /\ Len(f.ticket) \in Nat
      /\ \A t \in Tickets(d) : f.ticket[t] \in Ticket
      /\ Emptied(f) /\ Messaged(f) /\ Answering(f) /\ Addressed(f) /\ Counted(f)
  BY <1>1, Domains DEF Good, Typed, Tickets
<1>4. cl \in Client /\ cl.state = "withdrawn" /\ cl.erased = f.client.erased
  BY <1>3, WithdrawnClient
<1>5. /\ tk \in Seq(Ticket) /\ Len(tk) = Len(f.ticket)
      /\ \A t \in Tickets(d) : tk[t].status = "closed" /\ tk[t].cycle = f.ticket[t].cycle
  <2>1. tk \in [1 .. Len(f.ticket) -> Ticket]
    BY <1>3, EndedRow
  <2>2. \A t \in Tickets(d) : tk[t].status = "closed" /\ tk[t].cycle = f.ticket[t].cycle
    BY <1>3, EndedRow
  <2> QED BY <1>3, <2>1, <2>2, MapIsSeq
<1>6. /\ js \in SUBSET AnyClosing
      /\ \A k \in js : ~k.fresh /\ \E j \in f.closing :
            /\ k.ticket = j.ticket /\ k.lifecycle = j.lifecycle /\ k.reply = j.reply
            /\ k.read = j.read
  BY <1>3, AllStaleJobs
<1> HIDE DEF cl, tk, js
<1>7. Typed(g)
  BY <1>3, <1>4, <1>5, <1>6 DEF Typed
<1>8. /\ g.inbox = f.inbox /\ g.cycle = f.cycle /\ g.message = f.message /\ g.out = f.out
      /\ g.replies = f.replies /\ g.buffer = f.buffer
      /\ g.client = cl /\ g.ticket = tk /\ g.closing = js
  BY <1>3 DEF Typed
<1> HIDE DEF g
<1> DEFINE cy == Marked(g.cycle, Tickets(d))
<1>9. e = [g EXCEPT !.cycle = cy]
  BY <1>7 DEF Invalidate, Typed, Marked
<1>10. g.cycle \in Seq(AnyCycle)
  BY <1>7 DEF Typed
<1>11. /\ cy \in Seq(AnyCycle) /\ Len(cy) = Len(g.cycle)
       /\ \A c \in DOMAIN g.cycle :
             /\ cy[c].ticket = g.cycle[c].ticket /\ cy[c].finished = g.cycle[c].finished
             /\ cy[c].attempts = g.cycle[c].attempts
             /\ g.cycle[c].ticket \in Tickets(d) => cy[c].invalidated
  BY <1>10, MarkedRows
<1> HIDE DEF cy
<1>12. Typed(e)
  BY <1>7, <1>9, <1>11 DEF Typed
<1>13. /\ e.inbox = f.inbox /\ e.cycle = cy /\ e.message = f.message /\ e.out = f.out
       /\ e.replies = f.replies /\ e.buffer = f.buffer
       /\ e.client = cl /\ e.ticket = tk /\ e.closing = js
  BY <1>7, <1>8, <1>9 DEF Typed
<1> HIDE DEF e
<1>14. AllOver(f, e)
  <2>1. \A c \in DOMAIN f.cycle : f.cycle[c].ticket \in Tickets(d)
    BY <1>1, <1>3 DEF Counted, Tickets
  <2>2. Tickets(f) = Tickets(d)
    BY <1>1 DEF Tickets
  <2> QED BY <1>5, <1>6, <1>8, <1>11, <1>13, <2>1, <2>2 DEF AllOver
<1>15. StillOrdered(f, e)
  BY <1>6, <1>13 DEF StillOrdered
<1>16. Messaged(e) /\ Answering(e) /\ Addressed(e)
  <2>1. Tickets(e) = Tickets(f)
    BY <1>3, <1>5, <1>13, <1>12, Domains DEF Tickets
  <2> QED BY <1>3, <1>5, <1>8, <1>11, <1>13, <1>15, <2>1, AnsweringStays DEF Messaged, Addressed
<1>17. e.client.erased =>
          /\ e.client.state = "withdrawn" /\ e.buffer = <<>> /\ Pending(e) = {}
          /\ \A i \in 1 .. MaxInputs : e.message[i].text = 0
  BY <1>3, <1>4, <1>13 DEF Emptied, Pending
<1>18. Good(e)
  BY <1>1, <1>12, <1>13, <1>14, <1>15, <1>16, <1>17, OverKeeps
<1>19. Unanswered(d, e)
  <2>1. \A c \in DOMAIN d.cycle : d.cycle[c].attempts \in Nat
    BY Domains DEF AnyCycle, Good
  <2> QED BY <1>1, <1>8, <1>11, <1>13, <2>1 DEF Unanswered
<1> QED BY <1>1, <1>2, <1>13, <1>18, <1>19

LEMMA ConfirmKeeps ==
  ASSUME NEW d, Good(d)
  PROVE  /\ Good(ConfirmWithdrawal(d)) /\ ConfirmWithdrawal(d).inbox = d.inbox
         /\ Unanswered(d, ConfirmWithdrawal(d))
<1>1. LET e == Offer(d, {"withdraw", "keep"})
      IN Good(e) /\ e.inbox = d.inbox /\ Unanswered(d, e)
  BY OfferKeeps, NothingAnswered DEF Beside, Good
<1> QED BY <1>1, WithdrawKeeps DEF ConfirmWithdrawal

\* What a purge leaves of the rows.
Purged(d, e, T) ==
    /\ e.policy = d.policy /\ e.client = d.client /\ e.buffer = d.buffer /\ e.inbox = d.inbox
    /\ e.out = d.out /\ e.replies = d.replies
    /\ Len(e.ticket) = Len(d.ticket)
    /\ \A t \in Tickets(d) :
          /\ e.ticket[t].status = d.ticket[t].status /\ e.ticket[t].cycle = d.ticket[t].cycle
          /\ e.ticket[t].lifecycle = d.ticket[t].lifecycle
          /\ e.ticket[t].waiting = d.ticket[t].waiting /\ e.ticket[t].heard = d.ticket[t].heard
    /\ \A i \in 1 .. MaxInputs :
          /\ e.message[i].ticket = d.message[i].ticket
          /\ e.message[i].text \in {0, d.message[i].text}
          /\ d.message[i].ticket \in T => e.message[i].text = 0
    /\ \A k \in e.closing : \E j \in d.closing :
          /\ k.ticket = j.ticket /\ k.lifecycle = j.lifecycle /\ k.reply = j.reply
          /\ k.read = j.read /\ (k.fresh => j.fresh /\ j.ticket \notin T)
    /\ Len(e.cycle) = Len(d.cycle)
    /\ \A c \in DOMAIN d.cycle :
          /\ e.cycle[c].ticket = d.cycle[c].ticket /\ e.cycle[c].finished = d.cycle[c].finished
          /\ e.cycle[c].expired = d.cycle[c].expired /\ e.cycle[c].attempts = d.cycle[c].attempts
          /\ e.cycle[c].before = d.cycle[c].before
          /\ d.cycle[c].invalidated => e.cycle[c].invalidated
          /\ d.cycle[c].ticket \in T => e.cycle[c].invalidated

LEMMA PurgeShape ==
  ASSUME NEW d, Typed(d), NEW T
  PROVE  Typed(Purge(d, T)) /\ Purged(d, Purge(d, T), T)
<1> DEFINE tk == [t \in DOMAIN d.ticket |-> IF t \in T THEN [d.ticket[t] EXCEPT !.purged = TRUE]
                                            ELSE d.ticket[t]]
<1> DEFINE ms == [i \in DOMAIN d.message |-> IF d.message[i].ticket \in T
                                             THEN [d.message[i] EXCEPT !.text = 0] ELSE d.message[i]]
<1> DEFINE js == Stale(d.closing, T)
<1> DEFINE g == [d EXCEPT !.ticket = tk, !.message = ms, !.closing = js]
<1> DEFINE cy == Marked(g.cycle, T)
<1> DEFINE e == [g EXCEPT !.cycle = cy]
<1>1. Purge(d, T) = Invalidate(g, T)
  <2>1. [d EXCEPT
          !.ticket  = [t \in DOMAIN @ |-> IF t \in T THEN [@[t] EXCEPT !.purged = TRUE] ELSE @[t]],
          !.message = [i \in DOMAIN @ |-> IF @[i].ticket \in T THEN [@[i] EXCEPT !.text = 0] ELSE @[i]],
          !.closing = {IF j.ticket \in T THEN [j EXCEPT !.fresh = FALSE] ELSE j : j \in @}] = g
    BY DEF Typed, Stale
  <2> QED BY <2>1 DEF Purge
<1>2. /\ Len(d.ticket) \in Nat /\ DOMAIN d.ticket = 1 .. Len(d.ticket)
      /\ Tickets(d) = 1 .. Len(d.ticket)
      /\ \A t \in 1 .. Len(d.ticket) : d.ticket[t] \in Ticket
      /\ d.message \in [1 .. MaxInputs -> AnyMessage] /\ d.closing \in SUBSET AnyClosing
      /\ DOMAIN d.cycle = 1 .. Len(d.cycle)
  BY Domains DEF Typed, Tickets
<1>3. /\ tk \in Seq(Ticket) /\ Len(tk) = Len(d.ticket)
      /\ \A t \in Tickets(d) :
            /\ tk[t].status = d.ticket[t].status /\ tk[t].cycle = d.ticket[t].cycle
            /\ tk[t].lifecycle = d.ticket[t].lifecycle
            /\ tk[t].waiting = d.ticket[t].waiting /\ tk[t].heard = d.ticket[t].heard
  <2>1. ASSUME NEW t \in 1 .. Len(d.ticket)
        PROVE  /\ tk[t] \in Ticket
               /\ tk[t].status = d.ticket[t].status /\ tk[t].cycle = d.ticket[t].cycle
               /\ tk[t].lifecycle = d.ticket[t].lifecycle
               /\ tk[t].waiting = d.ticket[t].waiting /\ tk[t].heard = d.ticket[t].heard
    <3> DEFINE row == d.ticket[t]
    <3>1. tk[t] = IF t \in T THEN [row EXCEPT !.purged = TRUE] ELSE row
      BY <1>2
    <3>2. row \in Ticket
      BY <1>2
    <3> HIDE DEF tk, row
    <3>3. /\ tk[t] \in Ticket
          /\ tk[t].status = row.status /\ tk[t].cycle = row.cycle
          /\ tk[t].lifecycle = row.lifecycle
          /\ tk[t].waiting = row.waiting /\ tk[t].heard = row.heard
      BY <3>1, <3>2 DEF Ticket
    <3> QED BY <3>3 DEF row
  <2>2. tk \in [1 .. Len(d.ticket) -> Ticket]
    BY <1>2, <2>1
  <2>3. tk \in Seq(Ticket) /\ Len(tk) = Len(d.ticket)
    BY <1>2, <2>2, MapIsSeq
  <2> HIDE DEF tk
  <2> QED BY <1>2, <2>1, <2>3
<1>4. /\ ms \in [1 .. MaxInputs -> AnyMessage]
      /\ \A i \in 1 .. MaxInputs :
            /\ ms[i].ticket = d.message[i].ticket
            /\ ms[i].text \in {0, d.message[i].text}
            /\ d.message[i].ticket \in T => ms[i].text = 0
  <2>1. ASSUME NEW i \in 1 .. MaxInputs
        PROVE  /\ ms[i] \in AnyMessage
               /\ ms[i].ticket = d.message[i].ticket
               /\ ms[i].text \in {0, d.message[i].text}
               /\ d.message[i].ticket \in T => ms[i].text = 0
    <3> DEFINE row == d.message[i]
    <3>1. ms[i] = IF row.ticket \in T THEN [row EXCEPT !.text = 0] ELSE row
      BY <1>2
    <3>2. row \in AnyMessage /\ 0 \in 0 .. MaxInputs
      BY <1>2, BoundsAssumption
    <3> HIDE DEF ms, row
    <3>3. /\ ms[i] \in AnyMessage
          /\ ms[i].ticket = row.ticket
          /\ ms[i].text \in {0, row.text}
          /\ row.ticket \in T => ms[i].text = 0
      BY <3>1, <3>2 DEF AnyMessage
    <3> QED BY <3>3 DEF row
  <2>2. ms \in [1 .. MaxInputs -> AnyMessage]
    BY <1>2, <2>1
  <2> HIDE DEF ms
  <2> QED BY <2>1, <2>2
<1>5. /\ js \in SUBSET AnyClosing
      /\ \A k \in js : \E j \in d.closing :
            /\ k.ticket = j.ticket /\ k.lifecycle = j.lifecycle /\ k.reply = j.reply
            /\ k.read = j.read /\ (k.fresh => j.fresh /\ j.ticket \notin T)
  BY <1>2, StaleJobs
<1> HIDE DEF tk, ms, js
<1>6. Typed(g)
  BY <1>3, <1>4, <1>5 DEF Typed
<1>7. /\ g.policy = d.policy /\ g.client = d.client /\ g.buffer = d.buffer /\ g.inbox = d.inbox
      /\ g.out = d.out /\ g.replies = d.replies /\ g.cycle = d.cycle
      /\ g.ticket = tk /\ g.message = ms /\ g.closing = js
  BY DEF Typed
<1> HIDE DEF g
<1>8. Invalidate(g, T) = e
  BY <1>6 DEF Invalidate, Typed, Marked
<1>9. g.cycle \in Seq(AnyCycle)
  BY <1>6 DEF Typed
<1>10. /\ cy \in Seq(AnyCycle) /\ Len(cy) = Len(g.cycle)
       /\ \A c \in DOMAIN g.cycle :
             /\ cy[c].ticket = g.cycle[c].ticket /\ cy[c].finished = g.cycle[c].finished
             /\ cy[c].expired = g.cycle[c].expired /\ cy[c].attempts = g.cycle[c].attempts
             /\ cy[c].before = g.cycle[c].before
             /\ g.cycle[c].invalidated => cy[c].invalidated
             /\ g.cycle[c].ticket \in T => cy[c].invalidated
  BY <1>9, MarkedRows
<1> HIDE DEF cy
<1>11. Typed(e)
  BY <1>6, <1>10 DEF Typed
<1>12. /\ e.policy = g.policy /\ e.client = g.client /\ e.buffer = g.buffer /\ e.inbox = g.inbox
       /\ e.out = g.out /\ e.replies = g.replies /\ e.cycle = cy
       /\ e.ticket = g.ticket /\ e.message = g.message /\ e.closing = g.closing
  BY <1>6 DEF Typed
<1> HIDE DEF e
<1>13. Purged(d, e, T)
  BY <1>3, <1>4, <1>5, <1>7, <1>10, <1>12 DEF Purged
<1> QED BY <1>1, <1>8, <1>11, <1>13

LEMMA PurgeKeeps ==
  ASSUME NEW d, Good(d), NEW T
  PROVE  /\ Good(Purge(d, T)) /\ Purge(d, T).inbox = d.inbox /\ Unanswered(d, Purge(d, T))
         /\ Purged(d, Purge(d, T), T)
<1> DEFINE e == Purge(d, T)
<1>1. Typed(d) /\ Emptied(d) /\ Ordered(d) /\ Messaged(d) /\ Answering(d) /\ Addressed(d)
  BY DEF Good
<1>2. Typed(e) /\ Purged(d, e, T)
  BY <1>1, PurgeShape
<1> HIDE DEF e
<1>3. Tickets(e) = Tickets(d)
  BY <1>1, <1>2, Domains DEF Purged
<1>4. Quiet(d, e)
  BY <1>1, <1>2 DEF Quiet, Purged, Emptied
<1>5. StillOrdered(d, e)
  <2> SUFFICES ASSUME NEW k \in e.closing
               PROVE  \E j \in d.closing :
                         /\ k.ticket = j.ticket /\ k.lifecycle = j.lifecycle /\ k.reply = j.reply
                         /\ k.read => j.read
                         /\ k.fresh => /\ j.fresh /\ k.read
                                       /\ e.ticket[j.ticket].status = d.ticket[j.ticket].status
                                       /\ e.ticket[j.ticket].lifecycle = d.ticket[j.ticket].lifecycle
    BY DEF StillOrdered
  <2>1. PICK j \in d.closing :
          /\ k.ticket = j.ticket /\ k.lifecycle = j.lifecycle /\ k.reply = j.reply
          /\ k.read = j.read /\ (k.fresh => j.fresh /\ j.ticket \notin T)
    BY <1>2 DEF Purged
  <2>2. j.ticket \in Tickets(d) /\ (j.fresh => j.read)
    BY <1>1 DEF Ordered
  <2>3. /\ e.ticket[j.ticket].status = d.ticket[j.ticket].status
        /\ e.ticket[j.ticket].lifecycle = d.ticket[j.ticket].lifecycle
    BY <1>2, <2>2 DEF Purged
  <2> QED BY <2>1, <2>2, <2>3
<1>6. Messaged(e)
  <2>1. ASSUME NEW i \in 1 .. MaxInputs
        PROVE  e.message[i].ticket \in 0 .. Len(e.ticket) /\ (e.message[i].ticket = 0 => e.message[i].text = 0)
    <3>1. d.message[i].ticket \in 0 .. Len(d.ticket) /\ (d.message[i].ticket = 0 => d.message[i].text = 0)
      BY <1>1 DEF Messaged
    <3> QED BY <1>2, <3>1 DEF Purged
  <2> QED BY <2>1 DEF Messaged
<1>7. Answering(e) /\ Addressed(e)
  <2>1. e.out = d.out /\ e.replies = d.replies /\ Len(e.cycle) = Len(d.cycle)
    BY <1>2 DEF Purged
  <2> QED BY <1>1, <1>3, <1>5, <2>1, AnsweringStays DEF Addressed
<1>8. Unanswered(d, e)
  <2>1. \A c \in DOMAIN d.cycle : d.cycle[c].attempts \in Nat
    BY <1>1, Domains DEF AnyCycle
  <2> QED BY <1>2, <2>1 DEF Unanswered, Purged
<1>9. Good(e)
  BY <1>2, <1>4, <1>5, <1>6, <1>7, QuietKeeps
<1>10. e.inbox = d.inbox
  BY <1>2 DEF Purged
<1> QED BY <1>2, <1>8, <1>9, <1>10 DEF e

LEMMA ClosedRow ==
  ASSUME NEW row \in Input, NEW state \in {"done", "discarded"}
  PROVE  Closed(row, state) \in Input /\ Closed(row, state).state = state
<1>1. 0 \in 0 .. MaxInputs /\ 0 \in 0 .. MaxCycles
  BY BoundsAssumption
<1> QED BY <1>1 DEF Closed, Input

Discarded(rows) ==
    [i \in DOMAIN rows |-> IF rows[i].state = "pending" THEN Closed(rows[i], "discarded") ELSE rows[i]]

LEMMA DiscardedRows ==
  ASSUME NEW rows \in Seq(Input)
  PROVE  /\ Discarded(rows) \in Seq(Input) /\ Len(Discarded(rows)) = Len(rows)
         /\ \A i \in DOMAIN Discarded(rows) : Discarded(rows)[i].state # "pending"
<1>1. Len(rows) \in Nat /\ DOMAIN rows = 1 .. Len(rows) /\ \A i \in DOMAIN rows : rows[i] \in Input
  BY LenProperties, ElementOfSeq
<1>2. ASSUME NEW i \in DOMAIN rows
      PROVE  Discarded(rows)[i] \in Input /\ Discarded(rows)[i].state # "pending"
  BY <1>1, ClosedRow DEF Discarded
<1>3. Discarded(rows) \in [1 .. Len(rows) -> Input]
  BY <1>1, <1>2 DEF Discarded
<1> QED BY <1>1, <1>2, <1>3, MapIsSeq DEF Discarded

Finished(rows) == [t \in DOMAIN rows |-> IF rows[t].status # "closed" THEN Ended(rows[t]) ELSE rows[t]]

LEMMA FinishedRows ==
  ASSUME NEW rows \in Seq(Ticket)
  PROVE  /\ Finished(rows) \in Seq(Ticket) /\ Len(Finished(rows)) = Len(rows)
         /\ \A t \in DOMAIN rows : /\ Finished(rows)[t].status = "closed"
                                   /\ Finished(rows)[t].cycle = rows[t].cycle
<1>1. Len(rows) \in Nat /\ DOMAIN rows = 1 .. Len(rows) /\ \A t \in DOMAIN rows : rows[t] \in Ticket
  BY LenProperties, ElementOfSeq
<1>2. ASSUME NEW t \in DOMAIN rows
      PROVE  /\ Finished(rows)[t] \in Ticket /\ Finished(rows)[t].status = "closed"
             /\ Finished(rows)[t].cycle = rows[t].cycle
  BY <1>1, EndedRow DEF Finished
<1>3. Finished(rows) \in [1 .. Len(rows) -> Ticket]
  BY <1>1, <1>2 DEF Finished
<1> QED BY <1>1, <1>2, <1>3, MapIsSeq DEF Finished

\* The rows after EraseClient.
Erasure(d) ==
    LET gone == ForgetPending(d)
    IN Purge([gone EXCEPT !.inbox = Discarded(@), !.ticket = Finished(@),
                          !.client = [Withdrawn(@) EXCEPT !.erased = TRUE]], Tickets(d))

LEMMA EraseKeeps ==
  ASSUME NEW d, Good(d)
  PROVE  Good(Erasure(d)) /\ Unanswered(d, Erasure(d))
<1> DEFINE f == ForgetPending(d)
<1>1. /\ Good(f)
      /\ f.inbox = d.inbox /\ f.ticket = d.ticket /\ f.cycle = d.cycle /\ f.message = d.message
      /\ f.replies = d.replies /\ f.closing = d.closing /\ f.client = d.client /\ f.buffer = <<>>
  BY ForgetKeeps
<1> DEFINE cl == [Withdrawn(f.client) EXCEPT !.erased = TRUE]
<1> DEFINE tk == Finished(f.ticket)
<1> DEFINE ib == Discarded(f.inbox)
<1> DEFINE g == [f EXCEPT !.inbox = ib, !.ticket = tk, !.client = cl]
<1> DEFINE e == Purge(g, Tickets(d))
<1>2. Erasure(d) = e
  <2>1. Typed(f)
    BY <1>1 DEF Good
  <2>2. [f EXCEPT !.inbox = Discarded(@), !.ticket = Finished(@),
                  !.client = [Withdrawn(@) EXCEPT !.erased = TRUE]] = g
    BY <2>1 DEF Typed
  <2> QED BY <2>2 DEF Erasure
<1> HIDE DEF f
<1>3. /\ Typed(f) /\ f.client \in Client /\ f.ticket \in Seq(Ticket) /\ f.inbox \in Seq(Input)
      /\ Tickets(f) = Tickets(d)
      /\ Tickets(d) = DOMAIN f.ticket
      /\ Emptied(f) /\ Messaged(f) /\ Answering(f) /\ Addressed(f) /\ Counted(f) /\ Ordered(f)
      /\ Tickets(d) = 1 .. Len(f.ticket) /\ Len(f.ticket) \in Nat
  BY <1>1, Domains DEF Good, Typed, Tickets
<1>4. cl \in Client /\ cl.state = "withdrawn"
  BY <1>3, WithdrawnClient
<1>5. /\ tk \in Seq(Ticket) /\ Len(tk) = Len(f.ticket)
      /\ \A t \in Tickets(d) : tk[t].status = "closed" /\ tk[t].cycle = f.ticket[t].cycle
  BY <1>3, FinishedRows
<1>6. /\ ib \in Seq(Input) /\ Len(ib) = Len(f.inbox)
      /\ \A i \in DOMAIN ib : ib[i].state # "pending"
  BY <1>3, DiscardedRows
<1> HIDE DEF cl, tk, ib
<1>7. Typed(g)
  BY <1>3, <1>4, <1>5, <1>6 DEF Typed
<1>8. /\ g.inbox = ib /\ g.cycle = f.cycle /\ g.message = f.message /\ g.out = f.out
      /\ g.replies = f.replies /\ g.buffer = f.buffer
      /\ g.client = cl /\ g.ticket = tk /\ g.closing = f.closing
  BY <1>3 DEF Typed
<1> HIDE DEF g
<1>9. Typed(e) /\ Purged(g, e, Tickets(d))
  BY <1>7, PurgeShape
<1> HIDE DEF e
<1>10. /\ Tickets(g) = Tickets(d) /\ Tickets(e) = Tickets(d) /\ Len(e.ticket) = Len(f.ticket)
       /\ e.inbox = ib /\ e.client = cl /\ e.buffer = <<>> /\ e.out = f.out /\ e.replies = f.replies
       /\ Len(e.cycle) = Len(f.cycle)
  BY <1>1, <1>3, <1>5, <1>7, <1>8, <1>9, Domains DEF Purged
<1>11. Pending(e) = {}
  BY <1>6, <1>10 DEF Pending
<1>12. ASSUME NEW k \in e.closing
       PROVE  /\ ~k.fresh
              /\ \E j \in f.closing : /\ k.ticket = j.ticket /\ k.lifecycle = j.lifecycle
                                      /\ k.reply = j.reply /\ k.read = j.read
  <2>1. PICK j \in g.closing :
          /\ k.ticket = j.ticket /\ k.lifecycle = j.lifecycle /\ k.reply = j.reply
          /\ k.read = j.read /\ (k.fresh => j.fresh /\ j.ticket \notin Tickets(d))
    BY <1>9 DEF Purged
  <2>2. j \in f.closing /\ j.ticket \in Tickets(d)
    BY <1>3, <1>8 DEF Ordered
  <2> QED BY <2>1, <2>2
<1>13. StillOrdered(f, e)
  BY <1>12 DEF StillOrdered
<1>14. AllOver(f, e)
  <2>1. \A c \in DOMAIN f.cycle : f.cycle[c].ticket \in Tickets(d)
    BY <1>3 DEF Counted
  <2>2. \A c \in DOMAIN f.cycle : /\ e.cycle[c].ticket = f.cycle[c].ticket
                                  /\ e.cycle[c].finished = f.cycle[c].finished
                                  /\ e.cycle[c].invalidated
    BY <1>8, <1>9, <2>1 DEF Purged
  <2>3. \A t \in Tickets(d) : e.ticket[t].status = "closed" /\ e.ticket[t].cycle = f.ticket[t].cycle
    BY <1>5, <1>8, <1>9, <1>10 DEF Purged
  <2> QED BY <1>3, <1>10, <1>12, <2>2, <2>3 DEF AllOver
<1>15. ASSUME NEW i \in 1 .. MaxInputs
       PROVE  e.message[i].text = 0 /\ e.message[i].ticket \in 0 .. Len(e.ticket)
  <2>1. f.message[i].ticket \in 0 .. Len(f.ticket) /\ (f.message[i].ticket = 0 => f.message[i].text = 0)
    BY <1>3 DEF Messaged
  <2>2. /\ e.message[i].ticket = f.message[i].ticket
        /\ e.message[i].text \in {0, f.message[i].text}
        /\ f.message[i].ticket \in Tickets(d) => e.message[i].text = 0
    BY <1>8, <1>9 DEF Purged
  <2> QED BY <1>3, <1>10, <2>1, <2>2
<1>16. Messaged(e) /\ Answering(e) /\ Addressed(e)
  BY <1>3, <1>10, <1>13, <1>15, AnsweringStays DEF Messaged, Addressed
<1>17. Good(e)
  BY <1>1, <1>4, <1>9, <1>10, <1>11, <1>13, <1>14, <1>15, <1>16, OverKeeps
<1>18. Unanswered(d, e)
  <2>1. \A c \in DOMAIN d.cycle : d.cycle[c].attempts \in Nat
    BY Domains DEF AnyCycle, Good
  <2> QED BY <1>1, <1>8, <1>9, <2>1 DEF Unanswered, Purged
<1> QED BY <1>2, <1>17, <1>18

-----------------------------------------------------------------------------
(* A message that passed the gate.                                         *)

\* The rows before the deliveries of the rating are cancelled.
Concluded(d, t, reason) ==
    [d EXCEPT !.ticket  = [d.ticket EXCEPT ![t] = [d.ticket[t] EXCEPT !.status = "closed"]],
              !.closing = Outdated(d.closing, t),
              !.cycle   = [d.cycle EXCEPT ![Len(d.cycle)] = Over(d.cycle[Len(d.cycle)], reason)]]

LEMMA RatedKeeps ==
  ASSUME NEW d, Good(d), NEW t \in Tickets(d), d.ticket[t].status = "awaiting_rating",
         NEW reason \in Reasons,
         reason \in {"expired", "notification_not_delivered"} =>
            \A i \in Pending(d) : d.inbox[i].asked = Len(d.cycle) => d.inbox[i].late
  PROVE  LET e == Concluded(d, t, reason)
         IN /\ Good(e) /\ e.inbox = d.inbox /\ Len(e.cycle) = Len(d.cycle) /\ Unclosed(e) = {}
            /\ e.client = d.client /\ e.buffer = d.buffer
            /\ \A c \in DOMAIN d.cycle : c # Len(d.cycle) => e.cycle[c] = d.cycle[c]
            /\ e.cycle[Len(d.cycle)].attempts = 0 /\ e.cycle[Len(d.cycle)].finished = reason
<1> DEFINE n == Len(d.cycle)
<1> DEFINE row == [d.ticket[t] EXCEPT !.status = "closed"]
<1> DEFINE tk == [d.ticket EXCEPT ![t] = row]
<1> DEFINE js == Outdated(d.closing, t)
<1> DEFINE new == Over(d.cycle[n], reason)
<1> DEFINE cy == [d.cycle EXCEPT ![n] = new]
<1> DEFINE e == [d EXCEPT !.ticket = tk, !.closing = js, !.cycle = cy]
<1>1. /\ Typed(d) /\ OneOpen(d) /\ WithConsent(d) /\ Cycled(d) /\ Counted(d) /\ Emptied(d) /\ Messaged(d)
      /\ Ordered(d) /\ Handleable(d) /\ Asking(d) /\ Heard(d) /\ Answering(d) /\ Addressed(d)
  BY DEF Good
<1>2. /\ d.ticket \in Seq(Ticket) /\ d.cycle \in Seq(AnyCycle) /\ d.closing \in SUBSET AnyClosing
      /\ Tickets(d) = 1 .. Len(d.ticket) /\ Len(d.ticket) \in Nat
      /\ DOMAIN d.cycle = 1 .. n /\ n \in Nat
      /\ d.ticket[t] \in Ticket
  BY <1>1, Domains DEF Typed
<1>3. n \in 1 .. n /\ d.ticket[t].cycle = n /\ d.cycle[n].finished = ""
  <2>1. d.ticket[t].cycle = n /\ n # 0 /\ d.cycle[n].finished = ""
    BY <1>1 DEF Cycled
  <2>2. n \in Nat /\ n # 0
    BY <1>2, <2>1
  <2>3. \A m \in Nat : m # 0 => m \in 1 .. m
    OBVIOUS
  <2> HIDE DEF n
  <2>4. n \in 1 .. n
    BY <2>2, <2>3
  <2> QED BY <2>1, <2>4
<1>4. d.cycle[n] \in AnyCycle
  BY <1>1, <1>2, <1>3, Domains
<1>5. row \in Ticket /\ row.status = "closed" /\ row.cycle = n /\ row.lifecycle = d.ticket[t].lifecycle
  BY <1>2, <1>3 DEF Ticket
<1>6. /\ new \in AnyCycle /\ new.finished = reason /\ new.ticket = d.cycle[n].ticket
      /\ new.invalidated = d.cycle[n].invalidated /\ new.attempts = 0
  <2>1. 0 \in 0 .. MaxAttempts /\ 0 \in 0 .. MaxInputs
    BY BoundsAssumption
  <2> QED BY <1>4, <2>1 DEF Over, AnyCycle
<1> HIDE DEF row, new
<1>7. /\ tk \in Seq(Ticket) /\ Len(tk) = Len(d.ticket)
      /\ \A u \in Tickets(d) : tk[u] = IF u = t THEN row ELSE d.ticket[u]
  BY <1>2, <1>5, ExceptSeq
<1>8. /\ cy \in Seq(AnyCycle) /\ Len(cy) = n
      /\ \A c \in 1 .. n : cy[c] = IF c = n THEN new ELSE d.cycle[c]
  <2>1. n \in 1 .. Len(d.cycle)
    BY <1>3
  <2>2. /\ cy \in Seq(AnyCycle) /\ Len(cy) = Len(d.cycle)
        /\ \A c \in 1 .. Len(d.cycle) : cy[c] = IF c = n THEN new ELSE d.cycle[c]
    BY <1>2, <1>6, <2>1, ExceptSeq
  <2> QED BY <2>2
<1>9. /\ js \in SUBSET AnyClosing
      /\ \A k \in js : \E j \in d.closing :
           /\ k.ticket = j.ticket /\ k.lifecycle = j.lifecycle /\ k.reply = j.reply
           /\ k.read = j.read
           /\ k.fresh => j.fresh /\ j.ticket # t
  BY <1>2, OutdatedJobs
<1> HIDE DEF tk, cy, js
<1>10. Typed(e)
  BY <1>1, <1>7, <1>8, <1>9 DEF Typed
<1>11. /\ e.inbox = d.inbox /\ e.client = d.client /\ e.buffer = d.buffer /\ e.message = d.message
       /\ e.out = d.out /\ e.replies = d.replies
       /\ e.ticket = tk /\ e.cycle = cy /\ e.closing = js
  BY <1>1 DEF Typed
<1>12. Concluded(d, t, reason) = e
  BY DEF Concluded, tk, cy, js, row, new
<1> HIDE DEF e
<1>13. Tickets(e) = Tickets(d) /\ DOMAIN e.cycle = 1 .. n /\ Len(e.cycle) = n /\ Pending(e) = Pending(d)
  BY <1>2, <1>7, <1>8, <1>10, <1>11, Domains DEF Pending
<1>14. Unclosed(d) = {t}
  <2>1. t \in Unclosed(d)
    BY DEF Unclosed
  <2> QED BY <1>1, <2>1 DEF OneOpen
<1>15. \A u \in Tickets(d) : e.ticket[u].status = "closed"
  BY <1>5, <1>7, <1>11, <1>14 DEF Unclosed
<1>16. Unclosed(e) = {}
  BY <1>13, <1>15 DEF Unclosed
<1>17. OneOpen(e) /\ WithConsent(e)
  BY <1>16 DEF OneOpen, WithConsent
<1>18. Cycled(e)
  <2>1. \A u \in Tickets(d) : e.ticket[u].cycle = d.ticket[u].cycle
    BY <1>3, <1>5, <1>7, <1>11
  <2> QED BY <1>1, <1>13, <1>15, <2>1 DEF Cycled, Working
<1>19. Counted(e)
  <2>1. \A c \in 1 .. n : /\ e.cycle[c].ticket = d.cycle[c].ticket
                          /\ e.cycle[c].invalidated = d.cycle[c].invalidated
    BY <1>6, <1>8, <1>11
  <2>2. \A u \in Tickets(d) : e.ticket[u].cycle = d.ticket[u].cycle
    BY <1>3, <1>5, <1>7, <1>11
  <2>3. \A c \in 1 .. n : /\ d.cycle[c].ticket \in Tickets(d)
                          /\ ~d.cycle[c].invalidated => d.ticket[d.cycle[c].ticket].cycle = c
    BY <1>1, <1>2 DEF Counted
  <2>4. ASSUME NEW c \in 1 .. n
        PROVE  /\ e.cycle[c].ticket \in Tickets(d)
               /\ ~e.cycle[c].invalidated => e.ticket[e.cycle[c].ticket].cycle = c
    <3>1. e.cycle[c].ticket = d.cycle[c].ticket /\ e.cycle[c].invalidated = d.cycle[c].invalidated
      BY <2>1
    <3>2. d.cycle[c].ticket \in Tickets(d) /\ (~d.cycle[c].invalidated => d.ticket[d.cycle[c].ticket].cycle = c)
      BY <2>3
    <3> QED BY <2>2, <3>1, <3>2
  <2> QED BY <1>13, <2>4 DEF Counted
<1>20. ~d.client.erased
  BY <1>1, <1>14 DEF Emptied
<1>21. Emptied(e) /\ Messaged(e)
  BY <1>1, <1>7, <1>11, <1>20 DEF Emptied, Messaged
<1>22. StillOrdered(d, e)
  <2> SUFFICES ASSUME NEW k \in e.closing
               PROVE  \E j \in d.closing :
                         /\ k.ticket = j.ticket /\ k.lifecycle = j.lifecycle /\ k.reply = j.reply
                         /\ k.read => j.read
                         /\ k.fresh => /\ j.fresh /\ k.read
                                       /\ e.ticket[j.ticket].status = d.ticket[j.ticket].status
                                       /\ e.ticket[j.ticket].lifecycle = d.ticket[j.ticket].lifecycle
    BY DEF StillOrdered
  <2>1. PICK j \in d.closing :
           /\ k.ticket = j.ticket /\ k.lifecycle = j.lifecycle /\ k.reply = j.reply
           /\ k.read = j.read
           /\ k.fresh => j.fresh /\ j.ticket # t
    BY <1>9, <1>11
  <2>2. j.ticket \in Tickets(d) /\ (j.fresh => j.read)
    BY <1>1 DEF Ordered
  <2> QED BY <1>7, <1>11, <2>1, <2>2
<1>23. Ordered(e) /\ Answering(e) /\ Addressed(e)
  BY <1>1, <1>11, <1>13, <1>22, OrderedStays, AnsweringStays DEF Addressed
<1>24. Handleable(e) /\ Heard(e)
  BY <1>1, <1>11, <1>13, <1>15 DEF Handleable, Heard, Working
<1>25. Asking(e)
  <2> SUFFICES ASSUME NEW i \in Pending(d)
      PROVE  /\ d.inbox[i].asked \in 0 .. n
             /\ d.inbox[i].asked # 0 /\ ~d.inbox[i].late =>
                   e.cycle[d.inbox[i].asked].finished \notin {"expired", "notification_not_delivered"}
             /\ d.inbox[i].late =>
                   /\ d.inbox[i].asked # 0
                   /\ \A k \in Pending(d) : i < k /\ d.inbox[k].asked = d.inbox[i].asked => d.inbox[k].late
    BY <1>11, <1>13, <1>15 DEF Asking
  <2>1. /\ d.inbox[i].asked \in 0 .. n
        /\ d.inbox[i].late =>
              /\ d.inbox[i].asked # 0
              /\ \A k \in Pending(d) : i < k /\ d.inbox[k].asked = d.inbox[i].asked => d.inbox[k].late
    BY <1>1 DEF Asking
  <2>2. CASE d.inbox[i].asked = n
    <3>1. e.cycle[d.inbox[i].asked].finished = reason
      BY <1>3, <1>6, <1>8, <1>11, <2>2
    <3> QED BY <2>1, <2>2, <3>1
  <2>3. CASE d.inbox[i].asked # n
    <3>1. d.inbox[i].asked # 0 =>
             d.inbox[i].asked \in 1 .. n /\ e.cycle[d.inbox[i].asked] = d.cycle[d.inbox[i].asked]
      BY <1>2, <1>8, <1>11, <2>1, <2>3
    <3>2. d.inbox[i].asked # 0 /\ ~d.inbox[i].late =>
             d.cycle[d.inbox[i].asked].finished \notin {"expired", "notification_not_delivered"}
      BY <1>1 DEF Asking
    <3> QED BY <2>1, <3>1, <3>2
  <2> QED BY <2>2, <2>3
<1>26. Good(e)
  BY <1>10, <1>17, <1>18, <1>19, <1>21, <1>23, <1>24, <1>25 DEF Good
<1>27. /\ \A c \in DOMAIN d.cycle : c # n => e.cycle[c] = d.cycle[c]
       /\ e.cycle[n].attempts = 0 /\ e.cycle[n].finished = reason
  BY <1>2, <1>3, <1>6, <1>8, <1>11
<1> QED BY <1>11, <1>12, <1>13, <1>16, <1>26, <1>27

LEMMA FinishKeeps ==
  ASSUME NEW d, Good(d), NEW t \in Tickets(d), d.ticket[t].status = "awaiting_rating",
         NEW reason \in Reasons,
         reason \in {"expired", "notification_not_delivered"} =>
            \A i \in Pending(d) : d.inbox[i].asked = Len(d.cycle) => d.inbox[i].late
  PROVE  LET e == FinishRating(d, t, reason)
         IN /\ Good(e) /\ e.inbox = d.inbox /\ Len(e.cycle) = Len(d.cycle) /\ Unclosed(e) = {}
            /\ e.client = d.client /\ e.buffer = d.buffer
            /\ \A c \in DOMAIN d.cycle : c # Len(d.cycle) => e.cycle[c] = d.cycle[c]
            /\ e.cycle[Len(d.cycle)].attempts = 0 /\ e.cycle[Len(d.cycle)].finished = reason
<1> DEFINE n == Len(d.cycle)
<1> DEFINE g == Concluded(d, t, reason)
<1> DEFINE e == CancelCycleDeliveries(g, n)
<1>1. Typed(d) /\ Cycled(d)
  BY DEF Good
<1>2. d.ticket[t].cycle = n
  BY <1>1 DEF Cycled
<1>3. FinishRating(d, t, reason) = e
  <2>1. [Change(d, t, [d.ticket[t] EXCEPT !.status = "closed"]) EXCEPT !.cycle[n] = Over(@, reason)] = g
    BY <1>1 DEF Change, Concluded, Typed
  <2> QED BY <1>2, <2>1 DEF FinishRating
<1>4. /\ Good(g) /\ g.inbox = d.inbox /\ Len(g.cycle) = n /\ Unclosed(g) = {}
      /\ g.client = d.client /\ g.buffer = d.buffer
      /\ \A c \in DOMAIN d.cycle : c # n => g.cycle[c] = d.cycle[c]
      /\ g.cycle[n].attempts = 0 /\ g.cycle[n].finished = reason
  <2> HIDE DEF g
  <2>1. LET h == Concluded(d, t, reason)
        IN /\ Good(h) /\ h.inbox = d.inbox /\ Len(h.cycle) = Len(d.cycle) /\ Unclosed(h) = {}
           /\ h.client = d.client /\ h.buffer = d.buffer
           /\ \A c \in DOMAIN d.cycle : c # Len(d.cycle) => h.cycle[c] = d.cycle[c]
           /\ h.cycle[Len(d.cycle)].attempts = 0 /\ h.cycle[Len(d.cycle)].finished = reason
    BY RatedKeeps
  <2> QED BY <2>1 DEF g
<1> HIDE DEF g
<1>5. Good(e) /\ e = [g EXCEPT !.out = e.out]
  BY <1>4, CancelKeeps
<1> HIDE DEF e
<1>6. /\ e.inbox = g.inbox /\ e.cycle = g.cycle /\ e.ticket = g.ticket /\ e.client = g.client
      /\ e.buffer = g.buffer
  BY <1>4, <1>5 DEF Good, Typed
<1>7. Unclosed(e) = {}
  BY <1>4, <1>6 DEF Unclosed, Tickets
<1> QED BY <1>3, <1>4, <1>5, <1>6, <1>7

LEMMA ReasonsGiven == {"rated", "expired", "notification_not_delivered", "attempts_exhausted", "auto_closed"} \subseteq Reasons
BY DEF Reasons

\* Only the rating that is asked for may be answered.
AnswersAsked(d, e) ==
    /\ Len(e.cycle) = Len(d.cycle)
    /\ \A c \in DOMAIN d.cycle \ {Asked(d)} :
          /\ e.cycle[c].attempts <= d.cycle[c].attempts
          /\ e.cycle[c].finished \in {"rated", "attempts_exhausted"} =>
                e.cycle[c].finished = d.cycle[c].finished

LEMMA InvalidKeeps ==
  ASSUME NEW d, Good(d), NEW t \in Tickets(d), d.ticket[t].status = "awaiting_rating"
  PROVE  LET e == InvalidAnswer(d, t)
         IN /\ Good(e) /\ e.inbox = d.inbox /\ Len(e.cycle) = Len(d.cycle)
            /\ e.client = d.client /\ e.buffer = d.buffer
            /\ \A u \in Unclosed(e) : e.ticket[u].status = "awaiting_rating"
            /\ \A c \in DOMAIN d.cycle : c # Len(d.cycle) => e.cycle[c] = d.cycle[c]
<1> DEFINE n == Len(d.cycle)
<1> DEFINE old == d.cycle[n]
<1> DEFINE a == old.attempts + 1
<1> DEFINE new == [old EXCEPT !.attempts = a]
<1> DEFINE cy == [d.cycle EXCEPT ![n] = new]
<1> DEFINE told == [d EXCEPT !.cycle = cy]
<1>1. /\ Typed(d) /\ Cycled(d) /\ Emptied(d) /\ Messaged(d) /\ Ordered(d) /\ Answering(d) /\ Addressed(d)
  BY DEF Good
<1>2. /\ d.cycle \in Seq(AnyCycle) /\ n \in Nat /\ DOMAIN d.cycle = 1 .. n
      /\ Tickets(d) = 1 .. Len(d.ticket)
  BY <1>1, Domains DEF Typed
<1>3. d.ticket[t].cycle = n /\ n # 0
  BY <1>1 DEF Cycled
<1>4. n \in 1 .. Len(d.cycle)
  <2>1. \A m \in Nat : m # 0 => m \in 1 .. m
    OBVIOUS
  <2> QED BY <1>2, <1>3, <2>1
<1>5. old \in AnyCycle
  BY <1>2, <1>4, ElementOfSeq
<1>6. a \in Nat /\ MaxAttempts \in Nat
  BY <1>5, BoundsAssumption DEF AnyCycle
<1> HIDE DEF a
<1>7. [d EXCEPT !.cycle[n].attempts = @ + 1] = told
  BY <1>1 DEF Typed, a
<1>8. told.cycle = cy /\ cy[n] = new /\ new.attempts = a
  BY <1>1, <1>2, <1>4, <1>5 DEF Typed, AnyCycle
<1>9. InvalidAnswer(d, t) = IF a >= MaxAttempts THEN FinishRating(told, t, "attempts_exhausted")
                            ELSE Touch(told, t)
  BY <1>3, <1>7, <1>8 DEF InvalidAnswer
<1>10. CASE a >= MaxAttempts
  <2> DEFINE g == FinishRating(d, t, "attempts_exhausted")
  <2>1. /\ Good(g) /\ g.inbox = d.inbox /\ Len(g.cycle) = Len(d.cycle)
        /\ g.client = d.client /\ g.buffer = d.buffer /\ Unclosed(g) = {}
        /\ \A c \in DOMAIN d.cycle : c # Len(d.cycle) => g.cycle[c] = d.cycle[c]
    BY FinishKeeps, ReasonsGiven
  <2>2. FinishRating(told, t, "attempts_exhausted") = g
    <3>1. told.ticket = d.ticket
      BY <1>1 DEF Typed
    <3>2. Over(new, "attempts_exhausted") = Over(old, "attempts_exhausted")
      BY <1>5 DEF Over, AnyCycle
    <3> DEFINE row == [d.ticket[t] EXCEPT !.status = "closed"]
    <3>3. [Change(told, t, row) EXCEPT !.cycle[n] = Over(@, "attempts_exhausted")]
             = [Change(d, t, row) EXCEPT !.cycle[n] = Over(@, "attempts_exhausted")]
      <4> HIDE DEF row
      <4>1. [Change(told, t, row) EXCEPT !.cycle[n] = Over(@, "attempts_exhausted")]
              = [d EXCEPT !.ticket = [d.ticket EXCEPT ![t] = row], !.closing = Outdated(d.closing, t),
                          !.cycle = [cy EXCEPT ![n] = Over(cy[n], "attempts_exhausted")]]
        BY <1>1 DEF Change, Typed
      <4>2. [Change(d, t, row) EXCEPT !.cycle[n] = Over(@, "attempts_exhausted")]
              = [d EXCEPT !.ticket = [d.ticket EXCEPT ![t] = row], !.closing = Outdated(d.closing, t),
                          !.cycle = [d.cycle EXCEPT ![n] = Over(d.cycle[n], "attempts_exhausted")]]
        BY <1>1 DEF Change, Typed
      <4>3. [cy EXCEPT ![n] = Over(cy[n], "attempts_exhausted")]
              = [d.cycle EXCEPT ![n] = Over(d.cycle[n], "attempts_exhausted")]
        BY <1>8, <3>2
      <4> QED BY <4>1, <4>2, <4>3
    <3> QED BY <1>3, <3>1, <3>3 DEF FinishRating
  <2> HIDE DEF g
  <2> QED BY <1>9, <1>10, <2>1, <2>2
<1>11. CASE ~(a >= MaxAttempts)
  <2>1. a \in 0 .. MaxAttempts
    BY <1>6, <1>11
  <2>2. /\ new \in AnyCycle /\ new.ticket = old.ticket /\ new.finished = old.finished
        /\ new.expired = old.expired /\ new.invalidated = old.invalidated /\ new.before = old.before
    BY <1>5, <2>1 DEF AnyCycle
  <2> HIDE DEF new
  <2>3. /\ cy \in Seq(AnyCycle) /\ Len(cy) = Len(d.cycle)
        /\ \A c \in 1 .. Len(d.cycle) : cy[c] = IF c = n THEN new ELSE d.cycle[c]
    BY <1>2, <1>4, <2>2, ExceptSeq
  <2> HIDE DEF cy
  <2>4. Typed(told)
    BY <1>1, <2>3 DEF Typed
  <2>5. /\ told.inbox = d.inbox /\ told.client = d.client /\ told.buffer = d.buffer
        /\ told.message = d.message /\ told.out = d.out /\ told.replies = d.replies
        /\ told.ticket = d.ticket /\ told.cycle = cy /\ told.closing = d.closing
    BY <1>1 DEF Typed
  <2> HIDE DEF told
  <2>6. \A c \in DOMAIN d.cycle :
           /\ told.cycle[c].ticket = d.cycle[c].ticket
           /\ told.cycle[c].finished = d.cycle[c].finished
           /\ d.cycle[c].expired => told.cycle[c].expired
           /\ d.cycle[c].invalidated => told.cycle[c].invalidated
           /\ told.cycle[c].before = d.cycle[c].before
           /\ c # n => told.cycle[c] = d.cycle[c]
    BY <1>2, <2>2, <2>3, <2>5
  <2>7. Quiet(d, told)
    BY <1>1, <2>3, <2>5, <2>6 DEF Quiet, Emptied
  <2>8. StillOrdered(d, told) /\ Messaged(told) /\ Answering(told) /\ Addressed(told)
    BY <1>1, <2>3, <2>5 DEF StillOrdered, Ordered, Messaged, Answering, Addressed, Tickets
  <2>9. Good(told)
    BY <2>4, <2>7, <2>8, QuietKeeps
  <2> DEFINE g == Touch(told, t)
  <2>10. Good(g) /\ g = [told EXCEPT !.closing = g.closing]
    BY <2>9, TouchKeeps
  <2> HIDE DEF g
  <2>11. /\ g.inbox = told.inbox /\ g.cycle = told.cycle /\ g.client = told.client
         /\ g.buffer = told.buffer /\ g.ticket = told.ticket
    BY <2>4, <2>10 DEF Typed
  <2>12. InvalidAnswer(d, t) = g
    BY <1>9, <1>11 DEF g
  <2>13. \A u \in Unclosed(g) : u = t
    <3>1. t \in Unclosed(d) /\ OneOpen(d)
      BY DEF Unclosed, Good
    <3> QED BY <2>5, <2>11, <3>1 DEF Unclosed, Tickets, OneOpen
  <2>14. \A u \in Unclosed(g) : g.ticket[u].status = "awaiting_rating"
    BY <2>5, <2>11, <2>13
  <2> QED BY <2>3, <2>5, <2>6, <2>10, <2>11, <2>12, <2>14
<1> QED BY <1>10, <1>11

LEMMA AcceptRatingKeeps ==
  ASSUME NEW d, Good(d), NEW t \in Tickets(d), d.ticket[t].status = "awaiting_rating",
         NEW kind, NEW late \in BOOLEAN,
         late =>
            \A i \in Pending(d) : d.inbox[i].asked = Len(d.cycle) => d.inbox[i].late
  PROVE  LET e == AcceptRating(d, t, kind, late)
         IN /\ Good(e) /\ e.inbox = d.inbox /\ Len(e.cycle) = Len(d.cycle)
            /\ e.client = d.client /\ e.buffer = d.buffer
            /\ \A u \in Unclosed(e) : e.ticket[u].status = "awaiting_rating"
            /\ \A c \in DOMAIN d.cycle : c # Len(d.cycle) => e.cycle[c] = d.cycle[c]
<1>1. CASE late
  <2> DEFINE g == FinishRating(d, t, "expired")
  <2>1. AcceptRating(d, t, kind, late) = g
    BY <1>1 DEF AcceptRating
  <2>2. /\ Good(g) /\ g.inbox = d.inbox /\ Len(g.cycle) = Len(d.cycle)
        /\ g.client = d.client /\ g.buffer = d.buffer /\ Unclosed(g) = {}
        /\ \A c \in DOMAIN d.cycle : c # Len(d.cycle) => g.cycle[c] = d.cycle[c]
    BY <1>1, FinishKeeps, ReasonsGiven
  <2> HIDE DEF g
  <2> QED BY <2>1, <2>2
<1>2. CASE ~late /\ kind = "rating"
  <2> DEFINE g == FinishRating(d, t, "rated")
  <2>1. AcceptRating(d, t, kind, late) = g
    BY <1>2 DEF AcceptRating
  <2>2. /\ Good(g) /\ g.inbox = d.inbox /\ Len(g.cycle) = Len(d.cycle)
        /\ g.client = d.client /\ g.buffer = d.buffer /\ Unclosed(g) = {}
        /\ \A c \in DOMAIN d.cycle : c # Len(d.cycle) => g.cycle[c] = d.cycle[c]
    BY <1>2, FinishKeeps, ReasonsGiven
  <2> HIDE DEF g
  <2> QED BY <2>1, <2>2
<1>3. CASE ~late /\ kind # "rating"
  <2>1. AcceptRating(d, t, kind, late) = InvalidAnswer(d, t)
    BY <1>3 DEF AcceptRating
  <2> QED BY <2>1, InvalidKeeps
<1> QED BY <1>1, <1>2, <1>3

LEMMA MessageKeeps ==
  ASSUME NEW d, Good(d), ~d.client.erased, NEW i \in 1 .. MaxInputs, NEW t \in Tickets(d)
  PROVE  LET e == AddClientMessage(d, i, t)
         IN /\ Good(e) /\ e.inbox = d.inbox /\ e.cycle = d.cycle /\ e.ticket = d.ticket
            /\ e.client = d.client /\ e.buffer = d.buffer
<1> DEFINE row == [ticket |-> t, text |-> i]
<1> DEFINE ms == [d.message EXCEPT ![i] = row]
<1> DEFINE g == [d EXCEPT !.message = ms]
<1> DEFINE e == Touch(g, t)
<1>1. /\ Typed(d) /\ d.message \in [1 .. MaxInputs -> AnyMessage]
      /\ Emptied(d) /\ Messaged(d) /\ Ordered(d) /\ Answering(d) /\ Addressed(d)
  BY DEF Good, Typed
<1>2. Tickets(d) = 1 .. Len(d.ticket) /\ Len(d.ticket) \in Nat
  BY <1>1, Domains
<1>3. AddClientMessage(d, i, t) = e
  <2>1. [d EXCEPT !.message[i] = row] = g
    BY <1>1 DEF Typed
  <2> QED BY <2>1 DEF AddClientMessage
<1>4. row \in AnyMessage /\ row.ticket = t
  BY <1>2 DEF AnyMessage
<1> HIDE DEF row
<1>5. /\ ms \in [1 .. MaxInputs -> AnyMessage]
      /\ \A k \in 1 .. MaxInputs : ms[k] = IF k = i THEN row ELSE d.message[k]
  BY <1>1, <1>4
<1> HIDE DEF ms
<1>6. Typed(g)
  BY <1>1, <1>5 DEF Typed
<1>7. /\ g.inbox = d.inbox /\ g.client = d.client /\ g.buffer = d.buffer
      /\ g.message = ms /\ g.out = d.out /\ g.replies = d.replies
      /\ g.ticket = d.ticket /\ g.cycle = d.cycle /\ g.closing = d.closing
  BY <1>1 DEF Typed
<1> HIDE DEF g
<1>8. Quiet(d, g)
  BY <1>7 DEF Quiet
<1>9. Messaged(g)
  BY <1>1, <1>2, <1>4, <1>5, <1>7 DEF Messaged
<1>10. StillOrdered(d, g) /\ Answering(g) /\ Addressed(g)
  BY <1>1, <1>7 DEF StillOrdered, Ordered, Answering, Addressed, Tickets
<1>11. Good(g)
  BY <1>6, <1>8, <1>9, <1>10, QuietKeeps
<1>12. Good(e) /\ e = [g EXCEPT !.closing = e.closing]
  BY <1>11, TouchKeeps
<1> HIDE DEF e
<1>13. /\ e.inbox = g.inbox /\ e.cycle = g.cycle /\ e.ticket = g.ticket
       /\ e.client = g.client /\ e.buffer = g.buffer
  BY <1>6, <1>12 DEF Typed
<1> QED BY <1>3, <1>7, <1>12, <1>13

NewRow(d) == [status |-> "open", lifecycle |-> 1, revision |-> d.client.revision, cycle |-> 0,
              waiting |-> FALSE, heard |-> FALSE, purged |-> FALSE]

LEMMA OpenKeeps ==
  ASSUME NEW d, Good(d), d.client.state = "granted", Unclosed(d) = {}
  PROVE  LET e == OpenTicket(d)
         IN /\ Good(e) /\ e.inbox = d.inbox /\ e.cycle = d.cycle
            /\ e.client = d.client /\ e.buffer = d.buffer
            /\ Tickets(e) = Tickets(d) \cup {Len(d.ticket) + 1}
            /\ \A t \in Tickets(d) : e.ticket[t] = d.ticket[t]
            /\ e.ticket[Len(d.ticket) + 1] = NewRow(d)
<1> DEFINE n == Len(d.ticket)
<1> DEFINE row == NewRow(d)
<1> DEFINE tk == Append(d.ticket, row)
<1> DEFINE e == [d EXCEPT !.ticket = tk]
<1>1. /\ Typed(d) /\ OneOpen(d) /\ WithConsent(d) /\ Cycled(d) /\ Counted(d) /\ Emptied(d) /\ Messaged(d)
      /\ Ordered(d) /\ Handleable(d) /\ Asking(d) /\ Heard(d) /\ Answering(d) /\ Addressed(d)
  BY DEF Good
<1>2. /\ d.ticket \in Seq(Ticket) /\ n \in Nat /\ Tickets(d) = 1 .. n
      /\ d.client \in Client /\ Len(d.cycle) \in Nat
  BY <1>1, Domains DEF Typed
<1>3. OpenTicket(d) = e
  BY <1>1 DEF OpenTicket, Typed, NewRow
<1>4. /\ row \in Ticket /\ row.status = "open" /\ row.cycle = 0 /\ ~row.heard
  <2>1. 0 \in 0 .. MaxCycles /\ d.client.revision \in Nat
    BY <1>2, BoundsAssumption DEF Client
  <2> QED BY <2>1 DEF NewRow, Ticket
<1> HIDE DEF row
<1>5. /\ tk \in Seq(Ticket) /\ Len(tk) = n + 1
      /\ \A t \in 1 .. n : tk[t] = d.ticket[t]
      /\ tk[n + 1] = row
  BY <1>2, <1>4, AppendProperties
<1> HIDE DEF tk
<1>6. Typed(e)
  BY <1>1, <1>5 DEF Typed
<1>7. /\ e.inbox = d.inbox /\ e.client = d.client /\ e.buffer = d.buffer
      /\ e.message = d.message /\ e.out = d.out /\ e.replies = d.replies
      /\ e.ticket = tk /\ e.cycle = d.cycle /\ e.closing = d.closing
  BY <1>1 DEF Typed
<1> HIDE DEF e
<1>8. Tickets(e) = 1 .. n + 1 /\ Pending(e) = Pending(d) /\ Tickets(e) = Tickets(d) \cup {n + 1}
  BY <1>2, <1>5, <1>6, <1>7, Domains DEF Pending
<1>9. \A t \in Tickets(d) : e.ticket[t] = d.ticket[t] /\ d.ticket[t].status = "closed"
  BY <1>2, <1>5, <1>7 DEF Unclosed
<1>10. e.ticket[n + 1] = row
  BY <1>5, <1>7
<1>11. Unclosed(e) \subseteq {n + 1}
  BY <1>8, <1>9 DEF Unclosed
<1>12. OneOpen(e) /\ WithConsent(e)
  BY <1>7, <1>11 DEF OneOpen, WithConsent
<1>13. Cycled(e)
  <2>1. \A t \in Tickets(d) :
          /\ e.ticket[t].cycle \in 0 .. Len(d.cycle)
          /\ e.ticket[t].status \in Working => e.ticket[t].cycle = 0
          /\ e.ticket[t].status # "awaiting_rating"
    BY <1>1, <1>9 DEF Cycled
  <2>2. /\ e.ticket[n + 1].cycle \in 0 .. Len(d.cycle)
        /\ e.ticket[n + 1].status \in Working => e.ticket[n + 1].cycle = 0
        /\ e.ticket[n + 1].status # "awaiting_rating"
    BY <1>2, <1>4, <1>10
  <2> QED BY <1>7, <1>8, <2>1, <2>2 DEF Cycled
<1>14. Counted(e)
  BY <1>1, <1>7, <1>8, <1>9 DEF Counted
<1>15. Messaged(e)
  BY <1>1, <1>2, <1>5, <1>7 DEF Messaged
<1>16. Emptied(e)
  BY <1>1, <1>7 DEF Emptied
<1>17. Ordered(e)
  BY <1>1, <1>7, <1>8, <1>9 DEF Ordered
<1>18. Handleable(e)
  BY <1>1, <1>7, <1>8 DEF Handleable
<1>19. Asking(e)
  <2>1. \A t \in Tickets(e) : e.ticket[t].status # "awaiting_rating"
    BY <1>4, <1>8, <1>9, <1>10
  <2>2. \A i \in Pending(d) :
        /\ d.inbox[i].asked \in 0 .. Len(d.cycle)
        /\ d.inbox[i].asked # 0 /\ ~d.inbox[i].late =>
              d.cycle[d.inbox[i].asked].finished \notin {"expired", "notification_not_delivered"}
        /\ d.inbox[i].late =>
              /\ d.inbox[i].asked # 0
              /\ \A k \in Pending(d) : i < k /\ d.inbox[k].asked = d.inbox[i].asked => d.inbox[k].late
    BY <1>1 DEF Asking
  <2> QED BY <1>7, <1>8, <2>1, <2>2 DEF Asking
<1>20. Heard(e)
  BY <1>4, <1>8, <1>9, <1>10 DEF Heard, Working
<1>21. Answering(e) /\ Addressed(e)
  BY <1>1, <1>7, <1>8 DEF Answering, Addressed
<1>22. Good(e)
  BY <1>6, <1>12, <1>13, <1>14, <1>15, <1>16, <1>17, <1>18, <1>19, <1>20, <1>21 DEF Good
<1> QED BY <1>3, <1>7, <1>8, <1>9, <1>10, <1>22 DEF row

LEMMA NewTicketKeeps ==
  ASSUME NEW d, Good(d), d.client.state = "granted", Unclosed(d) = {}, NEW i \in 1 .. MaxInputs
  PROVE  LET e == NewTicket(d, i)
         IN /\ Good(e) /\ e.inbox = d.inbox /\ e.cycle = d.cycle
            /\ e.client = d.client /\ e.buffer = d.buffer
            /\ \A t \in Unclosed(e) : ~e.ticket[t].heard
<1> DEFINE n == Len(d.ticket)
<1> DEFINE g == OpenTicket(d)
<1>1. ~d.client.erased
  BY DEF Good, Emptied
<1>2. /\ Good(g) /\ g.inbox = d.inbox /\ g.cycle = d.cycle
      /\ g.client = d.client /\ g.buffer = d.buffer
      /\ Tickets(g) = Tickets(d) \cup {n + 1}
      /\ \A t \in Tickets(d) : g.ticket[t] = d.ticket[t]
      /\ g.ticket[n + 1] = NewRow(d)
  BY OpenKeeps
<1> HIDE DEF g
<1> DEFINE e == AddClientMessage(g, i, n + 1)
<1>3. /\ Good(e) /\ e.inbox = g.inbox /\ e.cycle = g.cycle /\ e.ticket = g.ticket
      /\ e.client = g.client /\ e.buffer = g.buffer
  <2>1. n + 1 \in Tickets(g) /\ ~g.client.erased
    BY <1>1, <1>2
  <2> DEFINE u == n + 1
  <2> HIDE DEF u
  <2>2. u \in Tickets(g)
    BY <2>1 DEF u
  <2>3. LET h == AddClientMessage(g, i, u)
        IN /\ Good(h) /\ h.inbox = g.inbox /\ h.cycle = g.cycle /\ h.ticket = g.ticket
           /\ h.client = g.client /\ h.buffer = g.buffer
    BY <1>2, <2>1, <2>2, MessageKeeps
  <2> QED BY <2>3 DEF u
<1>4. NewTicket(d, i) = e
  BY DEF NewTicket, g
<1> HIDE DEF e
<1>5. Tickets(e) = Tickets(d) \cup {n + 1}
  BY <1>2, <1>3 DEF Tickets
<1>6. \A t \in Tickets(d) : e.ticket[t].status = "closed"
  BY <1>2, <1>3 DEF Unclosed
<1>7. ~e.ticket[n + 1].heard
  BY <1>2, <1>3 DEF NewRow
<1>8. \A t \in Unclosed(e) : ~e.ticket[t].heard
  BY <1>5, <1>6, <1>7 DEF Unclosed
<1> QED BY <1>2, <1>3, <1>4, <1>8

LEMMA ResumeKeeps ==
  ASSUME NEW d, Good(d), NEW t \in Tickets(d)
  PROVE  LET e == Resume(d, t)
         IN /\ Good(e) /\ e.inbox = d.inbox /\ e.cycle = d.cycle
            /\ e.client = d.client /\ e.buffer = d.buffer /\ Tickets(e) = Tickets(d)
            /\ \A u \in Tickets(d) \ {t} : e.ticket[u] = d.ticket[u]
            /\ ~e.ticket[t].heard
<1> DEFINE old == d.ticket[t]
<1> DEFINE row == [old EXCEPT !.waiting = FALSE, !.heard = FALSE]
<1> DEFINE tk == [d.ticket EXCEPT ![t] = row]
<1> DEFINE e == Change(d, t, row)
<1>1. /\ Typed(d) /\ d.ticket \in Seq(Ticket) /\ Tickets(d) = 1 .. Len(d.ticket)
      /\ Len(d.ticket) \in Nat
  BY Domains DEF Good, Typed
<1>2. old \in Ticket
  BY <1>1, Domains
<1>3. row \in Ticket /\ row.status = old.status /\ row.cycle = old.cycle /\ ~row.heard
  BY <1>2 DEF Ticket
<1>4. Resume(d, t) = e
  BY DEF Resume
<1> HIDE DEF row
<1>5. Good(e) /\ e = [d EXCEPT !.ticket = tk, !.closing = Outdated(d.closing, t)]
  BY <1>3, ChangeKeeps
<1>6. /\ tk \in Seq(Ticket) /\ Len(tk) = Len(d.ticket)
      /\ \A u \in 1 .. Len(d.ticket) : tk[u] = IF u = t THEN row ELSE d.ticket[u]
  BY <1>1, <1>3, ExceptSeq
<1> HIDE DEF tk, e
<1>7. /\ e.inbox = d.inbox /\ e.cycle = d.cycle /\ e.client = d.client /\ e.buffer = d.buffer
      /\ e.ticket = tk
  BY <1>1, <1>5 DEF Typed
<1>8. Tickets(e) = Tickets(d)
  BY <1>1, <1>5, <1>6, <1>7, Domains DEF Good
<1> QED BY <1>1, <1>3, <1>4, <1>5, <1>6, <1>7, <1>8

LEMMA ContinueKeeps ==
  ASSUME NEW d, Good(d), NEW i \in 1 .. MaxInputs, NEW t \in Tickets(d),
         d.ticket[t].status \in Working
  PROVE  LET e == ContinueTicket(d, i, t)
         IN /\ Good(e) /\ e.inbox = d.inbox /\ e.cycle = d.cycle
            /\ e.client = d.client /\ e.buffer = d.buffer
            /\ \A u \in Unclosed(e) : ~e.ticket[u].heard
<1>1. Typed(d) /\ OneOpen(d) /\ Emptied(d) /\ Heard(d)
  BY DEF Good
<1>2. t \in Unclosed(d) /\ ~d.client.erased
  BY <1>1 DEF Unclosed, Working, Emptied
<1> DEFINE g == IF d.ticket[t].waiting THEN Resume(d, t) ELSE d
<1>3. /\ Good(g) /\ g.inbox = d.inbox /\ g.cycle = d.cycle
      /\ g.client = d.client /\ g.buffer = d.buffer /\ Tickets(g) = Tickets(d)
      /\ \A u \in Tickets(d) \ {t} : g.ticket[u] = d.ticket[u]
      /\ ~g.ticket[t].heard
  <2>1. CASE d.ticket[t].waiting
    BY <2>1, ResumeKeeps
  <2>2. CASE ~d.ticket[t].waiting
    BY <1>1, <2>2 DEF Heard
  <2> QED BY <2>1, <2>2
<1>4. ContinueTicket(d, i, t) = AddClientMessage(g, i, t)
  BY DEF ContinueTicket
<1> HIDE DEF g
<1> DEFINE e == AddClientMessage(g, i, t)
<1>5. /\ Good(e) /\ e.inbox = g.inbox /\ e.cycle = g.cycle /\ e.ticket = g.ticket
      /\ e.client = g.client /\ e.buffer = g.buffer
  BY <1>2, <1>3, MessageKeeps
<1> HIDE DEF e
<1>6. \A u \in Tickets(d) \ {t} : d.ticket[u].status = "closed"
  BY <1>1, <1>2 DEF OneOpen, Unclosed
<1>7. \A u \in Unclosed(e) : ~e.ticket[u].heard
  BY <1>3, <1>5, <1>6 DEF Unclosed, Tickets
<1> QED BY <1>3, <1>4, <1>5, <1>7 DEF e

\* A message is handled once consent is given; late is whether the rating it answers has ended.
LEMMA HandleKeeps ==
  ASSUME NEW d, Good(d), d.client.state = "granted", NEW i \in 1 .. MaxInputs,
         NEW kind \in Messages, NEW late \in BOOLEAN,
         late /\ Asked(d) # 0 => \A k \in Pending(d) : d.inbox[k].asked = Len(d.cycle) => d.inbox[k].late
  PROVE  LET e == HandleContent(d, i, kind, late)
         IN /\ Good(e) /\ e.inbox = d.inbox /\ e.client = d.client /\ e.buffer = d.buffer
            /\ AnswersAsked(d, e)
            /\ kind # "void" => \A u \in Unclosed(e) : e.ticket[u].status \in Working => ~e.ticket[u].heard
<1> DEFINE t == Current(d)
<1> DEFINE e == HandleContent(d, i, kind, late)
<1>1. Typed(d) /\ OneOpen(d) /\ Cycled(d)
  BY DEF Good
<1>2. \A c \in DOMAIN d.cycle : d.cycle[c].attempts \in Nat
  BY <1>1, Domains DEF AnyCycle
<1>3. CASE t # 0 /\ d.ticket[t].status = "awaiting_rating"
  <2> DEFINE g == AcceptRating(d, t, kind, late)
  <2>1. e = g
    BY <1>3 DEF HandleContent
  <2>2. t \in Tickets(d)
    BY <1>1, <1>3, CurrentIs DEF Unclosed
  <2>3. Asked(d) = Len(d.cycle) /\ Asked(d) # 0
    BY <1>1, <1>3, <2>2, AskedIs
  <2> DEFINE u == t
  <2> HIDE DEF t
  <2>4. /\ Good(g) /\ g.inbox = d.inbox /\ Len(g.cycle) = Len(d.cycle)
        /\ g.client = d.client /\ g.buffer = d.buffer
        /\ \A v \in Unclosed(g) : g.ticket[v].status = "awaiting_rating"
        /\ \A c \in DOMAIN d.cycle : c # Len(d.cycle) => g.cycle[c] = d.cycle[c]
    BY <1>3, <2>2, <2>3, AcceptRatingKeeps
  <2> HIDE DEF g, e
  <2>5. AnswersAsked(d, e)
    BY <1>2, <2>1, <2>3, <2>4 DEF AnswersAsked
  <2> QED BY <2>1, <2>4, <2>5 DEF Working, e
<1>4. CASE t # 0 /\ d.ticket[t].status # "awaiting_rating" /\ kind # "void"
  <2> DEFINE g == ContinueTicket(d, i, t)
  <2>1. e = g
    BY <1>4 DEF HandleContent
  <2>2. t \in Tickets(d) /\ d.ticket[t].status \in Working
    <3>1. t \in Tickets(d) /\ d.ticket[t].status # "closed"
      BY <1>1, <1>4, CurrentIs DEF Unclosed
    <3>2. d.ticket[t] \in Ticket
      BY <1>1, <3>1, Domains
    <3> QED BY <1>4, <3>1, <3>2 DEF Ticket, Working
  <2> HIDE DEF t
  <2>3. /\ Good(g) /\ g.inbox = d.inbox /\ g.cycle = d.cycle
        /\ g.client = d.client /\ g.buffer = d.buffer
        /\ \A v \in Unclosed(g) : ~g.ticket[v].heard
    BY <2>2, ContinueKeeps
  <2> HIDE DEF g, e
  <2>4. AnswersAsked(d, e)
    BY <1>2, <2>1, <2>3 DEF AnswersAsked
  <2> QED BY <2>1, <2>3, <2>4 DEF e
<1>5. CASE t = 0 /\ kind # "void"
  <2> DEFINE g == NewTicket(d, i)
  <2>1. e = g
    BY <1>5 DEF HandleContent
  <2>2. Unclosed(d) = {}
    BY <1>1, <1>5, CurrentIs
  <2> HIDE DEF t
  <2>3. /\ Good(g) /\ g.inbox = d.inbox /\ g.cycle = d.cycle
        /\ g.client = d.client /\ g.buffer = d.buffer
        /\ \A v \in Unclosed(g) : ~g.ticket[v].heard
    BY <2>2, NewTicketKeeps
  <2> HIDE DEF g, e
  <2>4. AnswersAsked(d, e)
    BY <1>2, <2>1, <2>3 DEF AnswersAsked
  <2> QED BY <2>1, <2>3, <2>4 DEF e
<1>6. CASE ~(t # 0 /\ d.ticket[t].status = "awaiting_rating") /\ kind = "void"
  <2>1. e = d
    BY <1>6 DEF HandleContent
  <2>2. AnswersAsked(d, d)
    BY <1>2 DEF AnswersAsked
  <2> HIDE DEF e
  <2> QED BY <1>6, <2>1, <2>2 DEF e
<1> QED BY <1>3, <1>4, <1>5, <1>6

-----------------------------------------------------------------------------
(* The messages kept until consent.                                        *)

LEMMA LeastNat ==
  ASSUME NEW S, S \subseteq Nat, S # {}
  PROVE  \E m \in S : \A k \in S : m <= k
<1>1. PICK m \in S : \A k \in S : ~(<<k, m>> \in OpToRel(<, Nat))
  BY NatLessThanWellFounded, WFMin
<1>2. \A k \in S : ~(k < m)
  BY <1>1 DEF OpToRel
<1> QED BY <1>2

\* The rows after the first k of the kept messages, for all k up to n.
IsHandled(f, d, kept, n) ==
    f = [k \in 0 .. n |-> IF k = 0 THEN d
                          ELSE HandleContent(f[k - 1], kept[k].input, kept[k].kind, FALSE)]

LEMMA HandledExists ==
  ASSUME NEW d, NEW kept, NEW n \in Nat
  PROVE  \E f : IsHandled(f, d, kept, n)
<1> DEFINE Missing == {m \in Nat : ~\E f : IsHandled(f, d, kept, m)}
<1>1. Missing = {}
  <2> SUFFICES ASSUME Missing # {} PROVE FALSE
    OBVIOUS
  <2>1. PICK m \in Missing : \A k \in Missing : m <= k
    BY LeastNat
  <2>2. CASE m = 0
    <3> DEFINE f == [k \in 0 .. 0 |-> d]
    <3>1. IsHandled(f, d, kept, 0)
      BY DEF IsHandled
    <3> QED BY <2>2, <3>1
  <2>3. CASE m # 0
    <3>1. m - 1 \in Nat /\ m \in Nat /\ m - 1 \notin Missing
      BY <2>1, <2>3
    <3>2. PICK g : IsHandled(g, d, kept, m - 1)
      BY <3>1
    <3> DEFINE f == [k \in 0 .. m |-> IF k = m THEN HandleContent(g[m - 1], kept[m].input, kept[m].kind, FALSE)
                                      ELSE g[k]]
    <3>3. \A k \in 0 .. m - 1 :
             g[k] = IF k = 0 THEN d ELSE HandleContent(g[k - 1], kept[k].input, kept[k].kind, FALSE)
      BY <3>2 DEF IsHandled
    <3>4. \A k \in 0 .. m :
             f[k] = IF k = 0 THEN d ELSE HandleContent(f[k - 1], kept[k].input, kept[k].kind, FALSE)
      <4> SUFFICES ASSUME NEW k \in 0 .. m
                   PROVE  f[k] = IF k = 0 THEN d
                                 ELSE HandleContent(f[k - 1], kept[k].input, kept[k].kind, FALSE)
        OBVIOUS
      <4>1. CASE k = m
        <5>1. f[k] = HandleContent(g[m - 1], kept[m].input, kept[m].kind, FALSE)
          BY <4>1
        <5>2. f[m - 1] = g[m - 1]
          <6>1. m - 1 \in 0 .. m /\ m - 1 # m
            BY <2>3, <3>1
          <6> QED BY <6>1
        <5> QED BY <2>3, <4>1, <5>1, <5>2
      <4>2. CASE k # m
        <5>1. k \in 0 .. m - 1 /\ (k # 0 => k - 1 \in 0 .. m /\ k - 1 # m)
          BY <3>1, <4>2
        <5>2. f[k] = g[k] /\ (k # 0 => f[k - 1] = g[k - 1])
          BY <4>2, <5>1
        <5> HIDE DEF f
        <5> QED BY <3>3, <5>1, <5>2
      <4> QED BY <4>1, <4>2
    <3>5. IsHandled(f, d, kept, m)
      <4> DEFINE h == [k \in 0 .. m |-> IF k = 0 THEN d
                          ELSE HandleContent(f[k - 1], kept[k].input, kept[k].kind, FALSE)]
      <4>1. \A k \in 0 .. m : f[k] = h[k]
        BY <3>4
      <4>2. DOMAIN f = 0 .. m /\ DOMAIN h = 0 .. m
        OBVIOUS
      <4>3. f = h
        BY <4>1, <4>2
      <4> QED BY <4>3 DEF IsHandled
    <3> QED BY <2>1, <3>5
  <2> QED BY <2>2, <2>3
<1> QED BY <1>1

LEMMA ReleasedIs ==
  ASSUME NEW d, NEW kept, Len(kept) \in Nat
  PROVE  \E f : IsHandled(f, d, kept, Len(kept)) /\ Released(d, kept) = f[Len(kept)]
<1> DEFINE f == CHOOSE f : IsHandled(f, d, kept, Len(kept))
<1>1. IsHandled(f, d, kept, Len(kept))
  BY HandledExists
<1>2. Released(d, kept) = f[Len(kept)]
  BY DEF Released, IsHandled
<1> QED BY <1>1, <1>2

LEMMA ReleasedKeeps ==
  ASSUME NEW d, Good(d), d.client.state = "granted", NEW kept \in Seq(Buffered)
  PROVE  LET e == Released(d, kept)
         IN Good(e) /\ e.inbox = d.inbox /\ Len(e.cycle) = Len(d.cycle) /\ e.client = d.client
<1> DEFINE n == Len(kept)
<1> DEFINE Sound(e) == Good(e) /\ e.inbox = d.inbox /\ Len(e.cycle) = Len(d.cycle) /\ e.client = d.client
<1>1. n \in Nat /\ \A k \in 1 .. n : kept[k] \in Buffered
  BY LenProperties, ElementOfSeq
<1>2. PICK f : IsHandled(f, d, kept, n) /\ Released(d, kept) = f[n]
  BY <1>1, ReleasedIs
<1>3. \A k \in 0 .. n :
        f[k] = IF k = 0 THEN d ELSE HandleContent(f[k - 1], kept[k].input, kept[k].kind, FALSE)
  BY <1>2 DEF IsHandled
<1>4. ASSUME NEW k \in 1 .. n, Sound(f[k - 1])
      PROVE  Sound(f[k])
  <2> DEFINE g == f[k - 1]
  <2> DEFINE i == kept[k].input
  <2> DEFINE kind == kept[k].kind
  <2>1. f[k] = HandleContent(g, i, kind, FALSE)
    <3>1. k \in 0 .. n /\ k # 0
      BY <1>1
    <3>2. f[k] = HandleContent(f[k - 1], kept[k].input, kept[k].kind, FALSE)
      BY <1>3, <3>1
    <3> QED BY <3>2
  <2>2. i \in 1 .. MaxInputs /\ kind \in Messages
    BY <1>1 DEF Buffered
  <2>3. Good(g) /\ g.inbox = d.inbox /\ Len(g.cycle) = Len(d.cycle) /\ g.client = d.client
    BY <1>4
  <2> HIDE DEF g, i, kind
  <2> DEFINE e == HandleContent(g, i, kind, FALSE)
  <2>4. Good(e) /\ e.inbox = g.inbox /\ e.client = g.client /\ AnswersAsked(g, e)
    BY <2>2, <2>3, HandleKeeps
  <2> HIDE DEF e
  <2>5. Good(e) /\ e.inbox = d.inbox /\ Len(e.cycle) = Len(d.cycle) /\ e.client = d.client
    BY <2>3, <2>4 DEF AnswersAsked
  <2> QED BY <2>1, <2>5 DEF e
<1> HIDE DEF Sound
<1>5. \A k \in 0 .. n : Sound(f[k])
  <2> DEFINE Bad == {k \in 0 .. n : ~Sound(f[k])}
  <2> SUFFICES ASSUME Bad # {} PROVE FALSE
    OBVIOUS
  <2>1. Bad \subseteq Nat
    OBVIOUS
  <2>2. PICK m \in Bad : \A k \in Bad : m <= k
    BY <2>1, LeastNat
  <2>3. m \in 0 .. n /\ ~Sound(f[m])
    OBVIOUS
  <2>4. m # 0
    BY <1>1, <1>3, <2>3 DEF Sound
  <2>5. m \in 1 .. n /\ m - 1 \in 0 .. n /\ ~(m <= m - 1)
    BY <1>1, <2>3, <2>4
  <2>6. m - 1 \notin Bad
    BY <2>2, <2>5
  <2>7. Sound(f[m - 1])
    BY <2>5, <2>6
  <2> QED BY <1>4, <2>3, <2>5, <2>7
<1>6. Sound(f[n])
  BY <1>1, <1>5
<1> QED BY <1>2, <1>6 DEF Sound

LEMMA AcceptKeeps ==
  ASSUME NEW d, Good(d), ~d.client.erased, NEW n \in 0 .. Len(d.buffer)
  PROVE  LET e == AcceptConsent(d, n)
         IN Good(e) /\ e.inbox = d.inbox /\ Len(e.cycle) = Len(d.cycle)
<1>1. CASE ~Grantable(d)
  BY <1>1 DEF AcceptConsent
<1>2. CASE Grantable(d)
  <2> DEFINE kept == SubSeq(d.buffer, n + 1, Len(d.buffer))
  <2> DEFINE g == GrantConsent(d)
  <2> DEFINE h == Released(g, kept)
  <2> DEFINE e == [h EXCEPT !.buffer = <<>>]
  <2>1. AcceptConsent(d, n) = e
    BY <1>2 DEF AcceptConsent
  <2>2. kept \in Seq(Buffered)
    <3>1. Len(d.buffer) \in Nat /\ \A i \in 1 .. Len(d.buffer) : d.buffer[i] \in Buffered
      BY Domains DEF Good
    <3>2. n + 1 \in Int /\ Len(d.buffer) \in Int /\ \A i \in n + 1 .. Len(d.buffer) : d.buffer[i] \in Buffered
      BY <3>1
    <3> QED BY <3>2, SubSeqProperties
  <2>3. /\ Good(g) /\ Beside(d, g) /\ g.client.state = "granted" /\ ~g.client.erased
    BY GrantKeeps
  <2> HIDE DEF kept, g
  <2>4. Good(h) /\ h.inbox = g.inbox /\ Len(h.cycle) = Len(g.cycle) /\ h.client = g.client
    BY <2>2, <2>3, ReleasedKeeps
  <2> HIDE DEF h
  <2>5. <<>> \in Seq(Buffered) /\ Len(<<>>) = 0 /\ 0 <= MaxBuffered
    BY EmptySeq, BoundsAssumption
  <2>6. Typed(e) /\ Beside(h, e) /\ e.client = h.client
    BY <2>4, <2>5 DEF Good, Typed, Beside
  <2> HIDE DEF e
  <2>7. Good(e) /\ e.inbox = h.inbox /\ Unanswered(h, e)
    BY <2>3, <2>4, <2>6, BesideKeeps
  <2> QED BY <2>1, <2>3, <2>4, <2>7 DEF Beside, Unanswered
<1> QED BY <1>1, <1>2


-----------------------------------------------------------------------------
(* Edits and removals of messages.                                         *)

LEMMA TextKeeps ==
  ASSUME NEW d, Good(d), ~d.client.erased, NEW i \in 1 .. MaxInputs, NEW m \in 1 .. MaxInputs,
         d.message[m].ticket # 0
  PROVE  LET e == [d EXCEPT !.message = [d.message EXCEPT ![m] = [d.message[m] EXCEPT !.text = i]]]
         IN Good(e) /\ e.inbox = d.inbox /\ e.cycle = d.cycle
<1> DEFINE row == [d.message[m] EXCEPT !.text = i]
<1> DEFINE ms == [d.message EXCEPT ![m] = row]
<1> DEFINE e == [d EXCEPT !.message = ms]
<1>1. /\ Typed(d) /\ d.message \in [1 .. MaxInputs -> AnyMessage]
      /\ Emptied(d) /\ Messaged(d) /\ Ordered(d) /\ Answering(d) /\ Addressed(d)
  BY DEF Good, Typed
<1>2. row \in AnyMessage /\ row.ticket = d.message[m].ticket
  <2>1. d.message[m] \in AnyMessage
    BY <1>1
  <2>2. i \in 0 .. MaxInputs
    BY BoundsAssumption
  <2> QED BY <2>1, <2>2 DEF AnyMessage
<1> HIDE DEF row
<1>3. /\ ms \in [1 .. MaxInputs -> AnyMessage]
      /\ \A k \in 1 .. MaxInputs : ms[k] = IF k = m THEN row ELSE d.message[k]
  BY <1>1, <1>2
<1> HIDE DEF ms
<1>4. Typed(e)
  BY <1>1, <1>3 DEF Typed
<1>5. /\ e.inbox = d.inbox /\ e.client = d.client /\ e.buffer = d.buffer
      /\ e.message = ms /\ e.out = d.out /\ e.replies = d.replies
      /\ e.ticket = d.ticket /\ e.cycle = d.cycle /\ e.closing = d.closing
  BY <1>1 DEF Typed
<1> HIDE DEF e
<1>6. Quiet(d, e)
  BY <1>5 DEF Quiet
<1>7. Messaged(e)
  BY <1>1, <1>2, <1>3, <1>5 DEF Messaged
<1>8. StillOrdered(d, e) /\ Answering(e) /\ Addressed(e)
  BY <1>1, <1>5 DEF StillOrdered, Ordered, Answering, Addressed, Tickets
<1>9. Good(e)
  BY <1>4, <1>6, <1>7, <1>8, QuietKeeps
<1> QED BY <1>5, <1>9 DEF e, ms, row

LEMMA ReviseKeeps ==
  ASSUME NEW d, Good(d), ~d.client.erased, NEW i \in 1 .. MaxInputs, NEW m \in 1 .. MaxInputs,
         d.message[m].ticket # 0
  PROVE  LET e == Revise(d, i, m)
         IN Good(e) /\ e.inbox = d.inbox /\ Unanswered(d, e)
<1> DEFINE t == d.message[m].ticket
<1> DEFINE f == [d EXCEPT !.message = [d.message EXCEPT ![m] = [d.message[m] EXCEPT !.text = i]]]
<1> DEFINE g == Touch(f, t)
<1> DEFINE e == Invalidate(g, {t})
<1>1. Typed(d) /\ d.message \in [1 .. MaxInputs -> AnyMessage]
  BY DEF Good, Typed
<1>2. Revise(d, i, m) = e
  <2>1. [d EXCEPT !.message[m].text = i] = f
    BY <1>1 DEF Typed
  <2> QED BY <2>1 DEF Revise
<1>3. Good(f) /\ f.inbox = d.inbox /\ f.cycle = d.cycle
  BY TextKeeps
<1> HIDE DEF f, t
<1>4. Good(g) /\ g = [f EXCEPT !.closing = g.closing]
  BY <1>3, TouchKeeps
<1> HIDE DEF g
<1>5. g.inbox = f.inbox /\ g.cycle = f.cycle
  BY <1>3, <1>4 DEF Good, Typed
<1>6. Good(e) /\ e.inbox = g.inbox /\ Unanswered(g, e)
  BY <1>4, InvalidateKeeps
<1> HIDE DEF e
<1>7. Unanswered(d, e)
  BY <1>3, <1>5, <1>6 DEF Unanswered
<1> QED BY <1>2, <1>3, <1>5, <1>6, <1>7

LEMMA ReviseMessageKeeps ==
  ASSUME NEW d, Good(d), NEW i \in 1 .. MaxInputs, NEW m \in 1 .. MaxInputs
  PROVE  LET e == ReviseClientMessage(d, i, m)
         IN Good(e) /\ e.inbox = d.inbox /\ Unanswered(d, e)
<1>1. Typed(d) /\ (d.client.state = "granted" => ~d.client.erased)
  BY DEF Good, Emptied
<1>2. CASE d.client.state # "granted"
  BY <1>1, <1>2, NothingAnswered DEF ReviseClientMessage
<1>3. CASE d.client.state = "granted" /\ d.message[m].ticket = 0
  <2> DEFINE e == [d EXCEPT !.revising = d.revising \cup {[input |-> i, target |-> m]}]
  <2>1. ReviseClientMessage(d, i, m) = e
    BY <1>1, <1>3 DEF ReviseClientMessage, Typed
  <2>2. Typed(e)
    <3>1. d.revising \cup {[input |-> i, target |-> m]} \in SUBSET Revision
      BY <1>1 DEF Typed, Revision
    <3> QED BY <1>1, <3>1 DEF Typed
  <2>3. Beside(d, e) /\ e.client = d.client /\ e.buffer = d.buffer
    BY <1>1 DEF Typed, Beside
  <2> HIDE DEF e
  <2>4. Good(e) /\ e.inbox = d.inbox /\ Unanswered(d, e)
    BY <1>1, <1>3, <2>2, <2>3, BesideKeeps
  <2> QED BY <2>1, <2>4
<1>4. CASE d.client.state = "granted" /\ d.message[m].ticket # 0
  BY <1>1, <1>4, ReviseKeeps DEF ReviseClientMessage
<1> QED BY <1>2, <1>3, <1>4

-----------------------------------------------------------------------------
(* The inbox.                                                              *)

LEMMA PromptKeeps ==
  ASSUME NEW d, Good(d)
  PROVE  LET e == SendConsentPrompt(d)
         IN Good(e) /\ e.inbox = d.inbox /\ e.cycle = d.cycle /\ e.ticket = d.ticket
BY OfferKeeps DEF SendConsentPrompt, Beside

LEMMA AskKeeps ==
  ASSUME NEW d, Good(d), ~d.client.erased, NEW i \in 1 .. MaxInputs, NEW kind
  PROVE  LET e == AskConsent(d, i, kind)
         IN Good(e) /\ e.inbox = d.inbox /\ e.cycle = d.cycle /\ e.ticket = d.ticket
<1> DEFINE g == Buffer(d, i, kind)
<1>1. CASE kind \in Messages
  <2>1. Good(g) /\ Beside(d, g)
    BY <1>1, BufferKeeps
  <2>2. g.inbox = d.inbox /\ g.cycle = d.cycle /\ g.ticket = d.ticket
    BY <2>1 DEF Beside
  <2>3. AskConsent(d, i, kind) = SendConsentPrompt(g)
    BY <1>1 DEF AskConsent
  <2> HIDE DEF g
  <2> QED BY <2>1, <2>2, <2>3, PromptKeeps
<1>2. CASE kind \notin Messages
  <2>1. AskConsent(d, i, kind) = SendConsentPrompt(d)
    BY <1>2 DEF AskConsent
  <2> QED BY <2>1, PromptKeeps
<1> QED BY <1>1, <1>2

LEMMA ButtonKeeps ==
  ASSUME NEW d, Good(d), ~d.client.erased, NEW b \in Buttons, NEW usable \in BOOLEAN,
         NEW n \in 0 .. Len(d.buffer)
  PROVE  LET e == HandleButton(d, b, usable, n)
         IN Good(e) /\ e.inbox = d.inbox /\ Len(e.cycle) = Len(d.cycle)
<1> DEFINE g == Pressed(d, b)
<1> DEFINE e == HandleButton(d, b, usable, n)
<1>1. CASE ~usable \/ d.buttons[b] = 0
  <2>1. e = d
    BY <1>1 DEF HandleButton
  <2> HIDE DEF e
  <2> QED BY <2>1 DEF e
<1>2. CASE usable /\ d.buttons[b] # 0
  <2>1. /\ Good(g) /\ Beside(d, g) /\ g.client = d.client /\ g.policy = d.policy
        /\ g.buffer = d.buffer
    BY <1>2, PressedKeeps
  <2>2. g.inbox = d.inbox /\ Len(g.cycle) = Len(d.cycle)
    BY <2>1 DEF Beside
  <2>3. b[1] \in {"accept", "decline", "withdraw", "keep"}
    BY DEF Buttons, Actions
  <2> DEFINE h == CASE b[1] = "withdraw"                                  -> WithdrawConsent(g)
                    [] b[1] = "keep"                                      -> g
                    [] b[1] \in {"accept", "decline"} /\ b[2] # d.policy  -> SendConsentPrompt(g)
                    [] b[1] = "accept" /\ b[2] = d.policy                 -> AcceptConsent(g, n)
                    [] b[1] = "decline" /\ b[2] = d.policy                -> DeclineConsent(g)
  <2>4. e = h
    BY <1>2 DEF HandleButton
  <2> HIDE DEF g, e
  <2> DEFINE Sound(f) == Good(f) /\ f.inbox = g.inbox /\ Len(f.cycle) = Len(g.cycle)
  <2>5. CASE b[1] = "withdraw"
    <3>1. Sound(WithdrawConsent(g))
      BY <2>1, WithdrawKeeps DEF Unanswered
    <3>2. h = WithdrawConsent(g)
      BY <2>5
    <3> QED BY <2>2, <2>4, <3>1, <3>2 DEF e
  <2>6. CASE b[1] = "keep"
    <3>1. h = g
      BY <2>6
    <3> QED BY <2>1, <2>2, <2>4, <3>1 DEF e
  <2>7. CASE b[1] \in {"accept", "decline"} /\ b[2] # d.policy
    <3>1. Sound(SendConsentPrompt(g))
      BY <2>1, PromptKeeps
    <3>2. h = SendConsentPrompt(g)
      BY <2>7
    <3> QED BY <2>2, <2>4, <3>1, <3>2 DEF e
  <2>8. CASE b[1] = "accept" /\ b[2] = d.policy
    <3>1. Sound(AcceptConsent(g, n))
      BY <2>1, AcceptKeeps
    <3>2. h = AcceptConsent(g, n)
      BY <2>8
    <3> QED BY <2>2, <2>4, <3>1, <3>2 DEF e
  <2>9. CASE b[1] = "decline" /\ b[2] = d.policy
    <3>1. Sound(DeclineConsent(g))
      BY <2>1, DeclineKeeps DEF Beside
    <3>2. h = DeclineConsent(g)
      BY <2>9
    <3> QED BY <2>2, <2>4, <3>1, <3>2 DEF e
  <2> QED BY <2>3, <2>5, <2>6, <2>7, <2>8, <2>9
<1> QED BY <1>1, <1>2

\* Nothing that is worked on has been written to since it began to wait.
Unheard(d) == \A t \in Unclosed(d) : d.ticket[t].status \in Working => ~d.ticket[t].heard

LEMMA RouteMessageKeeps ==
  ASSUME NEW d, Good(d), ~d.client.erased, NEW i \in Pending(d),
         d.inbox[i].kind \in Messages \cup {"start"}, \A k \in Pending(d) : i <= k
  PROVE  LET e == RouteMessage(d, i, d.inbox[i])
         IN /\ Good(e) /\ e.inbox = d.inbox /\ AnswersAsked(d, e)
            /\ d.inbox[i].kind \in {"text", "rating"} => Unheard(e)
<1> DEFINE row == d.inbox[i]
<1> DEFINE kind == row.kind
<1> DEFINE late == Late(d, row)
<1> DEFINE e == RouteMessage(d, i, row)
<1>1. /\ Typed(d) /\ OneOpen(d) /\ Cycled(d) /\ WithConsent(d) /\ Asking(d)
      /\ Len(d.inbox) <= MaxInputs
  BY DEF Good, Typed
<1>2. i \in DOMAIN d.inbox /\ DOMAIN d.inbox = 1 .. Len(d.inbox) /\ Len(d.inbox) \in Nat /\ row \in Input
  BY <1>1, Domains DEF Pending
<1>3. i \in 1 .. MaxInputs /\ late \in BOOLEAN
  BY <1>1, <1>2, BoundsAssumption DEF Input, Late
<1>4. \A c \in DOMAIN d.cycle : d.cycle[c].attempts \in Nat
  BY <1>1, Domains DEF AnyCycle
<1>5. CASE ~Consented(d)
  <2> DEFINE g == AskConsent(d, i, kind)
  <2>1. e = g
    BY <1>5 DEF RouteMessage
  <2>2. Unclosed(d) = {}
    BY <1>1, <1>5, CurrentIs DEF Consented, WithConsent
  <2>3. Good(g) /\ g.inbox = d.inbox /\ g.cycle = d.cycle /\ g.ticket = d.ticket
    BY <1>3, AskKeeps
  <2> HIDE DEF g, e
  <2>4. AnswersAsked(d, g)
    BY <1>4, <2>3 DEF AnswersAsked
  <2>5. Unheard(g)
    BY <2>2, <2>3 DEF Unheard, Unclosed, Tickets
  <2> QED BY <2>1, <2>3, <2>4, <2>5 DEF e
<1>6. CASE Consented(d) /\ kind = "start"
  <2>1. e = d
    BY <1>6 DEF RouteMessage, Messages
  <2>2. AnswersAsked(d, d) /\ kind \notin {"text", "rating"}
    BY <1>4, <1>6 DEF AnswersAsked
  <2> HIDE DEF e
  <2> QED BY <2>1, <2>2 DEF e
<1>7. CASE Consented(d) /\ kind \in Messages
  <2> DEFINE g == HandleContent(d, i, kind, late)
  <2>1. e = g
    BY <1>7 DEF RouteMessage, Messages
  <2>2. d.client.state = "granted"
    BY <1>7 DEF Consented
  <2>3. ASSUME late, Asked(d) # 0, NEW k \in Pending(d), d.inbox[k].asked = Len(d.cycle)
        PROVE  d.inbox[k].late
    <3>1. Asked(d) = Len(d.cycle)
      BY <1>1, <2>3, AskedIs
    <3>2. row.late /\ row.asked = d.inbox[k].asked
      BY <2>3, <3>1 DEF Late
    <3>3. i <= k /\ i \in Nat /\ k \in Nat
      BY <1>1, <1>2, Domains DEF Pending
    <3>4. CASE k = i
      BY <3>2, <3>4
    <3>5. CASE i < k
      BY <1>1, <3>2, <3>5 DEF Asking
    <3> QED BY <3>3, <3>4, <3>5
  <2>4. late /\ Asked(d) # 0 =>
           \A k \in Pending(d) : d.inbox[k].asked = Len(d.cycle) => d.inbox[k].late
    BY <2>3
  <2> DEFINE l == late
  <2> DEFINE q == kind
  <2>5. /\ l \in BOOLEAN /\ q \in Messages
        /\ l /\ Asked(d) # 0 =>
              \A k \in Pending(d) : d.inbox[k].asked = Len(d.cycle) => d.inbox[k].late
    BY <1>3, <1>7, <2>4
  <2>6. g = HandleContent(d, i, q, l)
    OBVIOUS
  <2> HIDE DEF g, e, l, q
  <2>7. /\ Good(g) /\ g.inbox = d.inbox /\ AnswersAsked(d, g)
        /\ q # "void" => \A u \in Unclosed(g) : g.ticket[u].status \in Working => ~g.ticket[u].heard
    BY <1>3, <2>2, <2>5, <2>6, HandleKeeps
  <2>8. kind \in {"text", "rating"} => Unheard(g)
    BY <2>7 DEF Unheard, q
  <2> QED BY <2>1, <2>7, <2>8 DEF e
<1> QED BY <1>5, <1>6, <1>7

LEMMA NotAnswered ==
  ASSUME NEW d, NEW e, Unanswered(d, e)
  PROVE  AnswersAsked(d, e) /\ Len(e.cycle) = Len(d.cycle)
BY DEF Unanswered, AnswersAsked

\* Only a press, with the messages kept until consent, may answer another rating than the asked one.
LEMMA RouteKeeps ==
  ASSUME NEW d, Good(d), NEW i \in Pending(d), \A k \in Pending(d) : i <= k,
         NEW usable \in BOOLEAN, NEW n \in 0 .. Len(d.buffer)
  PROVE  LET e == RouteInput(d, i, usable, n)
         IN /\ Good(e) /\ e.inbox = d.inbox /\ Len(e.cycle) = Len(d.cycle)
            /\ d.inbox[i].kind # "press" => AnswersAsked(d, e)
            /\ d.inbox[i].kind \in {"text", "rating"} => Unheard(e)
<1> DEFINE row == d.inbox[i]
<1> DEFINE kind == row.kind
<1> DEFINE e == RouteInput(d, i, usable, n)
<1>1. /\ Typed(d) /\ ~d.client.erased /\ Handleable(d) /\ Len(d.inbox) <= MaxInputs
  BY DEF Good, Typed, Emptied
<1>2. /\ i \in DOMAIN d.inbox /\ DOMAIN d.inbox = 1 .. Len(d.inbox) /\ Len(d.inbox) \in Nat
      /\ row \in Input
  BY <1>1, Domains DEF Pending
<1>3. i \in 1 .. MaxInputs /\ kind \in AllKinds
  BY <1>1, <1>2, BoundsAssumption DEF Input
<1>4. /\ kind = "edit" => row.target \in 1 .. MaxInputs
      /\ kind = "press" => row.button \in Buttons
  <2>1. row.target \in 0 .. MaxInputs
    BY <1>2 DEF Input
  <2>2. (kind = "edit" => row.target # 0) /\ (kind = "press" => row.button \in Buttons)
    BY <1>1 DEF Handleable
  <2> QED BY <2>1, <2>2, BoundsAssumption
<1>5. \A c \in DOMAIN d.cycle : d.cycle[c].attempts \in Nat
  BY <1>1, Domains DEF AnyCycle
<1> DEFINE Sound(f) == Good(f) /\ f.inbox = d.inbox /\ Unanswered(d, f)
<1>6. ASSUME Sound(e), kind \notin {"text", "rating"}
      PROVE  /\ Good(e) /\ e.inbox = d.inbox /\ Len(e.cycle) = Len(d.cycle)
             /\ AnswersAsked(d, e) /\ kind \notin {"text", "rating"}
  BY <1>6, NotAnswered
<1>7. CASE kind = "press"
  <2> DEFINE g == HandleButton(d, row.button, usable, n)
  <2>1. e = g
    BY <1>7 DEF RouteInput, Messages
  <2>2. Good(g) /\ g.inbox = d.inbox /\ Len(g.cycle) = Len(d.cycle)
    BY <1>1, <1>4, <1>7, ButtonKeeps
  <2> HIDE DEF g, e
  <2> QED BY <1>7, <2>1, <2>2 DEF e
<1>8. CASE kind = "edit"
  <2> DEFINE g == ReviseClientMessage(d, i, row.target)
  <2>1. e = g
    BY <1>8 DEF RouteInput, Messages
  <2>2. Sound(g)
    BY <1>3, <1>4, <1>8, ReviseMessageKeeps
  <2> HIDE DEF g, e
  <2> QED BY <1>6, <1>8, <2>1, <2>2 DEF e
<1>9. CASE kind = "withdraw"
  <2> DEFINE g == WithdrawConsent(d)
  <2>1. e = g
    BY <1>9 DEF RouteInput, Messages
  <2>2. Sound(g)
    BY WithdrawKeeps
  <2> HIDE DEF g, e
  <2> QED BY <1>6, <1>9, <2>1, <2>2 DEF e
<1>10. CASE kind = "leave"
  <2> DEFINE g == ConfirmWithdrawal(d)
  <2>1. e = g
    BY <1>10 DEF RouteInput, Messages
  <2>2. Sound(g)
    BY ConfirmKeeps
  <2> HIDE DEF g, e
  <2> QED BY <1>6, <1>10, <2>1, <2>2 DEF e
<1>11. CASE kind = "info"
  <2>1. e = d
    BY <1>11 DEF RouteInput, Messages
  <2>2. Sound(d)
    BY <1>1, NothingAnswered
  <2> HIDE DEF e
  <2> QED BY <1>6, <1>11, <2>1, <2>2 DEF e
<1>12. CASE kind \in Messages \cup {"start"}
  <2> DEFINE g == RouteMessage(d, i, row)
  <2>1. e = g
    BY <1>12 DEF RouteInput, Messages
  <2>2. /\ Good(g) /\ g.inbox = d.inbox /\ AnswersAsked(d, g)
        /\ kind \in {"text", "rating"} => Unheard(g)
    BY <1>1, <1>12, RouteMessageKeeps
  <2> HIDE DEF g, e
  <2>3. Len(g.cycle) = Len(d.cycle)
    BY <2>2 DEF AnswersAsked
  <2> QED BY <2>1, <2>2, <2>3 DEF e
<1> QED BY <1>3, <1>7, <1>8, <1>9, <1>10, <1>11, <1>12 DEF AllKinds, Messages

LEMMA OldestIs ==
  ASSUME NEW d, Typed(d), Pending(d) # {}
  PROVE  Oldest(d) \in Pending(d) /\ \A k \in Pending(d) : Oldest(d) <= k
<1>1. Pending(d) \subseteq Nat
  BY Domains DEF Pending
<1> QED BY <1>1, LeastNat DEF Oldest

\* The rows after an input of them has been handled.
Handled(d, i) == [d EXCEPT !.inbox = [d.inbox EXCEPT ![i] = Closed(d.inbox[i], "done")]]

LEMMA HandledKeeps ==
  ASSUME NEW d, Good(d), NEW i \in Pending(d),
         d.inbox[i].kind \in {"text", "rating"} => Unheard(d)
  PROVE  LET e == Handled(d, i)
         IN Good(e) /\ e.cycle = d.cycle /\ e.ticket = d.ticket
<1> DEFINE row == Closed(d.inbox[i], "done")
<1> DEFINE ib == [d.inbox EXCEPT ![i] = row]
<1> DEFINE e == [d EXCEPT !.inbox = ib]
<1>1. /\ Typed(d) /\ OneOpen(d) /\ WithConsent(d) /\ Cycled(d) /\ Counted(d) /\ Emptied(d) /\ Messaged(d)
      /\ Ordered(d) /\ Handleable(d) /\ Asking(d) /\ Heard(d) /\ Answering(d) /\ Addressed(d)
      /\ d.inbox \in Seq(Input)
  BY DEF Good, Typed
<1>2. /\ i \in DOMAIN d.inbox /\ DOMAIN d.inbox = 1 .. Len(d.inbox) /\ Len(d.inbox) \in Nat
      /\ d.inbox[i] \in Input
  BY <1>1, Domains DEF Pending
<1>3. row \in Input /\ row.state = "done"
  BY <1>2, ClosedRow
<1> HIDE DEF row
<1>4. /\ ib \in Seq(Input) /\ Len(ib) = Len(d.inbox)
      /\ \A k \in DOMAIN d.inbox : ib[k] = IF k = i THEN row ELSE d.inbox[k]
  BY <1>1, <1>2, <1>3, ExceptSeq
<1>5. DOMAIN ib = DOMAIN d.inbox
  BY <1>1
<1> HIDE DEF ib
<1>6. Typed(e)
  BY <1>1, <1>4 DEF Typed
<1>7. /\ e.inbox = ib /\ e.client = d.client /\ e.buffer = d.buffer
      /\ e.message = d.message /\ e.out = d.out /\ e.replies = d.replies
      /\ e.ticket = d.ticket /\ e.cycle = d.cycle /\ e.closing = d.closing
  BY <1>1 DEF Typed
<1>8. Handled(d, i) = e
  BY DEF Handled, ib, row
<1> HIDE DEF e
<1>9. Pending(e) = Pending(d) \ {i} /\ \A k \in Pending(e) : e.inbox[k] = d.inbox[k]
  BY <1>3, <1>4, <1>5, <1>7 DEF Pending
<1>10. Tickets(e) = Tickets(d) /\ Unclosed(e) = Unclosed(d)
  BY <1>7 DEF Tickets, Unclosed
<1>11. OneOpen(e) /\ WithConsent(e) /\ Cycled(e) /\ Counted(e) /\ Messaged(e)
  BY <1>1, <1>7, <1>10 DEF OneOpen, WithConsent, Cycled, Counted, Messaged
<1>12. Emptied(e)
  BY <1>1, <1>7, <1>9, <1>10 DEF Emptied
<1>13. Ordered(e) /\ Answering(e) /\ Addressed(e)
  BY <1>1, <1>7, <1>10 DEF Ordered, Answering, Addressed
<1>14. Handleable(e)
  BY <1>1, <1>9 DEF Handleable
<1>15. Asking(e)
  BY <1>1, <1>7, <1>9, <1>10 DEF Asking
<1>16. Heard(e)
  <2>1. ASSUME NEW t \in Tickets(d), d.ticket[t].status \in Working, d.ticket[t].heard
        PROVE  d.ticket[t].waiting /\ \E k \in Pending(e) : e.inbox[k].kind \in {"text", "rating"}
    <3>1. PICK k \in Pending(d) : d.ticket[t].waiting /\ d.inbox[k].kind \in {"text", "rating"}
      BY <1>1, <2>1 DEF Heard
    <3>2. d.inbox[i].kind \notin {"text", "rating"}
      BY <2>1 DEF Unheard, Unclosed, Working
    <3> QED BY <1>9, <3>1, <3>2
  <2> QED BY <1>7, <1>10, <2>1 DEF Heard
<1>17. Good(e)
  BY <1>6, <1>11, <1>12, <1>13, <1>14, <1>15, <1>16 DEF Good
<1> QED BY <1>7, <1>8, <1>17

LEMMA RecordedKeeps ==
  ASSUME NEW d, Good(d), ~d.client.erased, Len(d.inbox) < MaxInputs,
         NEW kind \in AllKinds, NEW button \in Buttons \cup {NoButton}, NEW target \in 0 .. MaxInputs,
         kind = "edit" => target # 0, kind = "press" => button \in Buttons
  PROVE  LET e == Recorded(d, kind, button, target)
         IN Good(e) /\ e.cycle = d.cycle
<1> DEFINE c == Asked(d)
<1> DEFINE t == Current(d)
<1> DEFINE n == Len(d.inbox)
<1> DEFINE late == c # 0 /\ d.cycle[c].expired
<1> DEFINE row == [kind |-> kind, button |-> button, target |-> target, asked |-> c,
                   late |-> late, state |-> "pending"]
<1> DEFINE ib == Append(d.inbox, row)
<1> DEFINE hears == t # 0 /\ kind \in {"text", "rating"} /\ d.ticket[t].waiting
<1> DEFINE own == [d.ticket[t] EXCEPT !.heard = TRUE]
<1> DEFINE tk == IF hears THEN [d.ticket EXCEPT ![t] = own] ELSE d.ticket
<1> DEFINE e == [d EXCEPT !.inbox = ib, !.ticket = tk]
<1>1. /\ Typed(d) /\ OneOpen(d) /\ WithConsent(d) /\ Cycled(d) /\ Counted(d) /\ Emptied(d) /\ Messaged(d)
      /\ Ordered(d) /\ Handleable(d) /\ Asking(d) /\ Heard(d) /\ Answering(d) /\ Addressed(d)
  BY DEF Good
<1>2. /\ d.inbox \in Seq(Input) /\ n \in Nat /\ n < MaxInputs /\ DOMAIN d.inbox = 1 .. n
      /\ d.ticket \in Seq(Ticket) /\ Tickets(d) = 1 .. Len(d.ticket) /\ Len(d.ticket) \in Nat
      /\ DOMAIN d.cycle = 1 .. Len(d.cycle) /\ Len(d.cycle) \in Nat /\ Len(d.cycle) <= MaxCycles
  BY <1>1, Domains DEF Typed
<1>3. Recorded(d, kind, button, target) = e
  BY <1>1 DEF Recorded, Typed
<1>4. /\ c # 0 => /\ t \in Tickets(d) /\ d.ticket[t].status = "awaiting_rating"
                  /\ c = Len(d.cycle) /\ c \in DOMAIN d.cycle /\ d.cycle[c].finished = ""
      /\ \A u \in Tickets(d) : d.ticket[u].status = "awaiting_rating" => c = Len(d.cycle) /\ c # 0
  <2>1. c # 0 => /\ t \in Tickets(d) /\ d.ticket[t].status = "awaiting_rating"
                 /\ c = Len(d.cycle) /\ c \in DOMAIN d.cycle
    BY <1>1, AskedIs DEF Unclosed
  <2>2. \A u \in Tickets(d) : d.ticket[u].status = "awaiting_rating" =>
           c = Len(d.cycle) /\ c # 0 /\ d.cycle[Len(d.cycle)].finished = ""
    BY <1>1, AskedIs DEF Cycled
  <2> QED BY <2>1, <2>2
<1>50. c # 0 => c = Len(d.cycle) /\ t \in Tickets(d) /\ d.ticket[t].status = "awaiting_rating"
  BY <1>1, AskedIs DEF Unclosed
<1>5. late \in BOOLEAN
  OBVIOUS
<1>6. c \in 0 .. MaxCycles
  <2>1. c = 0 \/ c = Len(d.cycle)
    BY <1>4
  <2>2. Len(d.cycle) \in Nat /\ Len(d.cycle) <= MaxCycles /\ MaxCycles \in Nat
    BY <1>2, BoundsAssumption
  <2> HIDE DEF c
  <2> QED BY <2>1, <2>2
<1>7. t # 0 => t \in Tickets(d) /\ d.ticket[t] \in Ticket
  BY <1>1, CurrentIs, Domains DEF Unclosed
<1> HIDE DEF late, c, t
<1>8. /\ row \in Input /\ row.state = "pending" /\ row.kind = kind /\ row.asked = c /\ row.late = late
      /\ row.target = target /\ row.button = button
  BY <1>5, <1>6 DEF Input
<1> HIDE DEF row
<1>9. /\ ib \in Seq(Input) /\ Len(ib) = n + 1
      /\ \A k \in 1 .. n : ib[k] = d.inbox[k]
      /\ ib[n + 1] = row
  BY <1>2, <1>8, AppendProperties
<1>10. DOMAIN ib = 1 .. n + 1
  BY <1>9, LenProperties
<1> HIDE DEF ib
<1>11. /\ tk \in Seq(Ticket) /\ Len(tk) = Len(d.ticket)
       /\ \A u \in Tickets(d) : /\ tk[u].status = d.ticket[u].status /\ tk[u].cycle = d.ticket[u].cycle
                                /\ tk[u].lifecycle = d.ticket[u].lifecycle
                                /\ tk[u].waiting = d.ticket[u].waiting
                                /\ tk[u].heard => d.ticket[u].heard
                                                  \/ (d.ticket[u].waiting /\ kind \in {"text", "rating"})
  <2>1. CASE hears
    <3>1. /\ own \in Ticket /\ own.status = d.ticket[t].status /\ own.cycle = d.ticket[t].cycle
          /\ own.lifecycle = d.ticket[t].lifecycle /\ own.waiting = d.ticket[t].waiting
      BY <1>7, <2>1 DEF Ticket
    <3>2. t \in 1 .. Len(d.ticket) /\ d.ticket[t].waiting /\ kind \in {"text", "rating"}
      BY <1>2, <1>7, <2>1
    <3>3. tk = [d.ticket EXCEPT ![t] = own]
      BY <2>1
    <3> HIDE DEF own, tk, hears
    <3>4. /\ tk \in Seq(Ticket) /\ Len(tk) = Len(d.ticket)
          /\ \A u \in 1 .. Len(d.ticket) : tk[u] = IF u = t THEN own ELSE d.ticket[u]
      BY <1>2, <3>1, <3>2, <3>3, ExceptSeq
    <3> QED BY <1>2, <3>1, <3>2, <3>4
  <2>2. CASE ~hears
    <3>1. tk = d.ticket
      BY <2>2
    <3> HIDE DEF tk
    <3> QED BY <1>2, <3>1
  <2> QED BY <2>1, <2>2
<1> HIDE DEF tk, hears
<1>12. n + 1 <= MaxInputs
  BY <1>2, BoundsAssumption
<1>13. Typed(e)
  BY <1>1, <1>9, <1>11, <1>12 DEF Typed
<1>14. /\ e.inbox = ib /\ e.client = d.client /\ e.buffer = d.buffer
       /\ e.message = d.message /\ e.out = d.out /\ e.replies = d.replies
       /\ e.ticket = tk /\ e.cycle = d.cycle /\ e.closing = d.closing
  BY <1>1 DEF Typed
<1> HIDE DEF e
<1>15. Tickets(e) = Tickets(d)
  BY <1>2, <1>11, <1>13, <1>14, Domains
<1>16. \A u \in Tickets(d) : /\ e.ticket[u].status = d.ticket[u].status
                             /\ e.ticket[u].cycle = d.ticket[u].cycle
                             /\ e.ticket[u].lifecycle = d.ticket[u].lifecycle
                             /\ e.ticket[u].waiting = d.ticket[u].waiting
                             /\ e.ticket[u].heard =>
                                    d.ticket[u].heard \/ (d.ticket[u].waiting /\ kind \in {"text", "rating"})
  BY <1>11, <1>14
<1>17. /\ Pending(e) = Pending(d) \cup {n + 1} /\ n + 1 \notin Pending(d)
       /\ \A k \in Pending(d) : e.inbox[k] = d.inbox[k] /\ k < n + 1
       /\ e.inbox[n + 1] = row
  BY <1>2, <1>8, <1>9, <1>10, <1>14, SMTT(30) DEF Pending
<1>18. Unclosed(e) = Unclosed(d)
  BY <1>15, <1>16 DEF Unclosed
<1>19. OneOpen(e) /\ WithConsent(e)
  BY <1>1, <1>14, <1>18 DEF OneOpen, WithConsent
<1>20. Cycled(e)
  <2>1. /\ e.cycle = d.cycle /\ Tickets(e) = Tickets(d)
        /\ \A u \in Tickets(d) : e.ticket[u].status = d.ticket[u].status /\ e.ticket[u].cycle = d.ticket[u].cycle
    BY <1>14, <1>15, <1>16
  <2>2. Cycled(d)
    BY <1>1
  <2> QED BY <2>1, <2>2, ZenonT(30) DEF Cycled
<1>21. Counted(e)
  BY <1>1, <1>14, <1>15, <1>16 DEF Counted
<1>22. Messaged(e)
  BY <1>1, <1>11, <1>14 DEF Messaged
<1>23. Emptied(e)
  BY <1>14 DEF Emptied
<1>24. Ordered(e)
  BY <1>1, <1>14, <1>15, <1>16 DEF Ordered
<1>25. Answering(e) /\ Addressed(e)
  BY <1>1, <1>14, <1>15 DEF Answering, Addressed
<1>26. Handleable(e)
  BY <1>1, <1>8, <1>17 DEF Handleable
<1>27. Heard(e)
  <2>1. ASSUME NEW u \in Tickets(d), d.ticket[u].status \in Working, e.ticket[u].heard
        PROVE  d.ticket[u].waiting /\ \E k \in Pending(e) : e.inbox[k].kind \in {"text", "rating"}
    <3>1. CASE d.ticket[u].heard
      BY <1>1, <1>17, <2>1, <3>1 DEF Heard
    <3>2. CASE d.ticket[u].waiting /\ kind \in {"text", "rating"}
      BY <1>8, <1>17, <3>2
    <3> QED BY <1>16, <2>1, <3>1, <3>2
  <2> QED BY <1>15, <1>16, <2>1 DEF Heard
<1>28. Asking(e)
  <2>1. \A u \in Tickets(d) : d.ticket[u].status = "awaiting_rating" => c = Len(d.cycle) /\ c # 0
    BY <1>4
  <2>2. ASSUME NEW i \in Pending(d)
        PROVE  /\ d.inbox[i].asked \in 0 .. Len(d.cycle)
               /\ d.inbox[i].asked # 0 /\ ~d.inbox[i].late =>
                     d.cycle[d.inbox[i].asked].finished \notin {"expired", "notification_not_delivered"}
               /\ d.inbox[i].late =>
                     /\ d.inbox[i].asked # 0
                     /\ \A k \in Pending(e) : i < k /\ e.inbox[k].asked = e.inbox[i].asked => e.inbox[k].late
               /\ \A u \in Tickets(d) : d.ticket[u].status = "awaiting_rating" =>
                     /\ d.inbox[i].asked = Len(d.cycle) \/ i <= d.cycle[Len(d.cycle)].before
                     /\ d.inbox[i].late /\ d.inbox[i].asked = Len(d.cycle) => d.cycle[Len(d.cycle)].expired
    <3>1. d.inbox[i].late /\ d.inbox[i].asked = c => late
      <4>1. d.inbox[i].late => d.inbox[i].asked # 0
        BY <1>1 DEF Asking
      <4>2. c # 0 => c = Len(d.cycle) /\ t \in Tickets(d) /\ d.ticket[t].status = "awaiting_rating"
        BY <1>50
      <4>3. d.inbox[i].late /\ d.inbox[i].asked = Len(d.cycle) /\ c # 0 => d.cycle[Len(d.cycle)].expired
        BY <1>1, <4>2 DEF Asking
      <4> QED BY <4>1, <4>2, <4>3 DEF late
    <3>2. d.inbox[i].late => \A k \in Pending(d) : i < k /\ d.inbox[k].asked = d.inbox[i].asked => d.inbox[k].late
      BY <1>1 DEF Asking
    <3>3. d.inbox[i].late => \A k \in Pending(e) : i < k /\ e.inbox[k].asked = e.inbox[i].asked => e.inbox[k].late
      BY <1>8, <1>17, <3>1, <3>2
    <3> QED BY <1>1, <3>3 DEF Asking
  <2>3. /\ row.asked \in 0 .. Len(d.cycle)
        /\ row.asked # 0 /\ ~row.late =>
              d.cycle[row.asked].finished \notin {"expired", "notification_not_delivered"}
        /\ row.late =>
              /\ row.asked # 0
              /\ \A k \in Pending(e) : n + 1 < k /\ e.inbox[k].asked = row.asked => e.inbox[k].late
        /\ \A u \in Tickets(d) : d.ticket[u].status = "awaiting_rating" =>
              /\ row.asked = Len(d.cycle)
              /\ row.late => d.cycle[Len(d.cycle)].expired
    <3>1. \A k \in Pending(e) : ~(n + 1 < k)
      BY <1>2, <1>17, Domains DEF Pending
    <3>2. row.asked # 0 => d.cycle[row.asked].finished \notin {"expired", "notification_not_delivered"}
      BY <1>4, <1>8, Zenon
    <3>3. row.asked = c /\ row.late = late /\ (late => c # 0 /\ d.cycle[c].expired)
      BY <1>8 DEF late
    <3>4. \A u \in Tickets(d) : d.ticket[u].status = "awaiting_rating" => c = Len(d.cycle)
      BY <1>4
    <3>5. c # 0 => c = Len(d.cycle)
      BY <1>4
    <3> QED BY <3>1, <3>2, <3>3, <3>4, <3>5
  <2>4. /\ e.cycle = d.cycle /\ Tickets(e) = Tickets(d)
        /\ \A u \in Tickets(d) : e.ticket[u].status = d.ticket[u].status
        /\ \A i \in Pending(d) : e.inbox[i] = d.inbox[i]
        /\ Pending(e) = Pending(d) \cup {n + 1} /\ e.inbox[n + 1] = row
    BY <1>14, <1>15, <1>16, <1>17
  <2> QED BY <2>2, <2>3, <2>4 DEF Asking
<1>29. Good(e)
  BY <1>13, <1>19, <1>20, <1>21, <1>22, <1>23, <1>24, <1>25, <1>26, <1>27, <1>28 DEF Good
<1> QED BY <1>3, <1>14, <1>29

-----------------------------------------------------------------------------
(* Commands of the staff, and jobs.                                        *)

\* Any set of jobs that have their ticket and their reply.
LEMMA JobsKeep ==
  ASSUME NEW d, Good(d), NEW jobs, jobs \subseteq AnyClosing,
         \A k \in jobs :
            /\ k.ticket \in Tickets(d)
            /\ k.fresh => /\ k.read
                          /\ d.ticket[k.ticket].status = "in_progress"
                          /\ d.ticket[k.ticket].lifecycle = k.lifecycle
            /\ \E r \in d.out : r.kind = "staff" /\ r.number = k.reply /\ (k.read => r.state = "delivered")
  PROVE  LET e == [d EXCEPT !.closing = jobs]
         IN Good(e) /\ Unanswered(d, e) /\ e.ticket = d.ticket /\ e.cycle = d.cycle
<1> DEFINE e == [d EXCEPT !.closing = jobs]
<1>1. /\ Typed(d) /\ OneOpen(d) /\ WithConsent(d) /\ Cycled(d) /\ Counted(d) /\ Emptied(d) /\ Messaged(d)
      /\ Ordered(d) /\ Handleable(d) /\ Asking(d) /\ Heard(d) /\ Answering(d) /\ Addressed(d)
  BY DEF Good
<1>2. Typed(e)
  BY <1>1 DEF Typed
<1>3. /\ e.inbox = d.inbox /\ e.client = d.client /\ e.buffer = d.buffer
      /\ e.message = d.message /\ e.out = d.out /\ e.replies = d.replies
      /\ e.ticket = d.ticket /\ e.cycle = d.cycle /\ e.closing = jobs
  BY <1>1 DEF Typed
<1> HIDE DEF e
<1>4. Tickets(e) = Tickets(d) /\ Unclosed(e) = Unclosed(d) /\ Pending(e) = Pending(d)
  BY <1>3 DEF Tickets, Unclosed, Pending
<1>5. /\ OneOpen(e) /\ WithConsent(e)
      /\ Cycled(e) /\ Counted(e) /\ Messaged(e)
  <2>1. OneOpen(e) /\ WithConsent(e)
    BY <1>1, <1>3, <1>4 DEF OneOpen, WithConsent
  <2>2. Cycled(e)
    <3>1. Cycled(d) /\ e.ticket = d.ticket /\ e.cycle = d.cycle /\ Tickets(e) = Tickets(d)
      BY <1>1, <1>3, <1>4
    <3> QED BY <3>1 DEF Cycled
  <2>3. Counted(e) /\ Messaged(e)
    BY <1>1, <1>3, <1>4 DEF Counted, Messaged
  <2> QED BY <2>1, <2>2, <2>3
<1>6. Emptied(e)
  BY <1>1, <1>3, <1>4 DEF Emptied
<1>7. Ordered(e)
  BY <1>3, <1>4 DEF Ordered
<1>8. Answering(e)
  BY <1>1, <1>3 DEF Answering
<1>9. Addressed(e)
  BY <1>1, <1>3, <1>4 DEF Addressed
<1>10. Handleable(e) /\ Asking(e) /\ Heard(e)
  BY <1>1, <1>3, <1>4 DEF Handleable, Asking, Heard
<1>11. Good(e)
  BY <1>2, <1>5, <1>6, <1>7, <1>8, <1>9, <1>10 DEF Good
<1> QED BY <1>1, <1>3, <1>11, NothingAnswered DEF e

LEMMA FewerJobs ==
  ASSUME NEW d, Good(d), NEW jobs, jobs \subseteq d.closing
  PROVE  LET e == [d EXCEPT !.closing = jobs]
         IN Good(e) /\ Unanswered(d, e) /\ e.ticket = d.ticket /\ e.cycle = d.cycle
<1>1. Typed(d) /\ Ordered(d) /\ Answering(d)
  BY DEF Good
<1>2. jobs \subseteq AnyClosing
  BY <1>1 DEF Typed
<1>3. \A k \in jobs :
            /\ k.ticket \in Tickets(d)
            /\ k.fresh => /\ k.read
                          /\ d.ticket[k.ticket].status = "in_progress"
                          /\ d.ticket[k.ticket].lifecycle = k.lifecycle
            /\ \E r \in d.out : r.kind = "staff" /\ r.number = k.reply /\ (k.read => r.state = "delivered")
  BY <1>1 DEF Ordered, Answering
<1> QED BY <1>2, <1>3, JobsKeep

\* The new rows of a ticket that is closed and of its cycle.
ClosingRows(d, row, cycle) ==
    /\ row.cycle = Len(d.cycle) + 1 /\ ~row.heard
    /\ row.status = "closed" \/ (row.status = "awaiting_rating" /\ cycle.finished = "")
    /\ row.status = "awaiting_rating" => \A i \in Pending(d) : i <= cycle.before


\* What is queued with it, if anything is: the question of the rating, or the message of the timer.
Announcements(d, t) ==
    {[kind |-> kind, number |-> 0, ticket |-> t, cycle |-> Len(d.cycle) + 1, state |-> "queued"] :
        kind \in {"ticket_closed", "auto_closed"}}

ClosedWith(d, t, row, cyc, told) ==
    [Change([d EXCEPT !.cycle = Append(d.cycle, cyc)], t, row) EXCEPT !.out = d.out \cup told]

\* A ticket is closed, with a new cycle: either nothing of the client is waiting to be handled, or
\* no rating is asked for, or the cycle says what was waiting.
LEMMA CloseKeeps ==
  ASSUME NEW d, Good(d), NEW t \in Tickets(d), d.ticket[t].status \in Working,
         Len(d.cycle) < MaxCycles,
         NEW cyc \in AnyCycle, cyc.ticket = t,
         NEW row \in Ticket, ClosingRows(d, row, cyc),
         NEW told, told \subseteq Announcements(d, t)
  PROVE  LET c == Len(d.cycle) + 1
             e == ClosedWith(d, t, row, cyc, told)
         IN /\ Good(e) /\ Len(e.cycle) = c /\ e.cycle[c] = cyc
            /\ \A k \in DOMAIN d.cycle : e.cycle[k] = d.cycle[k]
            /\ \A u \in Tickets(d) : e.ticket[u] = IF u = t THEN row ELSE d.ticket[u]
            /\ e.closing = Outdated(d.closing, t)
<1> DEFINE n == Len(d.cycle)
<1> DEFINE cy == Append(d.cycle, cyc)
<1> DEFINE tk == [d.ticket EXCEPT ![t] = row]
<1> DEFINE js == Outdated(d.closing, t)
<1> DEFINE e == [d EXCEPT !.cycle = cy, !.ticket = tk, !.closing = js, !.out = d.out \cup told]
<1>1. /\ Typed(d) /\ OneOpen(d) /\ WithConsent(d) /\ Cycled(d) /\ Counted(d) /\ Emptied(d) /\ Messaged(d)
      /\ Ordered(d) /\ Handleable(d) /\ Asking(d) /\ Heard(d) /\ Answering(d) /\ Addressed(d)
  BY DEF Good
<1>2. /\ d.ticket \in Seq(Ticket) /\ d.cycle \in Seq(AnyCycle) /\ d.closing \in SUBSET AnyClosing
      /\ Tickets(d) = 1 .. Len(d.ticket) /\ Len(d.ticket) \in Nat
      /\ DOMAIN d.cycle = 1 .. n /\ n \in Nat /\ n < MaxCycles /\ d.out \in SUBSET AnyDelivery
  BY <1>1, Domains DEF Typed
<1>3. ClosedWith(d, t, row, cyc, told) = e
  BY <1>1 DEF ClosedWith, Change, Typed
<1>4. /\ cy \in Seq(AnyCycle) /\ Len(cy) = n + 1
      /\ \A k \in 1 .. n : cy[k] = d.cycle[k]
      /\ cy[n + 1] = cyc
  BY <1>2, AppendProperties
<1>5. /\ tk \in Seq(Ticket) /\ Len(tk) = Len(d.ticket)
      /\ \A u \in Tickets(d) : tk[u] = IF u = t THEN row ELSE d.ticket[u]
  BY <1>2, ExceptSeq
<1>6. /\ js \in SUBSET AnyClosing
      /\ \A k \in js : \E j \in d.closing :
           /\ k.ticket = j.ticket /\ k.lifecycle = j.lifecycle /\ k.reply = j.reply
           /\ k.read = j.read
           /\ k.fresh => j.fresh /\ j.ticket # t
  BY <1>2, OutdatedJobs
<1>7. n + 1 \in 0 .. MaxCycles /\ n + 1 <= MaxCycles /\ n + 1 \in Nat /\ n + 1 # 0
  BY <1>2, BoundsAssumption
<1>8. \A r0 \in told : /\ r0 \in AnyDelivery /\ r0.kind # "staff"
                       /\ r0.ticket = t /\ r0.cycle = n + 1
  <2>1. t \in Nat \ {0} /\ 0 \in 0 .. MaxReplies
    BY <1>2, BoundsAssumption
  <2> QED BY <1>7, <2>1 DEF AnyDelivery, AnyTicket, Announcements
<1> HIDE DEF cy, tk, js
<1>9. Typed(e)
  <2>1. d.out \cup told \in SUBSET AnyDelivery
    BY <1>2, <1>8
  <2> QED BY <1>1, <1>4, <1>5, <1>6, <1>7, <2>1 DEF Typed
<1>10. /\ e.inbox = d.inbox /\ e.client = d.client /\ e.buffer = d.buffer
       /\ e.message = d.message /\ e.out = d.out \cup told /\ e.replies = d.replies
       /\ e.ticket = tk /\ e.cycle = cy /\ e.closing = js
  BY <1>1 DEF Typed
<1> HIDE DEF e
<1>11. /\ Tickets(e) = Tickets(d) /\ DOMAIN e.cycle = 1 .. n + 1 /\ Len(e.cycle) = n + 1
       /\ Pending(e) = Pending(d)
  BY <1>2, <1>4, <1>5, <1>9, <1>10, Domains DEF Pending
<1>12. /\ \A u \in Tickets(d) \ {t} : e.ticket[u] = d.ticket[u]
       /\ e.ticket[t] = row
       /\ \A k \in 1 .. n : e.cycle[k] = d.cycle[k]
       /\ e.cycle[n + 1] = cyc
  BY <1>4, <1>5, <1>10
<1>13. t \in Unclosed(d) /\ \A u \in Tickets(d) \ {t} : d.ticket[u].status = "closed"
  BY <1>1 DEF Unclosed, OneOpen, Working
<1>14. Unclosed(e) \subseteq {t}
  BY <1>11, <1>12, <1>13 DEF Unclosed
<1>15. d.client.state = "granted" /\ ~d.client.erased
  BY <1>1, <1>13 DEF WithConsent, Emptied
<1>16. OneOpen(e) /\ WithConsent(e) /\ Emptied(e)
  BY <1>10, <1>14, <1>15 DEF OneOpen, WithConsent, Emptied
<1>28. /\ row.cycle = n + 1 /\ ~row.heard
       /\ row.status = "closed" \/ (row.status = "awaiting_rating" /\ cyc.finished = "")
       /\ row.status = "awaiting_rating" => \A i \in Pending(d) : i <= cyc.before
  BY DEF ClosingRows
<1>17. Cycled(e)
  <2>1. \A u \in Tickets(d) \ {t} :
          /\ e.ticket[u].cycle \in 0 .. n + 1
          /\ e.ticket[u].status \notin Working /\ e.ticket[u].status # "awaiting_rating"
    <3>1. \A u \in Tickets(d) : d.ticket[u].cycle \in 0 .. n
      BY <1>1 DEF Cycled
    <3>2. \A x \in 0 .. n : x \in 0 .. n + 1
      BY <1>2
    <3>3. \A u \in Tickets(d) \ {t} : e.ticket[u].cycle \in 0 .. n + 1
      BY <1>12, <3>1, <3>2
    <3>4. \A u \in Tickets(d) \ {t} :
            e.ticket[u].status \notin Working /\ e.ticket[u].status # "awaiting_rating"
      BY <1>12, <1>13 DEF Working
    <3> QED BY <3>3, <3>4
  <2>2. /\ e.ticket[t].cycle \in 0 .. n + 1
        /\ e.ticket[t].status \notin Working
        /\ e.ticket[t].status = "awaiting_rating" =>
              e.ticket[t].cycle = n + 1 /\ n + 1 # 0 /\ e.cycle[n + 1].finished = ""
    <3>1. n + 1 \in 0 .. n + 1 /\ n + 1 # 0
      BY <1>2
    <3> QED BY <1>12, <1>28, <3>1 DEF Working
  <2> QED BY <1>11, <2>1, <2>2 DEF Cycled
<1>18. Counted(e)
  <2>1. ASSUME NEW k \in 1 .. n
        PROVE  /\ e.cycle[k].ticket \in Tickets(d)
               /\ ~e.cycle[k].invalidated => e.ticket[e.cycle[k].ticket].cycle = k
    <3>1. /\ d.cycle[k].ticket \in Tickets(d)
          /\ ~d.cycle[k].invalidated => d.ticket[d.cycle[k].ticket].cycle = k
      BY <1>1, <1>2 DEF Counted
    <3>2. d.ticket[t].cycle = 0
      BY <1>1 DEF Cycled, Working
    <3>3. k # 0
      OBVIOUS
    <3>4. d.cycle[k].ticket = t => d.cycle[k].invalidated
      BY <3>1, <3>2, <3>3
    <3> QED BY <1>12, <3>1, <3>4
  <2>2. e.cycle[n + 1].ticket \in Tickets(d) /\ e.ticket[e.cycle[n + 1].ticket].cycle = n + 1
    BY <1>12, <1>28
  <2>3. \A k \in 1 .. n + 1 : k \in 1 .. n \/ k = n + 1
    BY <1>2
  <2> QED BY <1>11, <2>1, <2>2, <2>3 DEF Counted
<1>19. Messaged(e)
  BY <1>1, <1>5, <1>10 DEF Messaged
<1>20. Handleable(e) /\ Asking(e)
  <2>1. Handleable(e)
    BY <1>1, <1>10, <1>11 DEF Handleable
  <2>2. ASSUME NEW i \in Pending(d)
        PROVE  /\ e.inbox[i].asked \in 0 .. Len(e.cycle)
               /\ e.inbox[i].asked # 0 /\ ~e.inbox[i].late =>
                     e.cycle[e.inbox[i].asked].finished \notin {"expired", "notification_not_delivered"}
               /\ e.inbox[i].late =>
                     /\ e.inbox[i].asked # 0
                     /\ \A k \in Pending(e) : i < k /\ e.inbox[k].asked = e.inbox[i].asked => e.inbox[k].late
               /\ \A u \in Tickets(e) : e.ticket[u].status = "awaiting_rating" =>
                     /\ i <= e.cycle[Len(e.cycle)].before
                     /\ e.inbox[i].asked # Len(e.cycle)
    <3>1. /\ d.inbox[i].asked \in 0 .. n
          /\ d.inbox[i].asked # 0 /\ ~d.inbox[i].late =>
                d.cycle[d.inbox[i].asked].finished \notin {"expired", "notification_not_delivered"}
          /\ d.inbox[i].late =>
                /\ d.inbox[i].asked # 0
                /\ \A k \in Pending(d) : i < k /\ d.inbox[k].asked = d.inbox[i].asked => d.inbox[k].late
      BY <1>1 DEF Asking
    <3>2. d.inbox[i].asked \in 0 .. n + 1 /\ d.inbox[i].asked # n + 1
      BY <1>2, <3>1
    <3>3. d.inbox[i].asked # 0 => d.inbox[i].asked \in 1 .. n
      BY <1>2, <3>1
    <3>4. \A u \in Tickets(e) : e.ticket[u].status = "awaiting_rating" => i <= cyc.before
      BY <1>11, <1>12, <1>13, <1>28
    <3> QED BY <1>10, <1>11, <1>12, <3>1, <3>2, <3>3, <3>4
  <2>3. Asking(e)
    BY <1>11, <2>2 DEF Asking
  <2> QED BY <2>1, <2>3
<1>21. Heard(e)
  <2>1. \A u \in Tickets(d) : e.ticket[u].status \notin Working
    <3>1. row.status \notin Working
      BY <1>28 DEF Working
    <3>2. \A u \in Tickets(d) \ {t} : e.ticket[u].status \notin Working
      BY <1>12, <1>13 DEF Working
    <3> QED BY <1>12, <3>1, <3>2
  <2> QED BY <1>11, <2>1 DEF Heard
<1>22. Ordered(e)
  <2>1. ASSUME NEW k \in js
        PROVE  /\ k.ticket \in Tickets(e)
               /\ k.fresh => /\ k.read
                             /\ e.ticket[k.ticket].status = "in_progress"
                             /\ e.ticket[k.ticket].lifecycle = k.lifecycle
    <3>1. PICK j \in d.closing :
           /\ k.ticket = j.ticket /\ k.lifecycle = j.lifecycle
           /\ k.read = j.read
           /\ k.fresh => j.fresh /\ j.ticket # t
      BY <1>6
    <3>2. j.ticket \in Tickets(d)
          /\ (j.fresh => j.read /\ d.ticket[j.ticket].status = "in_progress"
                         /\ d.ticket[j.ticket].lifecycle = j.lifecycle)
      BY <1>1 DEF Ordered
    <3> QED BY <1>11, <1>12, <3>1, <3>2
  <2> QED BY <1>10, <2>1 DEF Ordered
<1>23. Answering(e)
  <2>1. \A k \in js : \E r \in d.out : r.kind = "staff" /\ r.number = k.reply /\ (k.read => r.state = "delivered")
    <3> SUFFICES ASSUME NEW k \in js
                 PROVE  \E r \in d.out : r.kind = "staff" /\ r.number = k.reply
                                         /\ (k.read => r.state = "delivered")
      OBVIOUS
    <3>1. PICK j \in d.closing : k.reply = j.reply /\ k.read = j.read
      BY <1>6
    <3> QED BY <1>1, <3>1 DEF Answering
  <2>2. /\ \A r \in d.out : r.kind = "staff" => r.number \in 1 .. d.replies
        /\ \A r, q \in d.out : r.kind = "staff" /\ q.kind = "staff" /\ r.number = q.number => r = q
    BY <1>1 DEF Answering
  <2> QED BY <1>8, <1>10, <2>1, <2>2 DEF Answering
<1>24. Addressed(e)
  <2>1. \A r \in d.out : r.ticket \in Tickets(d) /\ r.cycle \in 0 .. n
    BY <1>1 DEF Addressed
  <2>2. \A c \in 0 .. n : c \in 0 .. n + 1
    BY <1>2
  <2>3. n + 1 \in 0 .. n + 1
    BY <1>2
  <2> QED BY <1>8, <1>10, <1>11, <2>1, <2>2, <2>3 DEF Addressed
<1>25. Good(e)
  BY <1>9, <1>16, <1>17, <1>18, <1>19, <1>20, <1>21, <1>22, <1>23, <1>24 DEF Good
<1>26. \A u \in Tickets(d) : e.ticket[u] = IF u = t THEN row ELSE d.ticket[u]
  BY <1>12
<1>27. e.closing = Outdated(d.closing, t)
  BY <1>10 DEF js
<1>29. e.cycle[n + 1] = cyc
  BY <1>12
<1> QED BY <1>2, <1>3, <1>10, <1>11, <1>12, <1>25, <1>26, <1>27, <1>29 DEF cy

\* The cycles after those of a ticket are invalidated; what they say of ratings stays.
Disregarded(d, cycles, t) ==
    /\ cycles \in Seq(AnyCycle) /\ Len(cycles) = Len(d.cycle)
    /\ \A c \in DOMAIN d.cycle :
          /\ cycles[c].ticket = d.cycle[c].ticket /\ cycles[c].finished = d.cycle[c].finished
          /\ cycles[c].attempts <= d.cycle[c].attempts
          /\ d.cycle[c].invalidated => cycles[c].invalidated
          /\ d.cycle[c].ticket = t => cycles[c].invalidated

LEMMA ReopenRowsKeep ==
  ASSUME NEW d, Good(d), NEW t \in Tickets(d), Unclosed(d) \subseteq {t}, d.client.state = "granted",
         NEW cy, Disregarded(d, cy, t),
         NEW row \in Ticket, row.status = "in_progress", row.cycle = 0, ~row.heard
  PROVE  LET e == [d EXCEPT !.cycle = cy, !.ticket = [d.ticket EXCEPT ![t] = row],
                            !.closing = Outdated(d.closing, t)]
         IN Good(e) /\ Unanswered(d, e)
<1> DEFINE n == Len(d.cycle)
<1> DEFINE tk == [d.ticket EXCEPT ![t] = row]
<1> DEFINE js == Outdated(d.closing, t)
<1> DEFINE e == [d EXCEPT !.cycle = cy, !.ticket = tk, !.closing = js]
<1>1. /\ Typed(d) /\ OneOpen(d) /\ WithConsent(d) /\ Cycled(d) /\ Counted(d) /\ Emptied(d) /\ Messaged(d)
      /\ Ordered(d) /\ Handleable(d) /\ Asking(d) /\ Heard(d) /\ Answering(d) /\ Addressed(d)
  BY DEF Good
<1>2. /\ d.ticket \in Seq(Ticket) /\ d.closing \in SUBSET AnyClosing
      /\ Tickets(d) = 1 .. Len(d.ticket) /\ Len(d.ticket) \in Nat
      /\ DOMAIN d.cycle = 1 .. n /\ n \in Nat
  BY <1>1, Domains DEF Typed
<1>3. /\ cy \in Seq(AnyCycle) /\ Len(cy) = n
      /\ \A c \in 1 .. n :
            /\ cy[c].ticket = d.cycle[c].ticket /\ cy[c].finished = d.cycle[c].finished
            /\ cy[c].attempts <= d.cycle[c].attempts
            /\ d.cycle[c].invalidated => cy[c].invalidated
            /\ d.cycle[c].ticket = t => cy[c].invalidated
  BY <1>2 DEF Disregarded
<1>4. /\ tk \in Seq(Ticket) /\ Len(tk) = Len(d.ticket)
      /\ \A u \in Tickets(d) : tk[u] = IF u = t THEN row ELSE d.ticket[u]
  BY <1>2, ExceptSeq
<1>5. /\ js \in SUBSET AnyClosing
      /\ \A k \in js : \E j \in d.closing :
           /\ k.ticket = j.ticket /\ k.lifecycle = j.lifecycle /\ k.reply = j.reply
           /\ k.read = j.read
           /\ k.fresh => j.fresh /\ j.ticket # t
  BY <1>2, OutdatedJobs
<1> HIDE DEF tk, js
<1>6. Typed(e)
  BY <1>1, <1>3, <1>4, <1>5 DEF Typed
<1>7. /\ e.inbox = d.inbox /\ e.client = d.client /\ e.buffer = d.buffer
      /\ e.message = d.message /\ e.out = d.out /\ e.replies = d.replies
      /\ e.ticket = tk /\ e.cycle = cy /\ e.closing = js
  BY <1>1 DEF Typed
<1> HIDE DEF e
<1>8. /\ Tickets(e) = Tickets(d) /\ DOMAIN e.cycle = 1 .. n /\ Len(e.cycle) = n
      /\ Pending(e) = Pending(d)
  BY <1>2, <1>3, <1>4, <1>6, <1>7, Domains DEF Pending
<1>9. /\ \A u \in Tickets(d) \ {t} : e.ticket[u] = d.ticket[u] /\ d.ticket[u].status = "closed"
      /\ e.ticket[t] = row
  BY <1>4, <1>7 DEF Unclosed
<1>10. \A u \in Tickets(d) : /\ e.ticket[u].status # "awaiting_rating" /\ ~(u # t /\ e.ticket[u].status \in Working)
                             /\ e.ticket[u].status # "closed" => u = t
  BY <1>9 DEF Working
<1>11. Unclosed(e) \subseteq {t} /\ ~d.client.erased
  BY <1>1, <1>8, <1>10 DEF Unclosed, Emptied
<1>12. OneOpen(e) /\ WithConsent(e) /\ Emptied(e)
  BY <1>7, <1>11 DEF OneOpen, WithConsent, Emptied
<1>13. Cycled(e)
  <2>1. \A u \in Tickets(d) : d.ticket[u].cycle \in 0 .. n
    BY <1>1 DEF Cycled
  <2>2. 0 \in 0 .. n
    BY <1>2
  <2>3. \A u \in Tickets(d) : e.ticket[u].cycle \in 0 .. n /\ (u = t => e.ticket[u].cycle = 0)
    BY <1>9, <2>1, <2>2
  <2> QED BY <1>8, <1>10, <2>3 DEF Cycled
<1>14. Counted(e)
  <2>1. ASSUME NEW c \in 1 .. n
        PROVE  /\ e.cycle[c].ticket \in Tickets(d)
               /\ ~e.cycle[c].invalidated => e.ticket[e.cycle[c].ticket].cycle = c
    <3>1. /\ d.cycle[c].ticket \in Tickets(d)
          /\ ~d.cycle[c].invalidated => d.ticket[d.cycle[c].ticket].cycle = c
      BY <1>1, <1>2 DEF Counted
    <3>2. /\ e.cycle[c].ticket = d.cycle[c].ticket
          /\ d.cycle[c].invalidated => e.cycle[c].invalidated
          /\ d.cycle[c].ticket = t => e.cycle[c].invalidated
      BY <1>3, <1>7
    <3> QED BY <1>9, <3>1, <3>2
  <2> QED BY <1>8, <2>1 DEF Counted
<1>15. Messaged(e)
  BY <1>1, <1>4, <1>7 DEF Messaged
<1>16. Handleable(e)
  BY <1>1, <1>7, <1>8 DEF Handleable
<1>17. Asking(e)
  <2>1. ASSUME NEW i \in Pending(d)
        PROVE  /\ d.inbox[i].asked \in 0 .. n
               /\ d.inbox[i].asked # 0 /\ ~d.inbox[i].late =>
                     e.cycle[d.inbox[i].asked].finished \notin {"expired", "notification_not_delivered"}
               /\ d.inbox[i].late =>
                     /\ d.inbox[i].asked # 0
                     /\ \A k \in Pending(d) : i < k /\ d.inbox[k].asked = d.inbox[i].asked => d.inbox[k].late
    <3>1. d.inbox[i].asked # 0 => d.inbox[i].asked \in 1 .. n
      BY <1>1, <1>2 DEF Asking
    <3>2. d.inbox[i].asked # 0 => e.cycle[d.inbox[i].asked].finished = d.cycle[d.inbox[i].asked].finished
      BY <1>3, <1>7, <3>1
    <3> QED BY <1>1, <3>2 DEF Asking
  <2> QED BY <1>7, <1>8, <1>10, <2>1 DEF Asking
<1>18. Heard(e)
  BY <1>8, <1>9, <1>10 DEF Heard
<1>19. StillOrdered(d, e)
  <2> SUFFICES ASSUME NEW k \in js
               PROVE  \E j \in d.closing :
                         /\ k.ticket = j.ticket /\ k.lifecycle = j.lifecycle /\ k.reply = j.reply
                         /\ k.read => j.read
                         /\ k.fresh => /\ j.fresh /\ k.read
                                       /\ e.ticket[j.ticket].status = d.ticket[j.ticket].status
                                       /\ e.ticket[j.ticket].lifecycle = d.ticket[j.ticket].lifecycle
    BY <1>7 DEF StillOrdered
  <2>1. PICK j \in d.closing :
           /\ k.ticket = j.ticket /\ k.lifecycle = j.lifecycle /\ k.reply = j.reply
           /\ k.read = j.read
           /\ k.fresh => j.fresh /\ j.ticket # t
    BY <1>5
  <2>2. j.ticket \in Tickets(d) /\ (j.fresh => j.read)
    BY <1>1 DEF Ordered
  <2> QED BY <1>9, <2>1, <2>2
<1>20. Ordered(e) /\ Answering(e)
  BY <1>1, <1>7, <1>8, <1>19, OrderedStays, AnsweringStays
<1>21. Addressed(e)
  BY <1>1, <1>7, <1>8 DEF Addressed
<1>22. Good(e)
  BY <1>6, <1>12, <1>13, <1>14, <1>15, <1>16, <1>17, <1>18, <1>20, <1>21 DEF Good
<1>23. Unanswered(d, e)
  BY <1>2, <1>3, <1>7 DEF Unanswered
<1> QED BY <1>22, <1>23 DEF e, tk, js

\* The rating of a ticket that is reopened is no longer waited for.
Unasked(cycles, c) ==
    IF c = 0 THEN cycles ELSE [cycles EXCEPT ![c] = Over(cycles[c], cycles[c].finished)]

LEMMA UnaskedRows ==
  ASSUME NEW d, Typed(d), NEW c \in 0 .. Len(d.cycle), NEW t
  PROVE  Disregarded(d, Marked(Unasked(d.cycle, c), {t}), t)
<1> DEFINE old == d.cycle[c]
<1> DEFINE own == Over(old, old.finished)
<1> DEFINE cy == Unasked(d.cycle, c)
<1> DEFINE cm == Marked(cy, {t})
<1>1. /\ d.cycle \in Seq(AnyCycle) /\ DOMAIN d.cycle = 1 .. Len(d.cycle) /\ Len(d.cycle) \in Nat
      /\ \A k \in 1 .. Len(d.cycle) : d.cycle[k] \in AnyCycle /\ d.cycle[k].attempts \in Nat
  <2>1. /\ d.cycle \in Seq(AnyCycle) /\ DOMAIN d.cycle = 1 .. Len(d.cycle) /\ Len(d.cycle) \in Nat
        /\ \A k \in 1 .. Len(d.cycle) : d.cycle[k] \in AnyCycle
    BY Domains DEF Typed
  <2>2. \A row \in AnyCycle : row.attempts \in Nat
    BY BoundsAssumption DEF AnyCycle
  <2> QED BY <2>1, <2>2
<1>2. /\ cy \in Seq(AnyCycle) /\ Len(cy) = Len(d.cycle)
      /\ \A k \in 1 .. Len(d.cycle) :
            /\ cy[k].ticket = d.cycle[k].ticket /\ cy[k].finished = d.cycle[k].finished
            /\ cy[k].attempts <= d.cycle[k].attempts
            /\ cy[k].invalidated = d.cycle[k].invalidated
  <2>1. CASE c = 0
    <3>1. cy = d.cycle
      BY <2>1 DEF Unasked
    <3> HIDE DEF cy
    <3> QED BY <1>1, <3>1
  <2>2. CASE c # 0
    <3>1. c \in 1 .. Len(d.cycle) /\ old \in AnyCycle
      BY <1>1, <2>2
    <3>2. /\ own \in AnyCycle /\ own.ticket = old.ticket /\ own.finished = old.finished
          /\ own.attempts = 0 /\ own.invalidated = old.invalidated
      <4>1. 0 \in 0 .. MaxAttempts /\ 0 \in 0 .. MaxInputs
        BY BoundsAssumption
      <4> HIDE DEF old
      <4> QED BY <3>1, <4>1 DEF Over, AnyCycle
    <3>3. cy = [d.cycle EXCEPT ![c] = own]
      BY <2>2 DEF Unasked
    <3> HIDE DEF cy, own
    <3>4. /\ cy \in Seq(AnyCycle) /\ Len(cy) = Len(d.cycle)
          /\ \A k \in 1 .. Len(d.cycle) : cy[k] = IF k = c THEN own ELSE d.cycle[k]
      BY <1>1, <3>1, <3>2, <3>3, ExceptSeq
    <3>5. old.attempts \in Nat
      BY <1>1, <3>1
    <3> QED BY <1>1, <3>2, <3>4, <3>5
  <2> QED BY <2>1, <2>2
<1> HIDE DEF cy
<1>3. /\ DOMAIN cy = 1 .. Len(d.cycle)
      /\ cm \in Seq(AnyCycle) /\ Len(cm) = Len(cy)
      /\ \A k \in DOMAIN cy :
            /\ cm[k].ticket = cy[k].ticket /\ cm[k].finished = cy[k].finished
            /\ cm[k].attempts = cy[k].attempts
            /\ cy[k].invalidated => cm[k].invalidated
            /\ cy[k].ticket \in {t} => cm[k].invalidated
  BY <1>1, <1>2, MarkedRows, LenProperties
<1> HIDE DEF cm
<1>4. Disregarded(d, cm, t)
  BY <1>1, <1>2, <1>3 DEF Disregarded
<1> QED BY <1>4 DEF cm, cy

LEMMA ReopenKeeps ==
  ASSUME NEW d, Good(d), NEW t \in Tickets(d), Unclosed(d) \subseteq {t}, d.client.state = "granted"
  PROVE  Good(Reopened(d, t)) /\ Unanswered(d, Reopened(d, t))
<1> DEFINE c == d.ticket[t].cycle
<1> DEFINE g == IF c = 0 THEN d ELSE CancelCycleDeliveries(d, c)
<1> DEFINE old == d.ticket[t]
<1> DEFINE row == [old EXCEPT !.status = "in_progress", !.cycle = 0, !.lifecycle = @ + 1,
                              !.waiting = FALSE, !.heard = FALSE]
<1> DEFINE cy == Marked(Unasked(g.cycle, c), {t})
<1> DEFINE e == [g EXCEPT !.cycle = cy, !.ticket = [g.ticket EXCEPT ![t] = row],
                          !.closing = Outdated(g.closing, t)]
<1>1. Good(g) /\ g = [d EXCEPT !.out = g.out]
  <2>1. CASE c = 0
    <3>1. g = d
      BY <2>1
    <3>2. d = [d EXCEPT !.out = d.out]
      BY DEF Good, Typed
    <3> HIDE DEF g
    <3> QED BY <3>1, <3>2
  <2>2. CASE c # 0
    <3>1. g = CancelCycleDeliveries(d, c)
      BY <2>2
    <3> HIDE DEF g, c
    <3> QED BY <3>1, CancelKeeps
  <2> QED BY <2>1, <2>2
<1>2. Typed(d) /\ Typed(g) /\ c \in 0 .. Len(d.cycle)
  BY <1>1 DEF Good, Cycled
<1>3. Reopened(d, t) = e
  <2> DEFINE ended == IF c = 0 THEN d
                      ELSE [CancelCycleDeliveries(d, c) EXCEPT !.cycle[c] = Over(@, @.finished)]
  <2>1. ended = [g EXCEPT !.cycle = Unasked(g.cycle, c)]
    <3>1. CASE c = 0
      <4>1. ended = d /\ g = d
        BY <3>1
      <4>2. Unasked(d.cycle, c) = d.cycle
        BY <3>1 DEF Unasked
      <4>3. d = [d EXCEPT !.cycle = d.cycle]
        BY <1>2 DEF Typed
      <4> QED BY <4>1, <4>2, <4>3
    <3>2. CASE c # 0
      <4>1. g = CancelCycleDeliveries(d, c)
        BY <3>2
      <4>2. ended = [g EXCEPT !.cycle[c] = Over(@, @.finished)]
        BY <3>2, <4>1
      <4> HIDE DEF g, ended
      <4>3. [g EXCEPT !.cycle[c] = Over(@, @.finished)] =
               [g EXCEPT !.cycle = [g.cycle EXCEPT ![c] = Over(g.cycle[c], g.cycle[c].finished)]]
        BY <1>2 DEF Typed
      <4> QED BY <3>2, <4>2, <4>3 DEF Unasked
    <3> QED BY <3>1, <3>2
  <2> HIDE DEF g, ended
  <2>2. Invalidate(ended, {t}) = [g EXCEPT !.cycle = cy]
    <3> DEFINE u == Unasked(g.cycle, c)
    <3>1. ended = [g EXCEPT !.cycle = u]
      BY <2>1
    <3> HIDE DEF u
    <3>2. Invalidate(ended, {t}) = [g EXCEPT !.cycle = Marked(u, {t})]
      BY <1>2, <3>1 DEF Invalidate, Marked, Typed
    <3> QED BY <3>2 DEF u
  <2> HIDE DEF cy
  <2>3. Reopened(d, t) = Change(Invalidate(ended, {t}), t, row)
    BY DEF Reopened, ended
  <2>4. g.ticket = d.ticket
    BY <1>1, <1>2 DEF Typed
  <2> HIDE DEF row
  <2>5. Change([g EXCEPT !.cycle = cy], t, row) = e
    BY <1>2 DEF Change, Typed
  <2> QED BY <2>2, <2>3, <2>5
<1>4. /\ g.ticket = d.ticket /\ g.cycle = d.cycle /\ g.client = d.client
      /\ Tickets(g) = Tickets(d) /\ Unclosed(g) = Unclosed(d)
  <2>1. g.ticket = d.ticket /\ g.cycle = d.cycle /\ g.client = d.client
    BY <1>1, <1>2 DEF Typed
  <2> QED BY <2>1 DEF Tickets, Unclosed
<1>5. row \in Ticket /\ row.status = "in_progress" /\ row.cycle = 0 /\ ~row.heard
  <2>1. old \in Ticket /\ 0 \in 0 .. MaxCycles
    BY <1>2, Domains, BoundsAssumption
  <2> HIDE DEF old
  <2>2. old.lifecycle + 1 \in Nat
    BY <2>1 DEF Ticket
  <2> DEFINE l == old.lifecycle + 1
  <2>3. row = [old EXCEPT !.status = "in_progress", !.cycle = 0, !.lifecycle = l,
                          !.waiting = FALSE, !.heard = FALSE]
    BY <2>1 DEF Ticket
  <2> HIDE DEF l, row
  <2>4. l \in Nat
    BY <2>2 DEF l
  <2> QED BY <2>1, <2>3, <2>4 DEF Ticket
<1> HIDE DEF g, c, row
<1>6. Disregarded(g, cy, t)
  BY <1>2, <1>4, UnaskedRows
<1> HIDE DEF cy
<1>7. Good(e) /\ Unanswered(g, e)
  BY <1>1, <1>4, <1>5, <1>6, ReopenRowsKeep
<1> HIDE DEF e
<1>8. Unanswered(d, e)
  BY <1>4, <1>7 DEF Unanswered
<1> QED BY <1>3, <1>7, <1>8

\* The rows with a new reply of the staff.
WithReply(d, t) ==
    [d EXCEPT !.replies = d.replies + 1,
              !.out = d.out \cup {[kind |-> "staff", number |-> d.replies + 1, ticket |-> t, cycle |-> 0,
                                   state |-> "queued"]}]

LEMMA WithReplyKeeps ==
  ASSUME NEW d, Good(d), NEW t \in Tickets(d), d.replies < MaxReplies
  PROVE  LET e == WithReply(d, t)
         IN /\ Good(e) /\ e.ticket = d.ticket /\ e.cycle = d.cycle /\ e.closing = d.closing
            /\ \E r \in e.out : r.kind = "staff" /\ r.number = d.replies + 1
<1> DEFINE n == d.replies + 1
<1> DEFINE r0 == [kind |-> "staff", number |-> n, ticket |-> t, cycle |-> 0, state |-> "queued"]
<1> DEFINE e == [d EXCEPT !.replies = n, !.out = d.out \cup {r0}]
<1>1. /\ Typed(d) /\ OneOpen(d) /\ WithConsent(d) /\ Cycled(d) /\ Counted(d) /\ Emptied(d) /\ Messaged(d)
      /\ Ordered(d) /\ Handleable(d) /\ Asking(d) /\ Heard(d) /\ Answering(d) /\ Addressed(d)
  BY DEF Good
<1>2. d.replies \in Nat /\ d.out \in SUBSET AnyDelivery /\ Len(d.cycle) \in Nat
      /\ Tickets(d) = 1 .. Len(d.ticket)
  <2>1. d.replies \in 0 .. MaxReplies /\ d.out \in SUBSET AnyDelivery
    BY <1>1 DEF Typed
  <2> QED BY <1>1, <2>1, Domains, BoundsAssumption
<1>3. n \in 0 .. MaxReplies /\ n \in 1 .. n /\ \A k \in 1 .. d.replies : k \in 1 .. n /\ k # n
  <2> DEFINE m == d.replies
  <2>1. m \in Nat /\ m < MaxReplies /\ MaxReplies \in Nat /\ n = m + 1
    BY <1>2, BoundsAssumption
  <2> HIDE DEF m, n
  <2>2. n \in 0 .. MaxReplies /\ n \in 1 .. n
    BY <2>1
  <2>3. \A k \in 1 .. m : k \in 1 .. n /\ k # n
    BY <2>1
  <2> QED BY <2>2, <2>3 DEF m
<1> HIDE DEF n
<1>4. r0 \in AnyDelivery /\ r0.kind = "staff" /\ r0.number = n /\ r0.ticket = t /\ r0.cycle = 0
  <2>1. t \in Nat \ {0} /\ 0 \in 0 .. MaxCycles
    BY <1>1, <1>2, BoundsAssumption
  <2> QED BY <1>3, <2>1 DEF AnyDelivery, AnyTicket
<1> HIDE DEF r0
<1>5. Typed(e)
  <2>1. d.out \cup {r0} \in SUBSET AnyDelivery
    BY <1>2, <1>4
  <2> QED BY <1>1, <1>3, <2>1 DEF Typed
<1>6. /\ e.inbox = d.inbox /\ e.client = d.client /\ e.buffer = d.buffer
      /\ e.message = d.message /\ e.out = d.out \cup {r0} /\ e.replies = n
      /\ e.ticket = d.ticket /\ e.cycle = d.cycle /\ e.closing = d.closing
  BY <1>1 DEF Typed
<1>7. WithReply(d, t) = e
  BY DEF WithReply, r0, n
<1> HIDE DEF e
<1>8. Quiet(d, e)
  BY <1>1, <1>6 DEF Quiet, Emptied
<1>9. StillOrdered(d, e) /\ Messaged(e)
  BY <1>1, <1>6 DEF StillOrdered, Ordered, Messaged
<1>10. Addressed(e)
  <2>1. 0 \in 0 .. Len(d.cycle)
    BY <1>2
  <2> QED BY <1>1, <1>4, <1>6, <2>1 DEF Addressed, Tickets
<1>11. Answering(e)
  <2>1. \A r \in d.out : r.kind = "staff" => r.number \in 1 .. n /\ r.number # n
    BY <1>1, <1>3 DEF Answering
  <2>2. \A r, q \in d.out : r.kind = "staff" /\ q.kind = "staff" /\ r.number = q.number => r = q
    BY <1>1 DEF Answering
  <2>3. \A j \in d.closing :
          \E r \in d.out : r.kind = "staff" /\ r.number = j.reply /\ (j.read => r.state = "delivered")
    BY <1>1 DEF Answering
  <2> QED BY <1>3, <1>4, <1>6, <2>1, <2>2, <2>3 DEF Answering
<1>12. Good(e)
  BY <1>1, <1>5, <1>8, <1>9, <1>10, <1>11, QuietKeeps
<1>13. \E r \in e.out : r.kind = "staff" /\ r.number = n
  BY <1>4, <1>6
<1> QED BY <1>6, <1>7, <1>12, <1>13 DEF n

LEMMA PausedKeeps ==
  ASSUME NEW d, Good(d), NEW t \in Tickets(d)
  PROVE  LET e == Paused(d, t)
         IN /\ Good(e) /\ e.cycle = d.cycle /\ e.out = d.out
            /\ Tickets(e) = Tickets(d)
<1> DEFINE old == d.ticket[t]
<1> DEFINE row == [old EXCEPT !.waiting = TRUE, !.heard = FALSE]
<1> DEFINE tk == [d.ticket EXCEPT ![t] = row]
<1> DEFINE e == Change(d, t, row)
<1>1. /\ Typed(d) /\ d.ticket \in Seq(Ticket) /\ Tickets(d) = 1 .. Len(d.ticket)
      /\ Len(d.ticket) \in Nat
  BY Domains DEF Good, Typed
<1>2. old \in Ticket
  BY <1>1, Domains
<1>3. row \in Ticket /\ row.status = old.status /\ row.cycle = old.cycle /\ ~row.heard
  BY <1>2 DEF Ticket
<1>4. Paused(d, t) = e
  BY DEF Paused
<1> HIDE DEF row
<1>5. Good(e) /\ e = [d EXCEPT !.ticket = tk, !.closing = Outdated(d.closing, t)]
  BY <1>3, ChangeKeeps
<1>6. tk \in Seq(Ticket) /\ Len(tk) = Len(d.ticket)
  BY <1>1, <1>3, ExceptSeq
<1> HIDE DEF tk, e
<1>7. e.cycle = d.cycle /\ e.ticket = tk /\ e.out = d.out
  BY <1>1, <1>5 DEF Typed
<1>8. Tickets(e) = Tickets(d)
  BY <1>1, <1>5, <1>6, <1>7, Domains DEF Good
<1> QED BY <1>4, <1>5, <1>7, <1>8

\* The rows after Reply.
Replying(d, t, close, wait) ==
    LET n      == d.replies + 1
        queued == Queue(Touch([d EXCEPT !.replies = n], t), "staff", n, t, 0)
        job    == [ticket |-> t, lifecycle |-> d.ticket[t].lifecycle, reply |-> n,
                   read |-> FALSE, fresh |-> FALSE]
        waits  == IF wait /\ ~d.ticket[t].waiting THEN Paused(queued, t) ELSE queued
    IN IF close THEN [waits EXCEPT !.closing = @ \cup {job}] ELSE waits

LEMMA ReplyKeeps ==
  ASSUME NEW d, Good(d), NEW t \in Tickets(d), d.replies < MaxReplies,
         NEW close \in BOOLEAN, NEW wait \in BOOLEAN
  PROVE  Good(Replying(d, t, close, wait)) /\ Unanswered(d, Replying(d, t, close, wait))
<1> DEFINE n == d.replies + 1
<1> DEFINE f == Touch(d, t)
<1> DEFINE g == WithReply(f, t)
<1> DEFINE w == IF wait /\ ~d.ticket[t].waiting THEN Paused(g, t) ELSE g
<1> DEFINE job == [ticket |-> t, lifecycle |-> d.ticket[t].lifecycle, reply |-> n,
                   read |-> FALSE, fresh |-> FALSE]
<1> DEFINE jobs == w.closing \cup {job}
<1> DEFINE e == [w EXCEPT !.closing = jobs]
<1>1. Typed(d) /\ t \in Nat \ {0} /\ d.ticket[t] \in Ticket
  BY Domains DEF Good
<1>2. Good(f) /\ f = [d EXCEPT !.closing = f.closing] /\ f.closing = Outdated(d.closing, t)
  BY <1>1, TouchKeeps DEF Touch, Typed
<1>3. Queue(Touch([d EXCEPT !.replies = n], t), "staff", n, t, 0) = g
  <2> HIDE DEF n
  <2>1. Touch([d EXCEPT !.replies = n], t) = [d EXCEPT !.replies = n, !.closing = Outdated(d.closing, t)]
    BY <1>1 DEF Touch, Typed
  <2>2. Touch([d EXCEPT !.replies = n], t) = [f EXCEPT !.replies = n] /\ f.replies = d.replies
    <3> DEFINE stale == Outdated(d.closing, t)
               both == Touch([d EXCEPT !.replies = n], t)
    <3>1. f = [d EXCEPT !.closing = stale] /\ both = [d EXCEPT !.replies = n, !.closing = stale]
      BY <1>2, <2>1
    <3> HIDE DEF stale, both, f
    <3>2. both = [f EXCEPT !.replies = n] /\ f.replies = d.replies
      BY <1>1, <3>1 DEF Typed
    <3> QED BY <3>2 DEF both
  <2> HIDE DEF f
  <2>3. Queue([f EXCEPT !.replies = n], "staff", n, t, 0) = WithReply(f, t)
    <3>1. f.replies + 1 = n
      BY <2>2 DEF n
    <3> QED BY <1>2, <3>1 DEF Queue, WithReply, Good, Typed
  <2> QED BY <2>2, <2>3 DEF g
<1>4. /\ f.ticket = d.ticket /\ f.cycle = d.cycle /\ f.replies = d.replies /\ Tickets(f) = Tickets(d)
  <2>1. f.ticket = d.ticket /\ f.cycle = d.cycle /\ f.replies = d.replies
    BY <1>1, <1>2 DEF Typed
  <2> QED BY <2>1 DEF Tickets
<1> HIDE DEF f
<1>5. /\ Good(g) /\ g.ticket = d.ticket /\ g.cycle = d.cycle /\ Tickets(g) = Tickets(d)
      /\ \E r \in g.out : r.kind = "staff" /\ r.number = n
  <2>1. /\ Good(g) /\ g.ticket = f.ticket /\ g.cycle = f.cycle
        /\ \E r \in g.out : r.kind = "staff" /\ r.number = f.replies + 1
    BY <1>2, <1>4, WithReplyKeeps
  <2> HIDE DEF g
  <2> QED BY <1>4, <2>1 DEF Tickets
<1> HIDE DEF g
<1>6. /\ Good(w) /\ w.cycle = d.cycle /\ Tickets(w) = Tickets(d)
      /\ \E r \in w.out : r.kind = "staff" /\ r.number = n
  <2>1. CASE wait /\ ~d.ticket[t].waiting
    <3>1. w = Paused(g, t)
      BY <2>1
    <3> HIDE DEF w
    <3> QED BY <1>5, <3>1, PausedKeeps
  <2>2. CASE ~(wait /\ ~d.ticket[t].waiting)
    <3>1. w = g
      BY <2>2
    <3> HIDE DEF w
    <3> QED BY <1>5, <3>1
  <2> QED BY <2>1, <2>2
<1>7. Replying(d, t, close, wait) = IF close THEN e ELSE w
  <2>1. Replying(d, t, close, wait) = IF close THEN [w EXCEPT !.closing = @ \cup {job}] ELSE w
    BY <1>3 DEF Replying
  <2> HIDE DEF w
  <2>2. [w EXCEPT !.closing = @ \cup {job}] = e
    BY <1>6 DEF Good, Typed
  <2> QED BY <2>1, <2>2
<1>8. job \in AnyClosing /\ job.ticket = t /\ ~job.fresh /\ job.reply = n /\ ~job.read
  <2>1. n \in 1 .. MaxReplies /\ d.ticket[t].lifecycle \in Nat
    <3>1. d.replies \in Nat
      BY <1>1, BoundsAssumption DEF Typed
    <3>2. d.ticket[t].lifecycle \in Nat
      BY <1>1 DEF Ticket
    <3> QED BY <3>1, <3>2, BoundsAssumption
  <2> HIDE DEF n
  <2> QED BY <1>1, <2>1 DEF AnyClosing, AnyTicket
<1> HIDE DEF w, job, n
<1>9. Good(e) /\ Unanswered(w, e) /\ e.cycle = w.cycle
  <2>1. w.closing \subseteq AnyClosing /\ Ordered(w) /\ Answering(w)
    BY <1>6 DEF Good, Typed
  <2>2. jobs \subseteq AnyClosing
    BY <1>8, <2>1
  <2>3. \A k \in w.closing :
            /\ k.ticket \in Tickets(w)
            /\ k.fresh => /\ k.read
                          /\ w.ticket[k.ticket].status = "in_progress"
                          /\ w.ticket[k.ticket].lifecycle = k.lifecycle
            /\ \E r \in w.out : r.kind = "staff" /\ r.number = k.reply /\ (k.read => r.state = "delivered")
    BY <2>1 DEF Ordered, Answering
  <2>4. \A k \in jobs :
            /\ k.ticket \in Tickets(w)
            /\ k.fresh => /\ k.read
                          /\ w.ticket[k.ticket].status = "in_progress"
                          /\ w.ticket[k.ticket].lifecycle = k.lifecycle
            /\ \E r \in w.out : r.kind = "staff" /\ r.number = k.reply /\ (k.read => r.state = "delivered")
    BY <1>6, <1>8, <2>3
  <2> HIDE DEF jobs
  <2> QED BY <1>6, <2>2, <2>4, JobsKeep
<1> HIDE DEF e
<1>10. Unanswered(d, w) /\ Unanswered(d, e)
  BY <1>1, <1>6, <1>9, NothingAnswered
<1> QED BY <1>6, <1>7, <1>9, <1>10

-----------------------------------------------------------------------------
(* The steps.  All but those that handle an input or close a ticket leave  *)
(* the ratings unanswered.                                                 *)

LEMMA RecordStep ==
  ASSUME Good(db), Record \/ IngestConsented
  PROVE  Good(db') /\ Unanswered(db, db')
<1>1. Typed(db) /\ Len(db.inbox) \in Nat
  BY Domains DEF Good
<1>2. CASE Record
  <2>1. PICK kind \in Kinds :
           \E button \in IF kind = "press" THEN {b \in Buttons : db.buttons[b] > 0} ELSE {NoButton},
              target \in IF kind = "edit" THEN 1 .. Len(db.inbox) + 2 ELSE {0} :
                 target <= MaxInputs /\ db' = Recorded(db, kind, button, target)
    BY <1>2 DEF Record
  <2>2. PICK button \in IF kind = "press" THEN {b \in Buttons : db.buttons[b] > 0} ELSE {NoButton},
             target \in IF kind = "edit" THEN 1 .. Len(db.inbox) + 2 ELSE {0} :
                target <= MaxInputs /\ db' = Recorded(db, kind, button, target)
    BY <2>1
  <2>3. kind \in AllKinds
    BY KindsAssumption
  <2>4. button \in Buttons \cup {NoButton} /\ (kind = "press" => button \in Buttons)
    BY <2>2
  <2>5. target \in 0 .. MaxInputs /\ (kind = "edit" => target # 0)
    BY <1>1, <2>2, BoundsAssumption
  <2> DEFINE e == Recorded(db, kind, button, target)
  <2>6. ~db.client.erased /\ Len(db.inbox) < MaxInputs
    BY <1>2 DEF Record
  <2>7. Good(e) /\ e.cycle = db.cycle
    BY <2>3, <2>4, <2>5, <2>6, RecordedKeeps
  <2> HIDE DEF e
  <2>8. Unanswered(db, e)
    BY <1>1, <2>7, NothingAnswered
  <2> QED BY <2>2, <2>7, <2>8 DEF e
<1>3. CASE IngestConsented
  <2> DEFINE g == IF Grantable(db) THEN GrantConsent(db) ELSE db
  <2> DEFINE e == Recorded(g, "text", NoButton, 0)
  <2>1. ~db.client.erased /\ db.inbox = <<>> /\ db' = e
    BY <1>3 DEF IngestConsented
  <2>2. Good(g) /\ g.inbox = db.inbox /\ g.cycle = db.cycle /\ ~g.client.erased
    <3>1. CASE Grantable(db)
      <4>1. g = GrantConsent(db)
        BY <3>1
      <4> HIDE DEF g
      <4> QED BY <2>1, <4>1, GrantKeeps DEF Beside
    <3>2. CASE ~Grantable(db)
      <4>1. g = db
        BY <3>2
      <4> HIDE DEF g
      <4> QED BY <2>1, <4>1
    <3> QED BY <3>1, <3>2
  <2> HIDE DEF g
  <2>3. Len(g.inbox) < MaxInputs /\ 0 \in 0 .. MaxInputs /\ "text" \in AllKinds
    BY <2>1, <2>2, EmptySeq, BoundsAssumption DEF AllKinds
  <2>4. Good(e) /\ e.cycle = g.cycle
    BY <2>2, <2>3, RecordedKeeps
  <2> HIDE DEF e
  <2>5. Unanswered(db, e)
    BY <1>1, <2>2, <2>4, NothingAnswered
  <2> QED BY <2>1, <2>4, <2>5
<1> QED BY <1>2, <1>3

LEMMA RareStep ==
  ASSUME Good(db), ExpireBuffers \/ PublishPolicy \/ ReviseDeferred
  PROVE  Good(db') /\ Unanswered(db, db')
<1>1. Typed(db) /\ db.buffer \in Seq(Buffered) /\ Len(db.buffer) \in Nat /\ Len(db.buffer) <= MaxBuffered
  BY Domains DEF Good, Typed
<1>2. db.client.erased => db.buffer = <<>>
  BY DEF Good, Emptied
<1>3. CASE ExpireBuffers
  <2> DEFINE m == Len(db.buffer)
  <2>1. PICK n \in 1 .. m : db' = [db EXCEPT !.buffer = SubSeq(@, n + 1, Len(@))]
    BY <1>3 DEF ExpireBuffers
  <2> DEFINE bf == SubSeq(db.buffer, n + 1, m)
  <2> DEFINE e == [db EXCEPT !.buffer = bf]
  <2>2. db' = e
    BY <1>1, <2>1 DEF Typed
  <2>3. bf \in Seq(Buffered) /\ Len(bf) <= MaxBuffered
    <3>1. \A i \in 1 .. m : db.buffer[i] \in Buffered
      BY <1>1, Domains
    <3>2. n + 1 \in Int /\ m \in Int /\ \A i \in n + 1 .. m : db.buffer[i] \in Buffered
      BY <1>1, <3>1
    <3>3. bf \in Seq(Buffered) /\ Len(bf) = IF n + 1 <= m THEN m - (n + 1) + 1 ELSE 0
      BY <3>2, SubSeqProperties
    <3>4. m \in Nat /\ m <= MaxBuffered
      BY <1>1
    <3> HIDE DEF bf, m
    <3> QED BY <3>3, <3>4, BoundsAssumption
  <2>4. ~db.client.erased
    <3>1. m # 0
      BY <1>1
    <3> QED BY <1>2, <3>1, EmptySeq
  <2> HIDE DEF bf
  <2>5. Typed(e) /\ Beside(db, e) /\ e.client = db.client
    BY <1>1, <2>3 DEF Typed, Beside
  <2> HIDE DEF e
  <2>6. Good(e) /\ Unanswered(db, e)
    BY <2>4, <2>5, BesideKeeps
  <2> QED BY <2>2, <2>6
<1>4. CASE PublishPolicy
  <2> DEFINE p == db.policy + 1
  <2> DEFINE e == [db EXCEPT !.policy = p]
  <2>1. db' = e
    BY <1>1, <1>4 DEF PublishPolicy, Typed
  <2>2. p \in Editions
    <3>1. db.policy \in Editions /\ db.policy < Policies
      BY <1>1, <1>4 DEF PublishPolicy, Typed
    <3> QED BY <3>1, BoundsAssumption DEF Editions
  <2> HIDE DEF p
  <2>3. Typed(e) /\ Beside(db, e) /\ e.client = db.client /\ e.buffer = db.buffer
    BY <1>1, <2>2 DEF Typed, Beside
  <2> HIDE DEF e
  <2>4. Good(e) /\ Unanswered(db, e)
    BY <1>2, <2>3, BesideKeeps
  <2> QED BY <2>1, <2>4
<1>5. CASE ReviseDeferred
  <2>1. PICK job \in db.revising :
           db' = ReviseClientMessage([db EXCEPT !.revising = @ \ {job}], job.input, job.target)
    BY <1>5 DEF ReviseDeferred
  <2>2. job.input \in 1 .. MaxInputs /\ job.target \in 1 .. MaxInputs
    BY <1>1 DEF Typed, Revision
  <2> DEFINE g == [db EXCEPT !.revising = db.revising \ {job}]
  <2> DEFINE e == ReviseClientMessage(g, job.input, job.target)
  <2>3. db' = e
    BY <1>1, <2>1 DEF Typed
  <2>4. Typed(g) /\ Beside(db, g) /\ g.client = db.client /\ g.buffer = db.buffer
    BY <1>1 DEF Typed, Beside
  <2> HIDE DEF g
  <2>5. Good(g) /\ Unanswered(db, g) /\ g.cycle = db.cycle
    BY <1>2, <2>4, BesideKeeps DEF Beside
  <2>6. Good(e) /\ Unanswered(g, e)
    BY <2>2, <2>5, ReviseMessageKeeps
  <2> HIDE DEF e
  <2>7. Unanswered(db, e)
    BY <2>5, <2>6 DEF Unanswered
  <2> QED BY <2>3, <2>6, <2>7
<1> QED BY <1>3, <1>4, <1>5

LEMMA TouchStep ==
  ASSUME NEW d, Good(d), NEW t
  PROVE  Good(Touch(d, t)) /\ Unanswered(d, Touch(d, t))
<1> DEFINE e == Touch(d, t)
<1>1. Good(e) /\ e = [d EXCEPT !.closing = e.closing]
  BY TouchKeeps
<1> HIDE DEF e
<1>2. e.cycle = d.cycle /\ Typed(d)
  BY <1>1 DEF Good, Typed
<1> QED BY <1>1, <1>2, NothingAnswered DEF e

LEMMA WorkStep ==
  ASSUME NEW d, Good(d), NEW t \in Tickets(d), NEW status \in Working,
         d.ticket[t].status \in Working
  PROVE  LET e == Change(d, t, [d.ticket[t] EXCEPT !.status = status])
         IN Good(e) /\ Unanswered(d, e)
<1> DEFINE old == d.ticket[t]
<1> DEFINE row == [old EXCEPT !.status = status]
<1> DEFINE e == Change(d, t, row)
<1>1. Typed(d) /\ old \in Ticket
  BY Domains DEF Good
<1>2. /\ row \in Ticket /\ row.status = status /\ row.cycle = old.cycle
      /\ row.heard = old.heard /\ row.waiting = old.waiting
  <2>1. status \in {"open", "in_progress", "awaiting_rating", "closed"}
    BY DEF Working
  <2> QED BY <1>1, <2>1 DEF Ticket
<1> HIDE DEF row
<1>3. Good(e) /\ e = [d EXCEPT !.ticket = [d.ticket EXCEPT ![t] = row], !.closing = Outdated(d.closing, t)]
  BY <1>2, ChangeKeeps
<1> HIDE DEF e
<1>4. e.cycle = d.cycle
  BY <1>1, <1>3 DEF Typed
<1> QED BY <1>1, <1>3, <1>4, NothingAnswered DEF e, row

LEMMA StaffStep ==
  ASSUME Good(db), NEW t \in Tickets(db),
         Assign(t) \/ Release(t) \/ Amend(t) \/ Wait(t) \/ StopWaiting(t) \/ Reply(t) \/ Reopen(t)
  PROVE  Good(db') /\ Unanswered(db, db')
<1>1. Typed(db)
  BY DEF Good
<1>2. CASE Assign(t)
  BY <1>2, WorkStep DEF Assign, Command, Working
<1>3. CASE Release(t)
  BY <1>3, WorkStep DEF Release, Command, Working
<1>4. CASE Amend(t)
  BY <1>4, TouchStep DEF Amend
<1>5. CASE Wait(t)
  <2>1. db' = Paused(db, t)
    BY <1>5 DEF Wait
  <2> QED BY <1>1, <2>1, PausedKeeps, NothingAnswered
<1>6. CASE StopWaiting(t)
  <2>1. db' = Resume(db, t)
    BY <1>6 DEF StopWaiting
  <2> QED BY <1>1, <2>1, ResumeKeeps, NothingAnswered
<1>7. CASE Reply(t)
  <2>1. db.replies < MaxReplies
    BY <1>7 DEF Reply
  <2>2. \E close \in BOOLEAN, wait \in BOOLEAN : db' = Replying(db, t, close, wait)
    BY <1>7 DEF Reply, Replying
  <2> QED BY <2>1, <2>2, ReplyKeeps
<1>8. CASE Reopen(t)
  <2>1. Unclosed(db) \subseteq {t} /\ db.client.state = "granted" /\ db' = Reopened(db, t)
    BY <1>8 DEF Reopen, SlotFree, Command, Workable
  <2> QED BY <2>1, ReopenKeeps
<1> QED BY <1>2, <1>3, <1>4, <1>5, <1>6, <1>7, <1>8

LEMMA RepliedIs ==
  ASSUME NEW d, Good(d), NEW j \in d.closing
  PROVE  /\ Replied(d, j) \in d.out /\ Replied(d, j).kind = "staff" /\ Replied(d, j).number = j.reply
         /\ j.read => Replied(d, j).state = "delivered"
<1>1. PICK r \in d.out : r.kind = "staff" /\ r.number = j.reply /\ (j.read => r.state = "delivered")
  BY DEF Good, Answering
<1>2. \A q \in d.out : q.kind = "staff" /\ q.number = j.reply => q = r
  BY <1>1 DEF Good, Answering
<1> QED BY <1>1, <1>2 DEF Replied

\* A job whose row becomes another one of the same ticket, lifecycle and reply.
LEMMA JobStep ==
  ASSUME Good(db), NEW j \in db.closing, NEW k \in AnyClosing,
         k.ticket = j.ticket, k.lifecycle = j.lifecycle, k.reply = j.reply,
         k.fresh => /\ k.read
                    /\ db.ticket[j.ticket].status = "in_progress"
                    /\ db.ticket[j.ticket].lifecycle = j.lifecycle,
         k.read => Replied(db, j).state = "delivered",
         db' = [db EXCEPT !.closing = (@ \ {j}) \cup {k}]
  PROVE  Good(db') /\ Unanswered(db, db')
<1> DEFINE jobs == (db.closing \ {j}) \cup {k}
<1> DEFINE e == [db EXCEPT !.closing = jobs]
<1>1. Typed(db) /\ Ordered(db) /\ Answering(db) /\ db.closing \in SUBSET AnyClosing
  BY DEF Good, Typed
<1>2. db' = e
  BY <1>1 DEF Typed
<1>3. \A i \in db.closing :
            /\ i.ticket \in Tickets(db)
            /\ i.fresh => /\ i.read
                          /\ db.ticket[i.ticket].status = "in_progress"
                          /\ db.ticket[i.ticket].lifecycle = i.lifecycle
            /\ \E r \in db.out : r.kind = "staff" /\ r.number = i.reply /\ (i.read => r.state = "delivered")
  BY <1>1 DEF Ordered, Answering
<1>4. /\ k.ticket \in Tickets(db)
      /\ k.fresh => /\ k.read
                    /\ db.ticket[k.ticket].status = "in_progress"
                    /\ db.ticket[k.ticket].lifecycle = k.lifecycle
      /\ \E r \in db.out : r.kind = "staff" /\ r.number = k.reply /\ (k.read => r.state = "delivered")
  BY <1>3, RepliedIs
<1>5. \A i \in jobs :
            /\ i.ticket \in Tickets(db)
            /\ i.fresh => /\ i.read
                          /\ db.ticket[i.ticket].status = "in_progress"
                          /\ db.ticket[i.ticket].lifecycle = i.lifecycle
            /\ \E r \in db.out : r.kind = "staff" /\ r.number = i.reply /\ (i.read => r.state = "delivered")
  BY <1>3, <1>4
<1>6. jobs \subseteq AnyClosing
  BY <1>1
<1> HIDE DEF jobs
<1>7. Good(e) /\ Unanswered(db, e)
  BY <1>5, <1>6, JobsKeep
<1> QED BY <1>2, <1>7

LEMMA JobEnds ==
  ASSUME Good(db), NEW j, db' = [db EXCEPT !.closing = @ \ {j}]
  PROVE  Good(db') /\ Unanswered(db, db')
<1> DEFINE jobs == db.closing \ {j}
<1>1. db' = [db EXCEPT !.closing = jobs]
  BY DEF Good, Typed
<1>2. jobs \subseteq db.closing
  OBVIOUS
<1> HIDE DEF jobs
<1> QED BY <1>1, <1>2, FewerJobs

\* A job orders the close again, or is given up.
Postponed(j) ==
    \/ db' = [db EXCEPT !.closing = (@ \ {j}) \cup {[j EXCEPT !.read = FALSE, !.fresh = FALSE]}]
    \/ db' = [db EXCEPT !.closing = @ \ {j}]

LEMMA ReadStep ==
  ASSUME Good(db), NEW j \in db.closing, ReadForClose(j) \/ GiveUp(j) \/ Postponed(j)
  PROVE  Good(db') /\ Unanswered(db, db')
<1>1. j \in AnyClosing
  BY DEF Good, Typed
<1>2. CASE ReadForClose(j)
  <2>1. CASE db' = [db EXCEPT !.closing = @ \ {j}]
    BY <2>1, JobEnds
  <2>2. CASE /\ ~Obsolete(db, j)
             /\ Replied(db, j).state = "delivered"
             /\ db' = [db EXCEPT !.closing = (@ \ {j}) \cup {[j EXCEPT !.read = TRUE, !.fresh = TRUE]}]
    <3> DEFINE k == [j EXCEPT !.read = TRUE, !.fresh = TRUE]
    <3>1. /\ k \in AnyClosing /\ k.ticket = j.ticket /\ k.lifecycle = j.lifecycle /\ k.reply = j.reply
          /\ k.read
      BY <1>1 DEF AnyClosing
    <3>2. db.ticket[j.ticket].status = "in_progress" /\ db.ticket[j.ticket].lifecycle = j.lifecycle
      BY <2>2 DEF Obsolete
    <3>3. db' = [db EXCEPT !.closing = (@ \ {j}) \cup {k}]
      BY <2>2
    <3> HIDE DEF k
    <3> QED BY <2>2, <3>1, <3>2, <3>3, JobStep
  <2> QED BY <1>2, <2>1, <2>2 DEF ReadForClose
<1>3. CASE GiveUp(j)
  BY <1>3, JobEnds DEF GiveUp
<1>4. CASE Postponed(j)
  <2>1. CASE db' = [db EXCEPT !.closing = @ \ {j}]
    BY <2>1, JobEnds
  <2>2. CASE db' = [db EXCEPT !.closing = (@ \ {j}) \cup {[j EXCEPT !.read = FALSE, !.fresh = FALSE]}]
    <3> DEFINE k == [j EXCEPT !.read = FALSE, !.fresh = FALSE]
    <3>1. /\ k \in AnyClosing /\ k.ticket = j.ticket /\ k.lifecycle = j.lifecycle /\ k.reply = j.reply
          /\ ~k.read /\ ~k.fresh
      BY <1>1 DEF AnyClosing
    <3>2. db' = [db EXCEPT !.closing = (@ \ {j}) \cup {k}]
      BY <2>2
    <3> HIDE DEF k
    <3> QED BY <3>1, <3>2, JobStep
  <2> QED BY <1>4, <2>1, <2>2 DEF Postponed
<1> QED BY <1>2, <1>3, <1>4

LEMMA ExpiryStep ==
  ASSUME Good(db), CycleExpires
  PROVE  Good(db') /\ Unanswered(db, db')
<1> DEFINE c == Asked(db)
<1> DEFINE old == db.cycle[c]
<1> DEFINE own == [old EXCEPT !.expired = TRUE]
<1> DEFINE cy == [db.cycle EXCEPT ![c] = own]
<1> DEFINE e == [db EXCEPT !.cycle = cy]
<1>1. /\ Typed(db) /\ OneOpen(db) /\ Cycled(db) /\ Emptied(db) /\ Messaged(db)
      /\ Ordered(db) /\ Answering(db) /\ Addressed(db)
      /\ db.cycle \in Seq(AnyCycle)
  BY DEF Good, Typed
<1>2. c # 0 /\ db' = [db EXCEPT !.cycle[c].expired = TRUE]
  BY DEF CycleExpires
<1>3. c \in DOMAIN db.cycle /\ DOMAIN db.cycle = 1 .. Len(db.cycle)
  BY <1>1, <1>2, AskedIs, Domains
<1> HIDE DEF c
<1>4. db' = e
  BY <1>1, <1>2 DEF Typed
<1>5. old \in AnyCycle
  BY <1>1, <1>3, Domains
<1> HIDE DEF old
<1>6. /\ own \in AnyCycle /\ own.ticket = old.ticket /\ own.finished = old.finished
      /\ own.expired /\ own.attempts = old.attempts /\ own.invalidated = old.invalidated
      /\ own.before = old.before
  BY <1>5 DEF AnyCycle
<1> HIDE DEF own
<1>7. /\ cy \in Seq(AnyCycle) /\ Len(cy) = Len(db.cycle)
      /\ \A k \in 1 .. Len(db.cycle) : cy[k] = IF k = c THEN own ELSE db.cycle[k]
  BY <1>1, <1>3, <1>6, ExceptSeq
<1>8. \A k \in DOMAIN db.cycle :
          /\ cy[k].ticket = db.cycle[k].ticket /\ cy[k].finished = db.cycle[k].finished
          /\ db.cycle[k].expired => cy[k].expired
          /\ cy[k].attempts = db.cycle[k].attempts /\ cy[k].invalidated = db.cycle[k].invalidated
          /\ cy[k].before = db.cycle[k].before
  BY <1>3, <1>6, <1>7 DEF old
<1> HIDE DEF cy
<1>9. Typed(e)
  BY <1>1, <1>7 DEF Typed
<1>10. /\ e.inbox = db.inbox /\ e.client = db.client /\ e.buffer = db.buffer
       /\ e.message = db.message /\ e.out = db.out /\ e.replies = db.replies
       /\ e.ticket = db.ticket /\ e.cycle = cy /\ e.closing = db.closing
  BY <1>1 DEF Typed
<1> HIDE DEF e
<1>11. Quiet(db, e)
  BY <1>1, <1>7, <1>8, <1>10 DEF Quiet, Emptied
<1>12. StillOrdered(db, e) /\ Messaged(e) /\ Answering(e) /\ Addressed(e)
  BY <1>1, <1>7, <1>10 DEF StillOrdered, Ordered, Messaged, Answering, Addressed, Tickets
<1>13. Good(e)
  BY <1>9, <1>11, <1>12, QuietKeeps
<1>14. \A k \in DOMAIN db.cycle : db.cycle[k].attempts \in Nat
  BY <1>1, Domains DEF AnyCycle
<1>15. Unanswered(db, e)
  BY <1>7, <1>8, <1>10, <1>14 DEF Unanswered
<1> QED BY <1>4, <1>13, <1>15

LEMMA TimerStep ==
  ASSUME Good(db),
         ExpireCycle \/ RemindRating \/ \E t \in Tickets(db) : RemindWaiting(t)
  PROVE  Good(db') /\ Unanswered(db, db')
<1>1. Typed(db) /\ OneOpen(db) /\ Cycled(db)
  BY DEF Good
<1>2. CASE ExpireCycle
  <2> DEFINE t == Current(db)
  <2> DEFINE reason == IF PromptDelivered(db, Asked(db)) THEN "expired" ELSE "notification_not_delivered"
  <2> DEFINE e == FinishRating(db, t, reason)
  <2>1. Asked(db) # 0 /\ InTime(db) = {} /\ db' = e
    BY <1>2 DEF ExpireCycle
  <2>2. t \in Tickets(db) /\ db.ticket[t].status = "awaiting_rating"
    BY <1>1, <2>1, AskedIs DEF Unclosed
  <2>3. reason \in Reasons /\ reason \notin {"rated", "attempts_exhausted"}
    BY ReasonsGiven
  <2>4. \A i \in Pending(db) : db.inbox[i].late
    BY <2>1 DEF InTime, Late
  <2> HIDE DEF t, reason
  <2>5. /\ Good(e) /\ Len(e.cycle) = Len(db.cycle)
        /\ \A c \in DOMAIN db.cycle : c # Len(db.cycle) => e.cycle[c] = db.cycle[c]
        /\ e.cycle[Len(db.cycle)].attempts = 0 /\ e.cycle[Len(db.cycle)].finished = reason
    BY <2>2, <2>3, <2>4, FinishKeeps
  <2> HIDE DEF e
  <2>6. \A c \in DOMAIN db.cycle : db.cycle[c].attempts \in Nat
    BY <1>1, Domains DEF AnyCycle
  <2>7. Unanswered(db, e)
    BY <2>3, <2>5, <2>6 DEF Unanswered
  <2> QED BY <2>1, <2>5, <2>7
<1>3. CASE RemindRating
  BY <1>3, TouchStep DEF RemindRating
<1>4. CASE \E t \in Tickets(db) : RemindWaiting(t)
  BY <1>4, TouchStep DEF RemindWaiting
<1> QED BY <1>2, <1>3, <1>4

LEMMA RemovalStep ==
  ASSUME Good(db), EraseClient \/ \E t \in Tickets(db) : PurgeExpired(t)
  PROVE  Good(db') /\ Unanswered(db, db')
<1>1. CASE EraseClient
  <2>1. db' = Erasure(db)
    BY <1>1 DEF EraseClient, Erasure, Discarded, Finished
  <2> QED BY <2>1, EraseKeeps
<1>2. CASE \E t \in Tickets(db) : PurgeExpired(t)
  BY <1>2, PurgeKeeps DEF PurgeExpired
<1> QED BY <1>1, <1>2

LEMMA SenderStep ==
  ASSUME Good(db), Sender
  PROVE  Good(db') /\ Unanswered(db, db')
<1>1. PICK r \in db.out, state \in {"queued", "sending", "delivered", "undelivered"} :
         r.state # "delivered" /\ db' = Settle(db, {r}, state)
  BY DEF Sender, Claim, Report
<1> DEFINE e == Settle(db, {r}, state)
<1>2. Good(e) /\ e = [db EXCEPT !.out = e.out]
  BY <1>1, SettleKeeps
<1> HIDE DEF e
<1>3. Typed(db) /\ e.cycle = db.cycle
  BY <1>2 DEF Good, Typed
<1> QED BY <1>1, <1>2, <1>3, NothingAnswered DEF e

LEMMA ProcessStep ==
  ASSUME Good(db), Process
  PROVE  /\ Good(db') /\ Len(db'.cycle) = Len(db.cycle)
         /\ db.inbox[Oldest(db)].kind # "press" => AnswersAsked(db, db')
<1> DEFINE i == Oldest(db)
<1>1. Pending(db) # {} /\ Typed(db)
  BY DEF Process, Good
<1>2. PICK usable \in BOOLEAN, n \in 0 .. Len(db.buffer) :
         db' = [RouteInput(db, i, usable, n) EXCEPT !.inbox[i] = Closed(@, "done")]
  BY DEF Process
<1>3. i \in Pending(db) /\ \A k \in Pending(db) : i <= k
  BY <1>1, OldestIs
<1> DEFINE g == RouteInput(db, i, usable, n)
<1> HIDE DEF i
<1>4. /\ Good(g) /\ g.inbox = db.inbox /\ Len(g.cycle) = Len(db.cycle)
      /\ db.inbox[i].kind # "press" => AnswersAsked(db, g)
      /\ db.inbox[i].kind \in {"text", "rating"} => Unheard(g)
  BY <1>3, RouteKeeps
<1> HIDE DEF g
<1>5. db' = Handled(g, i)
  <2>1. db' = [g EXCEPT !.inbox[i] = Closed(@, "done")]
    BY <1>2 DEF g
  <2>2. Typed(g)
    BY <1>4 DEF Good
  <2> QED BY <2>1, <2>2 DEF Handled, Typed
<1>6. i \in Pending(g) /\ (g.inbox[i].kind \in {"text", "rating"} => Unheard(g))
  BY <1>3, <1>4 DEF Pending
<1> DEFINE e == Handled(g, i)
<1>7. Good(e) /\ e.cycle = g.cycle
  BY <1>4, <1>6, HandledKeeps
<1> HIDE DEF e
<1>8. AnswersAsked(db, g) => AnswersAsked(db, e)
  BY <1>7 DEF AnswersAsked
<1> QED BY <1>4, <1>5, <1>7, <1>8 DEF e, i

\* What a step does that closes ticket t: nothing else changes of tickets and cycles.
ClosesTicket(t) ==
    /\ Good(db')
    /\ t \in Tickets(db) /\ db.ticket[t].status \in Working
    /\ Len(db'.cycle) = Len(db.cycle) + 1
    /\ \A c \in DOMAIN db.cycle : db'.cycle[c] = db.cycle[c]
    /\ Pending(db) = {} \/ db'.cycle[Len(db.cycle) + 1].finished # "auto_closed"
    /\ \A u \in Tickets(db) \ {t} : db'.ticket[u] = db.ticket[u]

LEMMA ClosedByKeeps ==
  ASSUME NEW d, Good(d), NEW t \in Tickets(d), d.ticket[t].status = "in_progress",
         Pending(d) = {}, Len(d.cycle) < MaxCycles
  PROVE  LET e == ClosedBy(d, t)
         IN /\ Good(e) /\ Len(e.cycle) = Len(d.cycle) + 1
            /\ \A c \in DOMAIN d.cycle : e.cycle[c] = d.cycle[c]
            /\ \A u \in Tickets(d) \ {t} : e.ticket[u] = d.ticket[u]
            /\ e.closing = Outdated(d.closing, t)
<1> DEFINE c0 == Len(d.cycle) + 1
<1> DEFINE old == d.ticket[t]
<1> DEFINE row == [old EXCEPT !.status = "awaiting_rating", !.cycle = c0, !.waiting = FALSE, !.heard = FALSE]
<1> DEFINE cyc == NewCycle(t)
<1> DEFINE r0 == [kind |-> "ticket_closed", number |-> 0, ticket |-> t, cycle |-> c0, state |-> "queued"]
<1> DEFINE e == Queue(Change([d EXCEPT !.cycle = Append(d.cycle, cyc)], t, row), "ticket_closed", 0, t, c0)
<1>1. Typed(d) /\ old \in Ticket /\ t \in AnyTicket /\ Len(d.cycle) \in Nat
  BY Domains DEF Good, AnyTicket
<1>2. ClosedBy(d, t) = e
  BY <1>1 DEF ClosedBy, Typed
<1>3. cyc \in AnyCycle /\ cyc.ticket = t
  <2>1. 0 \in 0 .. MaxAttempts /\ 0 \in 0 .. MaxInputs /\ "" \in Reasons
    BY BoundsAssumption DEF Reasons
  <2> QED BY <1>1, <2>1 DEF NewCycle, AnyCycle
<1>9. cyc.finished = ""
  BY DEF NewCycle
<1>4. c0 \in 0 .. MaxCycles
  BY <1>1, BoundsAssumption
<1> DEFINE c == c0
<1> HIDE DEF c0, old
<1>5. row \in Ticket /\ row.status = "awaiting_rating" /\ row.cycle = c0 /\ ~row.heard
  BY <1>1, <1>4 DEF Ticket
<1> HIDE DEF row, cyc
<1>6. ClosingRows(d, row, cyc)
  BY <1>3, <1>5, <1>9 DEF ClosingRows, c0
<1>7. ClosedWith(d, t, row, cyc, {r0}) = e /\ {r0} \subseteq Announcements(d, t)
  BY <1>1 DEF ClosedWith, Queue, Change, Typed, Announcements, c0
<1> HIDE DEF e, r0
<1>8. /\ Good(e) /\ Len(e.cycle) = Len(d.cycle) + 1
      /\ \A k \in DOMAIN d.cycle : e.cycle[k] = d.cycle[k]
      /\ \A u \in Tickets(d) : e.ticket[u] = IF u = t THEN row ELSE d.ticket[u]
      /\ e.closing = Outdated(d.closing, t)
  <2>1. d.ticket[t].status \in Working /\ Len(d.cycle) < MaxCycles
    BY DEF Working
  <2>2. LET h == ClosedWith(d, t, row, cyc, {r0})
        IN /\ Good(h) /\ Len(h.cycle) = Len(d.cycle) + 1
           /\ \A k \in DOMAIN d.cycle : h.cycle[k] = d.cycle[k]
           /\ \A u \in Tickets(d) : h.ticket[u] = IF u = t THEN row ELSE d.ticket[u]
           /\ h.closing = Outdated(d.closing, t)
    BY <1>3, <1>5, <1>6, <1>7, <2>1, CloseKeeps
  <2> QED BY <1>7, <2>2
<1> QED BY <1>2, <1>8

LEMMA AutoCloseStep ==
  ASSUME Good(db), NEW t \in Tickets(db), AutoClose(t)
  PROVE  ClosesTicket(t) /\ db'.closing = Outdated(db.closing, t)
<1> DEFINE c0 == Len(db.cycle) + 1
<1> DEFINE old == db.ticket[t]
<1> DEFINE row == [old EXCEPT !.status = "closed", !.cycle = c0, !.waiting = FALSE, !.heard = FALSE]
<1> DEFINE cyc == [NewCycle(t) EXCEPT !.finished = "auto_closed"]
<1> DEFINE r0 == [kind |-> "auto_closed", number |-> 0, ticket |-> t, cycle |-> c0, state |-> "queued"]
<1> DEFINE e == Queue(Change([db EXCEPT !.cycle = Append(db.cycle, cyc)], t, row), "auto_closed", 0, t, c0)
<1>1. /\ Typed(db) /\ old \in Ticket /\ t \in AnyTicket /\ Len(db.cycle) \in Nat
      /\ Len(db.cycle) < MaxCycles /\ Pending(db) = {}
      /\ db.ticket[t].waiting /\ db.ticket[t].status = "in_progress"
  BY Domains DEF Good, AnyTicket, AutoClose, NothingInFlight
<1>2. db' = e
  <2>1. db' = Queue(Change([db EXCEPT !.cycle = Append(@, cyc)], t, row), "auto_closed", 0, t, c0)
    BY DEF AutoClose
  <2>2. [db EXCEPT !.cycle = Append(@, cyc)] = [db EXCEPT !.cycle = Append(db.cycle, cyc)]
    BY <1>1 DEF Typed
  <2> QED BY <2>1, <2>2
<1>3. cyc \in AnyCycle /\ cyc.ticket = t
  <2>1. 0 \in 0 .. MaxAttempts /\ 0 \in 0 .. MaxInputs /\ "auto_closed" \in Reasons
    BY BoundsAssumption, ReasonsGiven
  <2> QED BY <1>1, <2>1 DEF NewCycle, AnyCycle
<1>4. c0 \in 0 .. MaxCycles
  BY <1>1, BoundsAssumption
<1> HIDE DEF c0, old
<1>5. row \in Ticket /\ row.status = "closed" /\ row.cycle = c0 /\ ~row.heard
  BY <1>1, <1>4 DEF Ticket
<1> HIDE DEF row, cyc
<1>6. ClosingRows(db, row, cyc)
  BY <1>3, <1>5 DEF ClosingRows, c0
<1>7. ClosedWith(db, t, row, cyc, {r0}) = e /\ {r0} \subseteq Announcements(db, t)
  BY <1>1 DEF ClosedWith, Queue, Change, Typed, Announcements, c0
<1> HIDE DEF e, r0
<1>8. /\ Good(e) /\ Len(e.cycle) = Len(db.cycle) + 1
      /\ \A k \in DOMAIN db.cycle : e.cycle[k] = db.cycle[k]
      /\ \A u \in Tickets(db) : e.ticket[u] = IF u = t THEN row ELSE db.ticket[u]
      /\ e.closing = Outdated(db.closing, t)
  <2>1. db.ticket[t].status \in Working
    BY <1>1 DEF Working
  <2>2. LET h == ClosedWith(db, t, row, cyc, {r0})
        IN /\ Good(h) /\ Len(h.cycle) = Len(db.cycle) + 1
           /\ \A k \in DOMAIN db.cycle : h.cycle[k] = db.cycle[k]
           /\ \A u \in Tickets(db) : h.ticket[u] = IF u = t THEN row ELSE db.ticket[u]
           /\ h.closing = Outdated(db.closing, t)
    BY <1>1, <1>3, <1>5, <1>6, <1>7, <2>1, CloseKeeps
  <2> QED BY <1>7, <2>2
<1>9. db.ticket[t].status \in Working
  BY <1>1 DEF Working
<1> QED BY <1>1, <1>2, <1>8, <1>9 DEF ClosesTicket

\* The broadcast of an incident closes over what is pending; the new cycle says up to which input.
LEMMA IncidentStep ==
  ASSUME Good(db), NEW t \in Tickets(db), CloseForIncident(t)
  PROVE  ClosesTicket(t) /\ db'.closing = Outdated(db.closing, t)
<1>1. PICK asks \in BOOLEAN : db' = ClosedForIncident(db, t, asks)
  BY DEF CloseForIncident
<1> DEFINE n == Len(db.cycle)
<1> DEFINE c0 == n + 1
<1> DEFINE old == db.ticket[t]
<1> DEFINE status == IF asks THEN "awaiting_rating" ELSE "closed"
<1> DEFINE reason == IF asks THEN "" ELSE "incident"
<1> DEFINE last == IF asks /\ Pending(db) # {} THEN Len(db.inbox) ELSE 0
<1> DEFINE row == [old EXCEPT !.status = status, !.cycle = c0, !.waiting = FALSE, !.heard = FALSE]
<1> DEFINE cyc == [NewCycle(t) EXCEPT !.finished = reason, !.before = last]
<1> DEFINE r0 == [kind |-> "ticket_closed", number |-> 0, ticket |-> t, cycle |-> c0, state |-> "queued"]
<1> DEFINE told == IF asks THEN {r0} ELSE {}
<1> DEFINE g == Change([db EXCEPT !.cycle = Append(db.cycle, cyc)], t, row)
<1> DEFINE e == IF asks THEN Queue(g, "ticket_closed", 0, t, c0) ELSE g
<1>2. /\ Typed(db) /\ old \in Ticket /\ t \in AnyTicket /\ n \in Nat /\ n < MaxCycles
      /\ old.status \in Working
      /\ Len(db.inbox) \in 0 .. MaxInputs /\ DOMAIN db.inbox = 1 .. Len(db.inbox)
  <2>1. Typed(db) /\ old \in Ticket /\ t \in AnyTicket /\ n \in Nat
    BY Domains DEF Good, AnyTicket
  <2>2. Len(db.inbox) \in Nat /\ Len(db.inbox) <= MaxInputs /\ DOMAIN db.inbox = 1 .. Len(db.inbox)
    BY <2>1, Domains DEF Typed
  <2>3. n < MaxCycles /\ old.status \in Working
    BY DEF CloseForIncident, Working
  <2> QED BY <2>1, <2>2, <2>3, BoundsAssumption
<1>3. db' = e
  <2>1. [db EXCEPT !.cycle = Append(@, cyc)] = [db EXCEPT !.cycle = Append(db.cycle, cyc)]
    BY <1>2 DEF Typed
  <2> QED BY <1>1, <2>1 DEF ClosedForIncident
<1>4. last \in 0 .. MaxInputs /\ \A i \in Pending(db) : asks => i <= last
  <2>1. \A i \in Pending(db) : i <= Len(db.inbox)
    BY <1>2 DEF Pending
  <2>2. 0 \in 0 .. MaxInputs
    BY BoundsAssumption
  <2> QED BY <1>2, <2>1, <2>2
<1>5. reason \in Reasons /\ (asks => reason = "") /\ reason # "auto_closed"
  BY DEF Reasons
<1>6. status \in {"awaiting_rating", "closed"} /\ (status = "awaiting_rating" => asks)
  OBVIOUS
<1> HIDE DEF last, reason, status
<1>7. cyc \in AnyCycle /\ cyc.ticket = t /\ cyc.finished = reason /\ cyc.before = last
  <2>1. 0 \in 0 .. MaxAttempts
    BY BoundsAssumption
  <2> QED BY <1>2, <1>4, <1>5, <2>1 DEF NewCycle, AnyCycle
<1>8. c0 \in 0 .. MaxCycles
  BY <1>2, BoundsAssumption
<1> HIDE DEF c0, old
<1>9. row \in Ticket /\ row.status = status /\ row.cycle = c0 /\ ~row.heard
  BY <1>2, <1>6, <1>8 DEF Ticket
<1> HIDE DEF row, cyc
<1>10. ClosingRows(db, row, cyc)
  <2>1. row.status = "closed" \/ (row.status = "awaiting_rating" /\ cyc.finished = "")
    BY <1>5, <1>6, <1>7, <1>9
  <2>2. row.status = "awaiting_rating" => \A i \in Pending(db) : i <= cyc.before
    BY <1>4, <1>6, <1>7, <1>9
  <2>3. row.cycle = Len(db.cycle) + 1 /\ ~row.heard
    BY <1>9 DEF c0
  <2> QED BY <2>1, <2>2, <2>3 DEF ClosingRows
<1>11. told \subseteq Announcements(db, t)
  BY DEF Announcements, c0
<1>12. ClosedWith(db, t, row, cyc, told) = e
  <2>1. CASE asks
    BY <1>2, <2>1 DEF ClosedWith, Queue, Change, Typed
  <2>2. CASE ~asks
    <3>1. db.out \cup told = db.out
      BY <2>2
    <3> QED BY <1>2, <2>2, <3>1 DEF ClosedWith, Change, Typed
  <2> QED BY <2>1, <2>2
<1> HIDE DEF e, told
<1>13. /\ Good(e) /\ Len(e.cycle) = n + 1 /\ e.cycle[n + 1] = cyc
       /\ \A k \in DOMAIN db.cycle : e.cycle[k] = db.cycle[k]
       /\ \A u \in Tickets(db) : e.ticket[u] = IF u = t THEN row ELSE db.ticket[u]
       /\ e.closing = Outdated(db.closing, t)
  <2>1. db.ticket[t].status \in Working /\ Len(db.cycle) < MaxCycles
    BY <1>2 DEF old
  <2>2. LET h == ClosedWith(db, t, row, cyc, told)
        IN /\ Good(h) /\ Len(h.cycle) = Len(db.cycle) + 1 /\ h.cycle[Len(db.cycle) + 1] = cyc
           /\ \A k \in DOMAIN db.cycle : h.cycle[k] = db.cycle[k]
           /\ \A u \in Tickets(db) : h.ticket[u] = IF u = t THEN row ELSE db.ticket[u]
           /\ h.closing = Outdated(db.closing, t)
    BY <1>7, <1>9, <1>10, <1>11, <2>1, CloseKeeps
  <2> QED BY <1>12, <2>2
<1> HIDE DEF g
<1>14. db.ticket[t].status \in Working
  BY <1>2 DEF old
<1>15. e.cycle[n + 1].finished # "auto_closed"
  BY <1>5, <1>7, <1>13
<1> QED BY <1>3, <1>13, <1>14, <1>15 DEF ClosesTicket

LEMMA CloseStep ==
  ASSUME Good(db), NEW t \in Tickets(db), Close(t)
  PROVE  ClosesTicket(t) /\ db'.closing = Outdated(db.closing, t)
<1>1. /\ db.ticket[t].status = "in_progress" /\ Pending(db) = {} /\ Len(db.cycle) < MaxCycles
      /\ db' = ClosedBy(db, t)
  BY DEF Close, Command, NothingInFlight
<1> QED BY <1>1, ClosedByKeeps DEF ClosesTicket, Working

\* The deferred close is carried out.
CarriedOut(j) ==
    /\ j.read /\ j.fresh /\ Workable(db, j.ticket) /\ NothingInFlight(db, j.ticket)
    /\ Len(db.cycle) < MaxCycles
    /\ db' = [ClosedBy(db, j.ticket) EXCEPT !.closing = @ \ {[j EXCEPT !.fresh = FALSE]}]

LEMMA DeferredStep ==
  ASSUME Good(db), NEW j \in db.closing, CarriedOut(j)
  PROVE  /\ ClosesTicket(j.ticket) /\ db.ticket[j.ticket].lifecycle = j.lifecycle
         /\ db'.closing = Outdated(db.closing, j.ticket) \ {[j EXCEPT !.fresh = FALSE]}
<1> DEFINE t == j.ticket
<1> DEFINE g == ClosedBy(db, t)
<1> DEFINE jobs == g.closing \ {[j EXCEPT !.fresh = FALSE]}
<1> DEFINE e == [g EXCEPT !.closing = jobs]
<1>1. /\ t \in Tickets(db) /\ db.ticket[t].status = "in_progress" /\ db.ticket[t].lifecycle = j.lifecycle
      /\ Pending(db) = {} /\ Len(db.cycle) < MaxCycles
  BY DEF CarriedOut, Good, Ordered, NothingInFlight
<1>2. /\ Good(g) /\ Len(g.cycle) = Len(db.cycle) + 1
      /\ \A c \in DOMAIN db.cycle : g.cycle[c] = db.cycle[c]
      /\ \A u \in Tickets(db) \ {t} : g.ticket[u] = db.ticket[u]
      /\ g.closing = Outdated(db.closing, t)
  BY <1>1, ClosedByKeeps
<1>3. db' = [g EXCEPT !.closing = @ \ {[j EXCEPT !.fresh = FALSE]}]
  BY DEF CarriedOut
<1> HIDE DEF g
<1>4. db' = e
  BY <1>2, <1>3 DEF Good, Typed
<1>5. jobs \subseteq g.closing
  OBVIOUS
<1>6. e.closing = Outdated(db.closing, t) \ {[j EXCEPT !.fresh = FALSE]}
  BY <1>2 DEF Good, Typed
<1> HIDE DEF jobs
<1>7. Good(e) /\ e.ticket = g.ticket /\ e.cycle = g.cycle
  BY <1>2, <1>5, FewerJobs
<1> HIDE DEF e
<1> QED BY <1>1, <1>2, <1>4, <1>6, <1>7 DEF ClosesTicket, Working

-----------------------------------------------------------------------------
(* The invariant holds in every reachable state.                           *)

LEMMA InitGood ==
  ASSUME Init
  PROVE  Good(db)
<1>1. /\ db.client = [state |-> "absent", edition |-> 0, revision |-> 0, erased |-> FALSE]
      /\ db.inbox = <<>> /\ db.ticket = <<>> /\ db.cycle = <<>> /\ db.buffer = <<>>
      /\ db.message = [i \in 1 .. MaxInputs |-> [ticket |-> 0, text |-> 0]]
      /\ db.out = {} /\ db.closing = {} /\ db.replies = 0
  BY DEF Init
<1>2. /\ Len(<<>>) = 0 /\ DOMAIN <<>> = {}
      /\ <<>> \in Seq(Buffered) /\ <<>> \in Seq(Input) /\ <<>> \in Seq(Ticket) /\ <<>> \in Seq(AnyCycle)
  BY EmptySeq
<1>3. 0 \in 0 .. MaxInputs /\ 0 \in 0 .. MaxReplies /\ 0 \in 0 .. Policies /\ 1 \in Editions
      /\ 0 <= MaxBuffered /\ 0 <= MaxInputs /\ 0 <= MaxCycles /\ 0 \in 0 .. 0
  BY BoundsAssumption DEF Editions
<1>4. Typed(db)
  <2>1. [state |-> "absent", edition |-> 0, revision |-> 0, erased |-> FALSE] \in Client
    BY <1>3 DEF Client
  <2>2. [i \in 1 .. MaxInputs |-> [ticket |-> 0, text |-> 0]] \in [1 .. MaxInputs -> AnyMessage]
    BY <1>3 DEF AnyMessage
  <2>3. [b \in Buttons |-> 0] \in [Buttons -> Nat]
    OBVIOUS
  <2>4. db \in [policy : Editions, client : Client, buttons : [Buttons -> Nat], buffer : Seq(Buffered),
                inbox : Seq(Input), ticket : Seq(Ticket), cycle : Seq(AnyCycle),
                message : [1 .. MaxInputs -> AnyMessage], out : SUBSET AnyDelivery,
                replies : 0 .. MaxReplies, closing : SUBSET AnyClosing, revising : SUBSET Revision]
    BY <1>2, <1>3, <2>1, <2>2, <2>3 DEF Init
  <2> QED BY <1>1, <1>2, <1>3, <2>4 DEF Typed
<1>5. Tickets(db) = {} /\ Unclosed(db) = {} /\ Pending(db) = {} /\ DOMAIN db.cycle = {}
  BY <1>1, <1>2 DEF Tickets, Unclosed, Pending
<1>6. OneOpen(db) /\ WithConsent(db) /\ Cycled(db) /\ Counted(db)
  BY <1>5 DEF OneOpen, WithConsent, Cycled, Counted
<1>7. Messaged(db)
  BY <1>1, <1>2, <1>3 DEF Messaged
<1>8. Emptied(db) /\ Ordered(db)
  BY <1>1 DEF Emptied, Ordered
<1>9. Handleable(db) /\ Asking(db) /\ Heard(db)
  BY <1>5 DEF Handleable, Asking, Heard
<1>10. Answering(db) /\ Addressed(db)
  BY <1>1 DEF Answering, Addressed
<1> QED BY <1>4, <1>6, <1>7, <1>8, <1>9, <1>10 DEF Good

\* What a step may be.
LEMMA StepIs ==
  ASSUME Good(db), Next
  PROVE  \/ Good(db') /\ Unanswered(db, db')
         \/ Process
         \/ \E t \in Tickets(db) : Close(t) \/ AutoClose(t) \/ CloseForIncident(t)
         \/ \E j \in db.closing : CarriedOut(j)
<1>1. CASE Usually(Record) \/ Usually(IngestConsented)
  BY <1>1, RecordStep DEF Usually
<1>2. CASE Usually(Process)
  BY <1>2 DEF Usually
<1>3. CASE Usually(ReviseDeferred) \/ Rarely(ExpireBuffers) \/ Rarely(PublishPolicy)
  BY <1>3, RareStep DEF Usually, Rarely
<1>4. CASE Usually(StaffCommand) \/ Rarely(StaffSpecial)
  BY <1>4, StaffStep DEF Usually, Rarely, StaffCommand, StaffSpecial
<1>5. CASE Usually(ClosingJob)
  <2>1. PICK j \in db.closing : ReadForClose(j) \/ GiveUp(j) \/ CloseDeferred(j)
    BY <1>5 DEF Usually, ClosingJob
  <2>2. CloseDeferred(j) => CarriedOut(j) \/ Postponed(j)
    BY DEF CloseDeferred, CarriedOut, Postponed
  <2> QED BY <2>1, <2>2, ReadStep
<1>6. CASE Usually(WaitingTimer)
  BY <1>6, TimerStep DEF Usually, WaitingTimer
<1>7. CASE Usually(CycleExpires)
  BY <1>7, ExpiryStep DEF Usually
<1>8. CASE Usually(RatingTimer)
  BY <1>8, TimerStep DEF Usually, RatingTimer
<1>9. CASE Usually(Sender)
  BY <1>9, SenderStep DEF Usually
<1>10. CASE Rarely(EraseClient) \/ Rarely(Retention)
  BY <1>10, RemovalStep DEF Rarely, Retention
<1>11. CASE Rarely(Broadcast)
  BY <1>11 DEF Rarely, Broadcast
<1> QED BY <1>1, <1>2, <1>3, <1>4, <1>5, <1>6, <1>7, <1>8, <1>9, <1>10, <1>11 DEF Next

\* A step that adds a cycle closes a ticket, in one of four ways.
Closes ==
    \/ \E t \in Tickets(db) : ClosesTicket(t) /\ db'.closing = Outdated(db.closing, t)
    \/ \E j \in db.closing :
          /\ db'.closing = Outdated(db.closing, j.ticket) \ {[j EXCEPT !.fresh = FALSE]}
          /\ ClosesTicket(j.ticket) /\ db.ticket[j.ticket].lifecycle = j.lifecycle

LEMMA StepDoes ==
  ASSUME Good(db), [Next]_vars
  PROVE  \/ Good(db') /\ Unanswered(db, db')
         \/ /\ Good(db') /\ Len(db'.cycle) = Len(db.cycle) /\ Pending(db) # {}
            /\ db.inbox[Oldest(db)].kind # "press" => AnswersAsked(db, db')
         \/ Closes
<1>1. CASE UNCHANGED vars
  <2>1. db' = db /\ Typed(db)
    BY <1>1 DEF vars, Good
  <2> QED BY <2>1, NothingAnswered
<1>2. CASE Next
  <2>1. CASE Process
    BY <2>1, ProcessStep DEF Process
  <2>2. CASE \E t \in Tickets(db) : Close(t) \/ AutoClose(t) \/ CloseForIncident(t)
    BY <2>2, CloseStep, AutoCloseStep, IncidentStep DEF Closes
  <2>3. CASE \E j \in db.closing : CarriedOut(j)
    BY <2>3, DeferredStep DEF Closes
  <2> QED BY <1>2, <2>1, <2>2, <2>3, StepIs
<1> QED BY <1>1, <1>2

ConversationInv == Good(db)

LEMMA InvKept ==
  /\ Init => ConversationInv
  /\ ConversationInv /\ [Next]_vars => ConversationInv'
<1>1. Init => ConversationInv
  BY InitGood DEF ConversationInv
<1>2. ASSUME ConversationInv, [Next]_vars
      PROVE  ConversationInv'
  <2>1. Good(db)
    BY <1>2 DEF ConversationInv
  <2>2. Good(db')
    BY <1>2, <2>1, StepDoes DEF Closes, ClosesTicket
  <2> QED BY <2>2 DEF ConversationInv, Good, Typed, OneOpen, WithConsent, Cycled, Counted, Messaged, Emptied,
                      Ordered, Handleable, Asking, Heard, Answering, Addressed
<1> QED BY <1>1, <1>2

LEMMA Invariant == Spec => []ConversationInv
BY InvKept, PTL DEF Spec

-----------------------------------------------------------------------------
(* The invariants of the runs.                                             *)

\* Consent, new tickets, reopening and the kept messages never leave a client with two tickets that
\* are not closed: the index one_client_slot is never what stops a step.
THEOREM OneTicketSafe == Spec => []OneOpenTicket
<1>1. ASSUME ConversationInv
      PROVE  OneOpenTicket
  <2>1. Typed(db) /\ OneOpen(db)
    BY <1>1 DEF ConversationInv, Good
  <2>2. Unclosed(db) = {} \/ Unclosed(db) = {Current(db)}
    BY <2>1, CurrentIs
  <2>3. Cardinality({}) = 0 /\ Cardinality({Current(db)}) = 1
    BY FS_EmptySet, FS_Singleton
  <2> QED BY <2>2, <2>3 DEF OneOpenTicket
<1> QED BY Invariant, <1>1, PTL

\* Declining, withdrawing and erasing close what is open, and only a granted consent opens or reopens
\* a ticket.
THEOREM ConsentSafe == Spec => []OpenMeansConsent
<1>1. ConversationInv => OpenMeansConsent
  BY DEF ConversationInv, Good, WithConsent, OpenMeansConsent
<1> QED BY Invariant, <1>1, PTL

\* Reopening, withdrawing and purging invalidate every closing but the one the ticket is closed with.
THEOREM CountedSafe == Spec => []CountsOnlyCurrent
<1>1. ConversationInv => CountsOnlyCurrent
  BY DEF ConversationInv, Good, Counted, CountsOnlyCurrent
<1> QED BY Invariant, <1>1, PTL

\* Inputs handled after erasure, deferred edits and jobs bring nothing of an erased client back.
THEOREM ErasedSafe == Spec => []ErasedIsEmpty
<1>1. ConversationInv => ErasedIsEmpty
  BY DEF ConversationInv, Good, Emptied, ErasedIsEmpty
<1> QED BY Invariant, <1>1, PTL

\* The timer of ratings leaves a rating to the answer that came in time, and the answers that came
\* late are handled after it.
THEOREM RatingSafe == Spec => []RatingInTime
<1>1. ConversationInv => RatingInTime
  BY DEF ConversationInv, Good, Asking, RatingInTime
<1> QED BY Invariant, <1>1, PTL

\* Every row keeps its type, for any number of tickets and buttons.
THEOREM RowsTyped == Spec => []Typed(db)
<1>1. ConversationInv => Typed(db)
  BY DEF ConversationInv, Good
<1> QED BY Invariant, <1>1, PTL

-----------------------------------------------------------------------------
(* The action properties of the runs.                                      *)

\* Attempts and results of ratings that are asked for.
LEMMA AttemptsAre ==
  ASSUME NEW d, Typed(d), NEW c \in DOMAIN d.cycle
  PROVE  d.cycle[c].attempts \in Nat
BY Domains DEF AnyCycle

Results == {"rated", "attempts_exhausted"}

LEMMA AnswersStep ==
  ASSUME Good(db), [Next]_vars, NEW c \in DOMAIN db.cycle, db.inbox[Oldest(db)].kind # "press",
         \/ db'.cycle[c].attempts > db.cycle[c].attempts
         \/ db'.cycle[c].finished \in Results /\ db'.cycle[c].finished # db.cycle[c].finished
  PROVE  db.inbox[Oldest(db)].asked = c \/ Oldest(db) <= db.cycle[c].before
<1>1. Typed(db) /\ OneOpen(db) /\ Cycled(db) /\ Asking(db)
  BY DEF Good
<1>2. Good(db') => Typed(db')
  BY DEF Good
<1>3. db.cycle[c].attempts \in Nat
  BY <1>1, AttemptsAre
<1>4. ASSUME Good(db'), Len(db'.cycle) = Len(db.cycle)
      PROVE  db'.cycle[c].attempts \in Nat
  <2>1. DOMAIN db'.cycle = DOMAIN db.cycle
    BY <1>1, <1>2, <1>4, Domains
  <2> QED BY <1>2, <1>4, <2>1, AttemptsAre
<1>5. CASE Good(db') /\ Unanswered(db, db')
  BY <1>3, <1>4, <1>5 DEF Unanswered, Results
<1>6. CASE Good(db') /\ Len(db'.cycle) = Len(db.cycle) /\ Pending(db) # {} /\ AnswersAsked(db, db')
  <2>1. c = Asked(db)
    BY <1>3, <1>4, <1>6 DEF AnswersAsked, Results
  <2>2. c # 0
    BY <1>1, Domains
  <2>3. /\ Current(db) \in Tickets(db) /\ db.ticket[Current(db)].status = "awaiting_rating"
        /\ c = Len(db.cycle)
    BY <1>1, <2>1, <2>2, AskedIs DEF Unclosed
  <2> QED BY <1>1, <1>6, <2>3, OldestIs DEF Asking
<1>7. CASE Closes
  <2>1. db'.cycle[c] = db.cycle[c]
    BY <1>7 DEF Closes, ClosesTicket
  <2> QED BY <1>3, <2>1
<1> QED BY <1>5, <1>6, <1>7, StepDoes

\* An input that counts as an answer or an attempt was received while that rating was asked for, or
\* was pending when the broadcast of an incident asked for it without waiting: every other close waits
\* for the inbox, and the oldest input is always handled first.
THEOREM AnswersSafe == Spec => AnswersItsQuestion
<1>1. ConversationInv /\ [Next]_vars =>
        [\A c \in DOMAIN db.cycle : Answered(c) /\ db.inbox[Oldest(db)].kind # "press" =>
            db.inbox[Oldest(db)].asked = c \/ Oldest(db) <= db.cycle[c].before]_vars
  <2>1. ASSUME NEW c, Answered(c)
        PROVE  /\ c \in DOMAIN db.cycle
               /\ \/ db'.cycle[c].attempts > db.cycle[c].attempts
                  \/ db'.cycle[c].finished \in Results /\ db'.cycle[c].finished # db.cycle[c].finished
    <3>1. "" \notin Results
      BY DEF Results
    <3> QED BY <2>1, <3>1, Zenon DEF Answered, Results
  <2> QED BY <2>1, AnswersStep DEF ConversationInv
<1> QED BY Invariant, <1>1, PTL DEF Spec, AnswersItsQuestion

LEMMA SilenceStep ==
  ASSUME Good(db), [Next]_vars, NEW t \in Tickets(db), Len(db'.cycle) > Len(db.cycle),
         db'.cycle[Len(db'.cycle)].finished = "auto_closed",
         db'.ticket[t].status # db.ticket[t].status
  PROVE  ~db.ticket[t].heard
<1>1. Typed(db) /\ Heard(db)
  BY DEF Good
<1>2. Len(db.cycle) \in Nat
  BY <1>1, Domains
<1>3. Len(db'.cycle) # Len(db.cycle)
  BY <1>2
<1>4. Closes
  BY <1>3, StepDoes DEF Unanswered
<1>5. PICK u : ClosesTicket(u)
  BY <1>4 DEF Closes
<1>6. u = t /\ db.ticket[t].status \in Working
  BY <1>5 DEF ClosesTicket
<1>7. Pending(db) = {}
  BY <1>5 DEF ClosesTicket
<1> QED BY <1>1, <1>6, <1>7 DEF Heard

\* The timer that closes silent tickets waits for the inbox, and a ticket whose client has written
\* since it began to wait has an input there until it goes on.
THEOREM SilenceSafe == Spec => ClosedInSilence
<1>1. ConversationInv /\ [Next]_vars =>
        [\A t \in Tickets(db) :
           Len(db'.cycle) > Len(db.cycle) /\ db'.cycle[Len(db'.cycle)].finished = "auto_closed"
              /\ db'.ticket[t].status # db.ticket[t].status => ~db.ticket[t].heard]_vars
  BY SilenceStep DEF ConversationInv
<1> QED BY Invariant, <1>1, PTL DEF Spec, ClosedInSilence

LEMMA OrderedStep ==
  ASSUME Good(db), [Next]_vars, NEW j \in db.closing, Len(db'.cycle) > Len(db.cycle), j.read,
         j \notin db'.closing, [j EXCEPT !.fresh = FALSE] \notin db'.closing
  PROVE  /\ db.ticket[j.ticket].lifecycle = j.lifecycle
         /\ Replied(db, j).state = "delivered"
<1>1. Typed(db) /\ Len(db.cycle) \in Nat
  BY Domains DEF Good
<1>2. Len(db'.cycle) # Len(db.cycle)
  BY <1>1
<1>3. Closes
  BY <1>2, StepDoes DEF Unanswered
<1>4. \A t : /\ j.ticket = t  => [j EXCEPT !.fresh = FALSE] \in Outdated(db.closing, t)
             /\ j.ticket # t => j \in Outdated(db.closing, t)
  BY DEF Outdated
<1>5. PICK k \in db.closing :
        /\ db'.closing = Outdated(db.closing, k.ticket) \ {[k EXCEPT !.fresh = FALSE]}
        /\ db.ticket[k.ticket].lifecycle = k.lifecycle
  BY <1>3, <1>4 DEF Closes
<1>6. j \in AnyClosing /\ k \in AnyClosing
  BY <1>1 DEF Typed
<1>7. j.ticket = k.ticket
  <2>1. SUFFICES ASSUME j.ticket # k.ticket
                 PROVE  FALSE
    OBVIOUS
  <2>2. j = [k EXCEPT !.fresh = FALSE]
    BY <1>4, <1>5, <2>1
  <2> QED BY <1>6, <2>1, <2>2 DEF AnyClosing
<1>8. [j EXCEPT !.fresh = FALSE] = [k EXCEPT !.fresh = FALSE]
  BY <1>4, <1>5, <1>7
<1>9. j.lifecycle = k.lifecycle
  <2>1. /\ [j EXCEPT !.fresh = FALSE].lifecycle = j.lifecycle
        /\ [k EXCEPT !.fresh = FALSE].lifecycle = k.lifecycle
    BY <1>6 DEF AnyClosing
  <2> QED BY <1>8, <2>1
<1> QED BY <1>5, <1>7, <1>9, RepliedIs

\* The job of a deferred close commits only with the version it has read: every change of the ticket
\* makes that one outdated, and the job has read after its reply was delivered.
THEOREM OrderedSafe == Spec => ClosedAsOrdered
<1>1. ConversationInv /\ [Next]_vars =>
        [\A j \in db.closing :
           Len(db'.cycle) > Len(db.cycle) /\ j.read /\ j \notin db'.closing
              /\ [j EXCEPT !.fresh = FALSE] \notin db'.closing =>
           /\ db.ticket[j.ticket].lifecycle = j.lifecycle
           /\ Replied(db, j).state = "delivered"]_vars
  BY OrderedStep DEF ConversationInv
<1> QED BY Invariant, <1>1, PTL DEF Spec, ClosedAsOrdered

-----------------------------------------------------------------------------
(* Counting.  A ticket, a kept message and a new button all come from an   *)
(* input that has been handled, so there are no more of them than of these. *)

\* What is before the first input still to be handled, and after the last one, bounds them.
Brought(d) ==
    \A i \in Pending(d) \cup {Len(d.inbox) + 1} :
        /\ Len(d.ticket) + Len(d.buffer) < i
        /\ \A b \in Buttons : d.buttons[b] < i

\* No input, kept message, button or ticket comes or goes.
Leaves(d, e) ==
    /\ DOMAIN e = DOMAIN d
    /\ e.inbox = d.inbox /\ e.buffer = d.buffer /\ e.buttons = d.buttons
    /\ DOMAIN e.ticket = DOMAIN d.ticket

\* At most k tickets or kept messages come, and at most k buttons of a kind.
Brings(d, e, k) ==
    /\ e.inbox = d.inbox
    /\ Len(e.ticket) + Len(e.buffer) <= Len(d.ticket) + Len(d.buffer) + k
    /\ \A b \in Buttons : e.buttons[b] <= d.buttons[b] + k

Columns == {"buttons", "buffer", "inbox", "ticket", "cycle", "message", "out", "replies", "closing",
            "revising", "client", "policy"}

LEMMA HasColumns ==
  ASSUME NEW d, Typed(d)
  PROVE  Columns \subseteq DOMAIN d
BY DEF Typed, Columns

LEMMA LeavesAll ==
  ASSUME NEW d, NEW e, NEW f, Leaves(d, e), Leaves(e, f)
  PROVE  Leaves(d, f)
BY DEF Leaves

LEMMA CountsAre ==
  ASSUME NEW d, Typed(d)
  PROVE  /\ Len(d.ticket) \in Nat /\ Len(d.buffer) \in Nat /\ Len(d.inbox) \in Nat
         /\ \A b \in Buttons : d.buttons[b] \in Nat
<1>1. d.buttons \in [Buttons -> Nat]
  BY DEF Typed
<1> QED BY <1>1, Domains

LEMMA SameLength ==
  ASSUME NEW d, NEW e, Typed(d), Typed(e), DOMAIN e.ticket = DOMAIN d.ticket
  PROVE  Len(e.ticket) = Len(d.ticket)
<1>1. DOMAIN e.ticket = 1 .. Len(e.ticket) /\ DOMAIN d.ticket = 1 .. Len(d.ticket)
  BY Domains DEF Tickets
<1>2. Len(e.ticket) \in Nat /\ Len(d.ticket) \in Nat
  BY CountsAre
<1>3. ASSUME NEW n \in Nat, NEW m \in Nat, 1 .. n = 1 .. m
      PROVE  n = m
  <2>1. (n # 0 => n \in 1 .. m) /\ (m # 0 => m \in 1 .. n)
    BY <1>3
  <2> QED BY <2>1
<1>4. 1 .. Len(e.ticket) = 1 .. Len(d.ticket)
  BY <1>1
<1> QED BY <1>2, <1>3, <1>4

LEMMA LeavesBrings ==
  ASSUME NEW d, NEW e, Typed(d), Typed(e), Leaves(d, e)
  PROVE  Brings(d, e, 0)
<1>1. Len(e.ticket) = Len(d.ticket)
  BY SameLength DEF Leaves
<1>2. e.inbox = d.inbox /\ e.buffer = d.buffer /\ e.buttons = d.buttons
  BY DEF Leaves
<1>3. Len(d.ticket) + Len(d.buffer) <= Len(d.ticket) + Len(d.buffer) + 0
  BY CountsAre
<1>4. \A b \in Buttons : d.buttons[b] <= d.buttons[b] + 0
  BY CountsAre
<1> QED BY <1>1, <1>2, <1>3, <1>4 DEF Brings

\* Changes of a ticket, of deliveries and of cycles.
LEMMA TouchLeaves ==
  ASSUME NEW d, Columns \subseteq DOMAIN d, NEW t, NEW row
  PROVE  Leaves(d, Touch(d, t)) /\ Leaves(d, Change(d, t, row))
BY DEF Columns, Leaves, Touch, Change

LEMMA DeliveriesLeave ==
  ASSUME NEW d, Columns \subseteq DOMAIN d, NEW S, NEW state, NEW kind, NEW number, NEW t, NEW c
  PROVE  /\ Leaves(d, Queue(d, kind, number, t, c)) /\ Leaves(d, Settle(d, S, state))
         /\ Leaves(d, CancelClientDeliveries(d)) /\ Leaves(d, CancelCycleDeliveries(d, c))
BY DEF Columns, Leaves, Queue, Settle, CancelClientDeliveries, CancelCycleDeliveries

LEMMA InvalidateLeaves ==
  ASSUME NEW d, Columns \subseteq DOMAIN d, NEW T
  PROVE  Leaves(d, Invalidate(d, T))
BY DEF Columns, Leaves, Invalidate

LEMMA FinishLeaves ==
  ASSUME NEW d, Columns \subseteq DOMAIN d, NEW t, NEW reason
  PROVE  Leaves(d, FinishRating(d, t, reason))
<1> DEFINE c == d.ticket[t].cycle
<1> DEFINE g == Change(d, t, [d.ticket[t] EXCEPT !.status = "closed"])
<1> DEFINE h == [g EXCEPT !.cycle[c] = Over(@, reason)]
<1>1. Leaves(d, g)
  BY TouchLeaves
<1> HIDE DEF g
<1>2. Leaves(g, h)
  BY <1>1 DEF Leaves, Columns
<1>3. Columns \subseteq DOMAIN h
  BY <1>1, <1>2 DEF Leaves
<1> HIDE DEF h
<1>4. Leaves(h, CancelCycleDeliveries(h, c))
  BY <1>3, DeliveriesLeave
<1>5. FinishRating(d, t, reason) = CancelCycleDeliveries(h, c)
  BY DEF FinishRating, g, h
<1> QED BY <1>1, <1>2, <1>4, <1>5, LeavesAll

LEMMA RatingLeaves ==
  ASSUME NEW d, Columns \subseteq DOMAIN d, NEW t, NEW kind, NEW late \in BOOLEAN
  PROVE  Leaves(d, AcceptRating(d, t, kind, late))
<1>1. Leaves(d, InvalidAnswer(d, t))
  <2> DEFINE c == d.ticket[t].cycle
  <2> DEFINE told == [d EXCEPT !.cycle[c].attempts = @ + 1]
  <2>1. Leaves(d, told) /\ Columns \subseteq DOMAIN told
    BY DEF Leaves, Columns
  <2> HIDE DEF told
  <2>2. Leaves(told, FinishRating(told, t, "attempts_exhausted")) /\ Leaves(told, Touch(told, t))
    BY <2>1, FinishLeaves, TouchLeaves
  <2>3. InvalidAnswer(d, t) \in {FinishRating(told, t, "attempts_exhausted"), Touch(told, t)}
    BY DEF InvalidAnswer, told
  <2> QED BY <2>1, <2>2, <2>3, LeavesAll
<1>2. Leaves(d, FinishRating(d, t, "expired")) /\ Leaves(d, FinishRating(d, t, "rated"))
  BY FinishLeaves
<1>3. AcceptRating(d, t, kind, late) \in
        {InvalidAnswer(d, t), FinishRating(d, t, "expired"), FinishRating(d, t, "rated")}
  BY DEF AcceptRating
<1> QED BY <1>1, <1>2, <1>3

LEMMA MessageLeaves ==
  ASSUME NEW d, Columns \subseteq DOMAIN d, NEW i, NEW t
  PROVE  Leaves(d, AddClientMessage(d, i, t)) /\ Leaves(d, ContinueTicket(d, i, t))
<1>1. ASSUME NEW g, Columns \subseteq DOMAIN g
      PROVE  Leaves(g, AddClientMessage(g, i, t))
  <2> DEFINE h == [g EXCEPT !.message[i] = [ticket |-> t, text |-> i]]
  <2>1. Leaves(g, h) /\ Columns \subseteq DOMAIN h
    BY <1>1 DEF Leaves, Columns
  <2>2. AddClientMessage(g, i, t) = Touch(h, t)
    BY DEF AddClientMessage
  <2> HIDE DEF h
  <2>3. Leaves(h, Touch(h, t))
    BY <2>1, TouchLeaves
  <2> QED BY <2>1, <2>2, <2>3, LeavesAll
<1> DEFINE g == IF d.ticket[t].waiting THEN Resume(d, t) ELSE d
<1>2. Leaves(d, g)
  <2>1. Leaves(d, Resume(d, t))
    BY TouchLeaves DEF Resume
  <2>2. Leaves(d, d)
    BY DEF Leaves
  <2> QED BY <2>1, <2>2
<1>3. ContinueTicket(d, i, t) = AddClientMessage(g, i, t)
  BY DEF ContinueTicket
<1> HIDE DEF g
<1>4. Columns \subseteq DOMAIN g
  BY <1>2 DEF Leaves
<1> QED BY <1>1, <1>2, <1>3, <1>4, LeavesAll

LEMMA ReviseLeaves ==
  ASSUME NEW d, Columns \subseteq DOMAIN d, NEW i, NEW target
  PROVE  Leaves(d, ReviseClientMessage(d, i, target))
<1> DEFINE t == d.message[target].ticket
<1> DEFINE g == [d EXCEPT !.message[target].text = i]
<1> DEFINE h == Touch(g, t)
<1>1. Leaves(d, g) /\ Columns \subseteq DOMAIN g
  BY DEF Leaves, Columns
<1>2. Revise(d, i, target) = Invalidate(h, {t})
  BY DEF Revise
<1> HIDE DEF g
<1>3. Leaves(g, h)
  BY <1>1, TouchLeaves
<1>4. Columns \subseteq DOMAIN h
  BY <1>1, <1>3 DEF Leaves
<1> HIDE DEF h
<1>5. Leaves(h, Invalidate(h, {t}))
  BY <1>4, InvalidateLeaves
<1>6. Leaves(d, Revise(d, i, target))
  BY <1>1, <1>2, <1>3, <1>5, LeavesAll
<1> DEFINE later == [d EXCEPT !.revising = @ \cup {[input |-> i, target |-> target]}]
<1>7. Leaves(d, d) /\ Leaves(d, later)
  BY DEF Leaves, Columns
<1>8. ReviseClientMessage(d, i, target) \in {d, later, Revise(d, i, target)}
  BY DEF ReviseClientMessage
<1> HIDE DEF later
<1> QED BY <1>6, <1>7, <1>8

\* Buttons, and the messages kept until consent.
LEMMA OfferBrings ==
  ASSUME NEW d, Good(d), NEW actions
  PROVE  LET e == Offer(d, actions)
         IN Brings(d, e, 1) /\ e.ticket = d.ticket /\ e.buffer = d.buffer
<1> DEFINE e == Offer(d, actions)
<1>1. Typed(d) /\ Columns \subseteq DOMAIN d
  BY HasColumns DEF Good
<1>2. /\ e.inbox = d.inbox /\ e.ticket = d.ticket /\ e.buffer = d.buffer
      /\ e.buttons = [b \in Buttons |-> IF b \in actions \X {d.policy} THEN d.buttons[b] + 1 ELSE d.buttons[b]]
  BY <1>1 DEF Offer, Columns
<1>3. \A b \in Buttons : e.buttons[b] <= d.buttons[b] + 1
  BY <1>1, <1>2, CountsAre
<1>4. Len(d.ticket) + Len(d.buffer) <= Len(d.ticket) + Len(d.buffer) + 1
  <2>1. Len(d.ticket) \in Nat /\ Len(d.buffer) \in Nat
    BY <1>1, CountsAre
  <2>2. ASSUME NEW x \in Nat, NEW y \in Nat
        PROVE  x + y <= x + y + 1
    OBVIOUS
  <2> QED BY <2>1, <2>2
<1> HIDE DEF e
<1>5. Brings(d, e, 1)
  BY <1>2, <1>3, <1>4 DEF Brings
<1> QED BY <1>2, <1>5 DEF e

LEMMA AskBrings ==
  ASSUME NEW d, Good(d), ~d.client.erased, NEW i \in 1 .. MaxInputs, NEW kind
  PROVE  Brings(d, AskConsent(d, i, kind), 1)
<1> DEFINE g == IF kind \in Messages THEN Buffer(d, i, kind) ELSE d
<1>1. Typed(d) /\ Columns \subseteq DOMAIN d
  BY HasColumns DEF Good
<1>2. AskConsent(d, i, kind) = Offer(g, {"accept", "decline"})
  BY DEF AskConsent, SendConsentPrompt
<1>3. Good(g)
  BY BufferKeeps
<1> DEFINE longer == [d EXCEPT !.buffer = Append(@, [input |-> i, kind |-> kind])]
<1>9. g = d \/ (g = longer /\ kind \in Messages)
  BY DEF Buffer
<1> HIDE DEF g
<1>4. /\ g.inbox = d.inbox /\ g.ticket = d.ticket /\ g.buttons = d.buttons
      /\ Len(g.buffer) <= Len(d.buffer) + 1
  <2>1. CASE g = d
    <3>1. Len(d.buffer) <= Len(d.buffer) + 1
      BY <1>1, CountsAre
    <3> QED BY <2>1, <3>1
  <2>2. CASE g = longer /\ kind \in Messages
    <3>1. /\ g.inbox = d.inbox /\ g.ticket = d.ticket /\ g.buttons = d.buttons
          /\ g.buffer = Append(d.buffer, [input |-> i, kind |-> kind])
      BY <1>1, <2>2 DEF Columns
    <3>2. d.buffer \in Seq(Buffered) /\ [input |-> i, kind |-> kind] \in Buffered
      BY <1>1, <2>2 DEF Typed, Buffered
    <3>3. Len(g.buffer) = Len(d.buffer) + 1 /\ Len(d.buffer) \in Nat
      BY <1>1, <3>1, <3>2, AppendProperties, CountsAre
    <3> QED BY <3>1, <3>3
  <2> QED BY <1>9, <2>1, <2>2
<1> DEFINE e == Offer(g, {"accept", "decline"})
<1>5. Brings(g, e, 1) /\ e.ticket = g.ticket /\ e.buffer = g.buffer
  BY <1>3, OfferBrings
<1> HIDE DEF e
<1>6. e.inbox = d.inbox /\ \A b \in Buttons : e.buttons[b] <= d.buttons[b] + 1
  BY <1>4, <1>5 DEF Brings
<1>7. Len(e.ticket) + Len(e.buffer) <= Len(d.ticket) + Len(d.buffer) + 1
  <2>1. Len(e.ticket) = Len(d.ticket) /\ Len(e.buffer) = Len(g.buffer) /\ Len(g.buffer) <= Len(d.buffer) + 1
    BY <1>4, <1>5
  <2>2. Len(d.ticket) \in Nat /\ Len(d.buffer) \in Nat /\ Len(g.buffer) \in Nat
    BY <1>1, <1>3, CountsAre DEF Good
  <2>3. \A x, y, z \in Nat : z <= y + 1 => x + z <= x + y + 1
    OBVIOUS
  <2> QED BY <2>1, <2>2, <2>3
<1>8. Brings(d, e, 1)
  BY <1>6, <1>7 DEF Brings
<1> QED BY <1>2, <1>8 DEF e

\* A declined or withdrawn consent leaves no kept message.
LEMMA EmptiedBrings ==
  ASSUME NEW d, Typed(d), NEW e, e.inbox = d.inbox, Len(e.ticket) = Len(d.ticket), e.buffer = <<>>,
         \A b \in Buttons : e.buttons[b] \in {0, d.buttons[b]}
  PROVE  Brings(d, e, 0)
<1>1. Len(d.ticket) \in Nat /\ Len(d.buffer) \in Nat /\ \A b \in Buttons : d.buttons[b] \in Nat
  BY CountsAre
<1>2. Len(e.buffer) = 0
  BY EmptySeq
<1>3. Len(e.ticket) + Len(e.buffer) <= Len(d.ticket) + Len(d.buffer) + 0
  BY <1>1, <1>2
<1>4. \A b \in Buttons : e.buttons[b] <= d.buttons[b] + 0
  BY <1>1
<1> QED BY <1>3, <1>4 DEF Brings

LEMMA DeclineBrings ==
  ASSUME NEW d, Good(d)
  PROVE  Brings(d, DeclineConsent(d), 0)
<1> DEFINE e == [d EXCEPT !.client.state = "declined", !.buffer = <<>>]
<1>1. Typed(d) /\ Columns \subseteq DOMAIN d
  BY HasColumns DEF Good
<1>2. Leaves(d, d)
  BY DEF Leaves
<1>3. Brings(d, d, 0)
  BY <1>1, <1>2, LeavesBrings
<1>4. e.inbox = d.inbox /\ e.ticket = d.ticket /\ e.buffer = <<>> /\ e.buttons = d.buttons
  BY <1>1 DEF Columns
<1>5. DeclineConsent(d) \in {d, e}
  BY DEF DeclineConsent
<1> HIDE DEF e
<1>6. Brings(d, e, 0)
  BY <1>1, <1>4, EmptiedBrings
<1> QED BY <1>3, <1>5, <1>6

LEMMA ForgetCounts ==
  ASSUME NEW d, Typed(d)
  PROVE  LET e == ForgetPending(d)
         IN /\ e.inbox = d.inbox /\ e.ticket = d.ticket /\ e.buffer = <<>>
            /\ e.buttons = [b \in Buttons |-> 0] /\ Columns \subseteq DOMAIN e
<1> DEFINE g == [d EXCEPT !.buffer = <<>>, !.buttons = [b \in Buttons |-> 0]]
<1> DEFINE e == CancelClientDeliveries(g)
<1>1. Columns \subseteq DOMAIN d
  BY HasColumns
<1>2. /\ g.inbox = d.inbox /\ g.ticket = d.ticket /\ g.buffer = <<>>
      /\ g.buttons = [b \in Buttons |-> 0] /\ Columns \subseteq DOMAIN g
  BY <1>1 DEF Columns
<1> HIDE DEF g
<1>3. e.ticket = g.ticket /\ Leaves(g, e)
  <2>1. e.ticket = g.ticket
    BY <1>2 DEF Columns, CancelClientDeliveries, Settle
  <2> QED BY <1>2, <2>1, DeliveriesLeave
<1>4. ForgetPending(d) = e
  BY DEF ForgetPending, g
<1> QED BY <1>2, <1>3, <1>4 DEF Leaves

LEMMA WithdrawBrings ==
  ASSUME NEW d, Good(d)
  PROVE  Brings(d, WithdrawConsent(d), 0)
<1> DEFINE g == ForgetPending(d)
<1> DEFINE h == [g EXCEPT !.client = IF @.state = "withdrawn" THEN @ ELSE Withdrawn(@),
                          !.ticket = [t \in DOMAIN @ |-> Ended(@[t])],
                          !.closing = {[j EXCEPT !.fresh = FALSE] : j \in @}]
<1> DEFINE e == Invalidate(h, Tickets(d))
<1>1. Typed(d)
  BY DEF Good
<1>2. /\ g.inbox = d.inbox /\ g.ticket = d.ticket /\ g.buffer = <<>>
      /\ g.buttons = [b \in Buttons |-> 0] /\ Columns \subseteq DOMAIN g
  BY <1>1, ForgetCounts
<1>3. WithdrawConsent(d) = e
  BY DEF WithdrawConsent
<1>4. Good(WithdrawConsent(d))
  BY WithdrawKeeps
<1> HIDE DEF g
<1>5. /\ h.inbox = d.inbox /\ DOMAIN h.ticket = DOMAIN d.ticket /\ h.buffer = <<>>
      /\ h.buttons = [b \in Buttons |-> 0] /\ Columns \subseteq DOMAIN h
  BY <1>2 DEF Columns
<1> HIDE DEF h
<1>6. Leaves(h, e)
  BY <1>5, InvalidateLeaves
<1> HIDE DEF e
<1>7. /\ e.inbox = d.inbox /\ DOMAIN e.ticket = DOMAIN d.ticket /\ e.buffer = <<>>
      /\ e.buttons = [b \in Buttons |-> 0]
  BY <1>5, <1>6 DEF Leaves
<1>8. Len(e.ticket) = Len(d.ticket)
  BY <1>1, <1>3, <1>4, <1>7, SameLength DEF Good
<1>9. \A b \in Buttons : e.buttons[b] \in {0, d.buttons[b]}
  BY <1>7
<1> QED BY <1>1, <1>3, <1>7, <1>8, <1>9, EmptiedBrings

\* What brings k brings k + 1.
LEMMA BringsMore ==
  ASSUME NEW d, NEW e, Typed(d), Typed(e), Brings(d, e, 0)
  PROVE  Brings(d, e, 1)
<1>1. /\ Len(d.ticket) \in Nat /\ Len(d.buffer) \in Nat /\ Len(e.ticket) \in Nat /\ Len(e.buffer) \in Nat
      /\ \A b \in Buttons : d.buttons[b] \in Nat /\ e.buttons[b] \in Nat
  BY CountsAre
<1>2. \A x, y, z, w \in Nat : x + y <= z + w + 0 => x + y <= z + w + 1
  OBVIOUS
<1>3. Len(e.ticket) + Len(e.buffer) <= Len(d.ticket) + Len(d.buffer) + 1
  BY <1>1, <1>2 DEF Brings
<1>4. \A b \in Buttons : e.buttons[b] <= d.buttons[b] + 1
  BY <1>1 DEF Brings
<1> QED BY <1>3, <1>4 DEF Brings

LEMMA ConfirmBrings ==
  ASSUME NEW d, Good(d)
  PROVE  Brings(d, ConfirmWithdrawal(d), 1)
<1>1. Brings(d, WithdrawConsent(d), 1)
  BY WithdrawBrings, WithdrawKeeps, BringsMore DEF Good
<1>2. Brings(d, Offer(d, {"withdraw", "keep"}), 1)
  BY OfferBrings
<1> QED BY <1>1, <1>2 DEF ConfirmWithdrawal

\* A message brings a ticket at most, and nothing else.
LEMMA NewTicketBrings ==
  ASSUME NEW d, Good(d), NEW i
  PROVE  LET e == NewTicket(d, i)
         IN /\ e.inbox = d.inbox /\ e.buffer = d.buffer /\ e.buttons = d.buttons
            /\ DOMAIN e.ticket = 1 .. Len(d.ticket) + 1
<1> DEFINE row == [status |-> "open", lifecycle |-> 1, revision |-> d.client.revision,
                   cycle |-> 0, waiting |-> FALSE, heard |-> FALSE, purged |-> FALSE]
<1> DEFINE g == OpenTicket(d)
<1> DEFINE e == AddClientMessage(g, i, Len(d.ticket) + 1)
<1>1. Typed(d) /\ Columns \subseteq DOMAIN d /\ d.ticket \in Seq(Ticket) /\ Len(d.ticket) \in Nat
  BY HasColumns, CountsAre DEF Good, Typed
<1>2. /\ g.inbox = d.inbox /\ g.buffer = d.buffer /\ g.buttons = d.buttons
      /\ g.ticket = Append(d.ticket, row) /\ Columns \subseteq DOMAIN g
  BY <1>1 DEF OpenTicket, Columns
<1> HIDE DEF g, row
<1>3. DOMAIN Append(d.ticket, row) = 1 .. Len(d.ticket) + 1
  BY <1>1 DEF Append
<1>4. Leaves(g, e)
  BY <1>2, MessageLeaves
<1>5. NewTicket(d, i) = e
  BY DEF NewTicket, g
<1> QED BY <1>2, <1>3, <1>4, <1>5 DEF Leaves

LEMMA HandleBrings ==
  ASSUME NEW d, Good(d), NEW i, NEW kind, NEW late \in BOOLEAN, Typed(HandleContent(d, i, kind, late))
  PROVE  LET e == HandleContent(d, i, kind, late)
         IN /\ e.inbox = d.inbox /\ e.buffer = d.buffer /\ e.buttons = d.buttons
            /\ Len(e.ticket) <= Len(d.ticket) + 1
<1> DEFINE t == Current(d)
<1> DEFINE e == HandleContent(d, i, kind, late)
<1>1. Typed(d) /\ Columns \subseteq DOMAIN d /\ Len(d.ticket) \in Nat
  BY HasColumns, CountsAre DEF Good
<1>2. Typed(e) /\ Len(e.ticket) \in Nat
  BY CountsAre
<1>3. e \in {AcceptRating(d, t, kind, late), ContinueTicket(d, i, t), NewTicket(d, i), d}
  BY DEF HandleContent
<1> HIDE DEF e
<1>4. CASE e \in {AcceptRating(d, t, kind, late), ContinueTicket(d, i, t), d}
  <2>1. Leaves(d, d)
    BY DEF Leaves
  <2>2. Leaves(d, e)
    BY <1>1, <1>4, <2>1, RatingLeaves, MessageLeaves
  <2>3. Len(e.ticket) = Len(d.ticket)
    BY <1>1, <1>2, <2>2, SameLength DEF Leaves
  <2>4. Len(e.ticket) <= Len(d.ticket) + 1
    BY <1>1, <2>3
  <2> QED BY <2>2, <2>4 DEF Leaves, e
<1>5. CASE e = NewTicket(d, i)
  <2>1. /\ e.inbox = d.inbox /\ e.buffer = d.buffer /\ e.buttons = d.buttons
        /\ DOMAIN e.ticket = 1 .. Len(d.ticket) + 1
    BY <1>5, NewTicketBrings
  <2>2. DOMAIN e.ticket = 1 .. Len(e.ticket)
    BY <1>2, Domains DEF Tickets
  <2>3. ASSUME NEW n \in Nat, NEW m \in Nat, 1 .. n = 1 .. m + 1
        PROVE  n <= m + 1
    <3>1. n # 0 => n \in 1 .. m + 1
      BY <2>3
    <3> QED BY <3>1
  <2>4. Len(e.ticket) <= Len(d.ticket) + 1
    BY <1>1, <1>2, <2>1, <2>2, <2>3
  <2> QED BY <2>1, <2>4 DEF e
<1> QED BY <1>3, <1>4, <1>5

\* The kept messages bring a ticket each at most.
LEMMA ReleasedBrings ==
  ASSUME NEW d, Good(d), d.client.state = "granted", NEW kept \in Seq(Buffered)
  PROVE  LET e == Released(d, kept)
         IN /\ e.inbox = d.inbox /\ e.buttons = d.buttons
            /\ Len(e.ticket) <= Len(d.ticket) + Len(kept)
<1> DEFINE n == Len(kept)
<1> DEFINE Sound(e, k) == /\ Good(e) /\ e.client = d.client
                          /\ e.inbox = d.inbox /\ e.buttons = d.buttons
                          /\ Len(e.ticket) <= Len(d.ticket) + k
<1>1. n \in Nat /\ \A k \in 1 .. n : kept[k] \in Buffered
  BY LenProperties, ElementOfSeq
<1>2. PICK f : IsHandled(f, d, kept, n) /\ Released(d, kept) = f[n]
  BY <1>1, ReleasedIs
<1>3. \A k \in 0 .. n :
        f[k] = IF k = 0 THEN d ELSE HandleContent(f[k - 1], kept[k].input, kept[k].kind, FALSE)
  BY <1>2 DEF IsHandled
<1>4. Len(d.ticket) \in Nat
  BY CountsAre DEF Good
<1>5. Sound(d, 0)
  <2>1. Len(d.ticket) <= Len(d.ticket) + 0
    BY <1>4
  <2> QED BY <2>1
<1>6. ASSUME NEW k \in 1 .. n, Sound(f[k - 1], k - 1)
      PROVE  Sound(f[k], k)
  <2> DEFINE g == f[k - 1]
  <2> DEFINE i == kept[k].input
  <2> DEFINE kind == kept[k].kind
  <2>1. f[k] = HandleContent(g, i, kind, FALSE)
    <3>1. k \in 0 .. n /\ k # 0
      BY <1>1
    <3>2. f[k] = HandleContent(f[k - 1], kept[k].input, kept[k].kind, FALSE)
      BY <1>3, <3>1
    <3> QED BY <3>2
  <2>2. i \in 1 .. MaxInputs /\ kind \in Messages
    BY <1>1 DEF Buffered
  <2>3. /\ Good(g) /\ g.client = d.client /\ g.inbox = d.inbox /\ g.buttons = d.buttons
        /\ Len(g.ticket) <= Len(d.ticket) + (k - 1)
    BY <1>6
  <2> HIDE DEF g, i, kind
  <2> DEFINE e == HandleContent(g, i, kind, FALSE)
  <2>4. Good(e) /\ e.inbox = g.inbox /\ e.client = g.client
    BY <2>2, <2>3, HandleKeeps
  <2>5. e.buttons = g.buttons /\ Len(e.ticket) <= Len(g.ticket) + 1
    BY <2>3, <2>4, HandleBrings DEF Good
  <2> HIDE DEF e
  <2>6. Len(g.ticket) \in Nat /\ Len(e.ticket) \in Nat /\ k \in Nat
    BY <1>1, <2>3, <2>4, CountsAre DEF Good
  <2>7. \A x, y, z, m \in Nat : x <= y + 1 /\ y <= z + (m - 1) => x <= z + m
    OBVIOUS
  <2>8. Len(e.ticket) <= Len(d.ticket) + k
    BY <1>4, <2>3, <2>5, <2>6, <2>7
  <2> QED BY <2>1, <2>3, <2>4, <2>5, <2>8 DEF e
<1> HIDE DEF Sound
<1>7. \A k \in 0 .. n : Sound(f[k], k)
  <2> DEFINE Bad == {k \in 0 .. n : ~Sound(f[k], k)}
  <2> SUFFICES ASSUME Bad # {} PROVE FALSE
    OBVIOUS
  <2>1. Bad \subseteq Nat
    OBVIOUS
  <2>2. PICK m \in Bad : \A k \in Bad : m <= k
    BY <2>1, LeastNat
  <2>3. m \in 0 .. n /\ ~Sound(f[m], m)
    OBVIOUS
  <2>4. m # 0
    BY <1>1, <1>3, <1>5, <2>3
  <2>5. m \in 1 .. n /\ m - 1 \in 0 .. n /\ ~(m <= m - 1)
    BY <1>1, <2>3, <2>4
  <2>6. m - 1 \notin Bad
    BY <2>2, <2>5
  <2>7. Sound(f[m - 1], m - 1)
    BY <2>5, <2>6
  <2> QED BY <1>6, <2>3, <2>5, <2>7
<1>8. Sound(f[n], n)
  BY <1>1, <1>7
<1> QED BY <1>2, <1>8 DEF Sound

LEMMA AcceptBrings ==
  ASSUME NEW d, Good(d), ~d.client.erased, NEW n \in 0 .. Len(d.buffer)
  PROVE  Brings(d, AcceptConsent(d, n), 0)
<1>1. Typed(d) /\ Columns \subseteq DOMAIN d /\ Len(d.ticket) \in Nat /\ Len(d.buffer) \in Nat
        /\ d.buffer \in Seq(Buffered) /\ \A b \in Buttons : d.buttons[b] \in Nat
  BY HasColumns, CountsAre DEF Good, Typed
<1>2. CASE ~Grantable(d)
  <2>1. AcceptConsent(d, n) = d /\ Leaves(d, d)
    BY <1>2 DEF AcceptConsent, Leaves
  <2> QED BY <1>1, <2>1, LeavesBrings
<1>3. CASE Grantable(d)
  <2> DEFINE m == Len(d.buffer)
  <2> DEFINE kept == SubSeq(d.buffer, n + 1, m)
  <2> DEFINE g == GrantConsent(d)
  <2> DEFINE h == Released(g, kept)
  <2> DEFINE e == [h EXCEPT !.buffer = <<>>]
  <2>1. AcceptConsent(d, n) = e
    BY <1>3 DEF AcceptConsent
  <2>2. kept \in Seq(Buffered) /\ Len(kept) \in Nat /\ Len(kept) <= m
    <3>1. \A i \in 1 .. m : d.buffer[i] \in Buffered
      BY <1>1, ElementOfSeq
    <3>2. n + 1 \in Int /\ m \in Int /\ \A i \in n + 1 .. m : d.buffer[i] \in Buffered
      BY <1>1, <3>1
    <3>3. kept \in Seq(Buffered) /\ Len(kept) = IF n + 1 <= m THEN m - (n + 1) + 1 ELSE 0
      BY <3>2, SubSeqProperties
    <3> QED BY <1>1, <3>3
  <2>3. Good(g) /\ g.client.state = "granted" /\ g.inbox = d.inbox /\ g.ticket = d.ticket /\ g.buttons = d.buttons
    <3>1. g.inbox = d.inbox /\ g.ticket = d.ticket /\ g.buttons = d.buttons
      BY <1>1 DEF GrantConsent, Columns
    <3> HIDE DEF g
    <3> QED BY <3>1, GrantKeeps DEF g
  <2> HIDE DEF kept, g
  <2>4. Good(h) /\ h.inbox = d.inbox /\ h.buttons = d.buttons /\ Len(h.ticket) <= Len(d.ticket) + Len(kept)
    BY <2>2, <2>3, ReleasedKeeps, ReleasedBrings
  <2> HIDE DEF h
  <2>5. Columns \subseteq DOMAIN h /\ Len(h.ticket) \in Nat
    BY <2>4, HasColumns, CountsAre DEF Good
  <2>6. e.inbox = d.inbox /\ e.buttons = d.buttons /\ e.ticket = h.ticket /\ e.buffer = <<>>
    BY <2>4, <2>5 DEF Columns
  <2> HIDE DEF e
  <2>7. Len(e.ticket) + Len(e.buffer) <= Len(d.ticket) + Len(d.buffer) + 0
    <3>1. Len(e.buffer) = 0
      BY <2>6, EmptySeq
    <3>2. \A w, x, y, z \in Nat : w <= x + y /\ y <= z => w + 0 <= x + z + 0
      OBVIOUS
    <3>3. Len(h.ticket) + 0 <= Len(d.ticket) + m + 0
      BY <1>1, <2>2, <2>4, <2>5, <3>2
    <3> QED BY <2>6, <3>1, <3>3
  <2>8. \A b \in Buttons : e.buttons[b] <= d.buttons[b] + 0
    BY <1>1, <2>6
  <2> QED BY <2>1, <2>6, <2>7, <2>8 DEF Brings
<1> QED BY <1>2, <1>3

\* A button is used up before what it does.
LEMMA BringsOn ==
  ASSUME NEW d, NEW g, NEW e, Typed(d), Typed(g), Typed(e), Brings(d, g, 0), Brings(g, e, 1)
  PROVE  Brings(d, e, 1)
<1>1. /\ Len(d.ticket) \in Nat /\ Len(d.buffer) \in Nat /\ Len(e.ticket) \in Nat /\ Len(e.buffer) \in Nat
      /\ Len(g.ticket) \in Nat /\ Len(g.buffer) \in Nat
      /\ \A b \in Buttons : d.buttons[b] \in Nat /\ e.buttons[b] \in Nat /\ g.buttons[b] \in Nat
  BY CountsAre
<1>2. \A x, y, z, w, p, q \in Nat : x + y <= z + w + 1 /\ z + w <= p + q + 0 => x + y <= p + q + 1
  OBVIOUS
<1>3. Len(e.ticket) + Len(e.buffer) <= Len(d.ticket) + Len(d.buffer) + 1
  BY <1>1, <1>2 DEF Brings
<1>4. \A x, y, z \in Nat : x <= y + 1 /\ y <= z + 0 => x <= z + 1
  OBVIOUS
<1>5. \A b \in Buttons : e.buttons[b] <= d.buttons[b] + 1
  BY <1>1, <1>4 DEF Brings
<1> QED BY <1>3, <1>5 DEF Brings

LEMMA ButtonBrings ==
  ASSUME NEW d, Good(d), ~d.client.erased, NEW b \in Buttons, NEW usable \in BOOLEAN,
         NEW n \in 0 .. Len(d.buffer)
  PROVE  Brings(d, HandleButton(d, b, usable, n), 1)
<1> DEFINE g == Pressed(d, b)
<1> DEFINE e == HandleButton(d, b, usable, n)
<1>1. Typed(d) /\ Columns \subseteq DOMAIN d /\ Len(d.ticket) \in Nat /\ Len(d.buffer) \in Nat
        /\ \A c \in Buttons : d.buttons[c] \in Nat
  BY HasColumns, CountsAre DEF Good
<1>2. CASE ~usable \/ d.buttons[b] = 0
  <2>1. e = d
    BY <1>2 DEF HandleButton
  <2>2. Leaves(d, d)
    BY DEF Leaves
  <2>3. Brings(d, d, 0)
    BY <1>1, <2>2, LeavesBrings
  <2> HIDE DEF e
  <2> QED BY <1>1, <2>1, <2>3, BringsMore DEF e
<1>3. CASE usable /\ d.buttons[b] # 0
  <2>1. Good(g) /\ g.client = d.client /\ g.buffer = d.buffer
    BY <1>3, PressedKeeps
  <2>2. g.inbox = d.inbox /\ g.ticket = d.ticket /\ g.buttons = [d.buttons EXCEPT ![b] = d.buttons[b] - 1]
    BY <1>1 DEF Pressed, Columns
  <2>3. \A c \in Buttons : g.buttons[c] <= d.buttons[c] + 0
    <3>1. \A c \in Buttons : g.buttons[c] = IF c = b THEN d.buttons[c] - 1 ELSE d.buttons[c]
      BY <1>1, <2>2 DEF Typed
    <3> QED BY <1>1, <3>1
  <2>4. Brings(d, g, 0)
    <3>1. Len(d.ticket) + Len(d.buffer) <= Len(d.ticket) + Len(d.buffer) + 0
      BY <1>1
    <3> QED BY <2>1, <2>2, <2>3, <3>1 DEF Brings
  <2>5. e \in {WithdrawConsent(g), g, SendConsentPrompt(g), AcceptConsent(g, n), DeclineConsent(g)}
    <3>1. b[1] \in {"accept", "decline", "withdraw", "keep"}
      BY DEF Buttons, Actions
    <3> HIDE DEF g
    <3> QED BY <1>3, <3>1 DEF HandleButton, g
  <2> HIDE DEF g
  <2>6. Brings(g, WithdrawConsent(g), 1) /\ Good(WithdrawConsent(g))
    BY <2>1, WithdrawBrings, WithdrawKeeps, BringsMore DEF Good
  <2>7. Brings(g, g, 1)
    <3>1. Leaves(g, g)
      BY DEF Leaves
    <3> QED BY <2>1, <3>1, LeavesBrings, BringsMore DEF Good
  <2>8. Brings(g, SendConsentPrompt(g), 1) /\ Good(SendConsentPrompt(g))
    BY <2>1, OfferBrings, PromptKeeps DEF SendConsentPrompt
  <2>9. Brings(g, AcceptConsent(g, n), 1) /\ Good(AcceptConsent(g, n))
    BY <2>1, AcceptBrings, AcceptKeeps, BringsMore DEF Good
  <2>10. Brings(g, DeclineConsent(g), 1) /\ Good(DeclineConsent(g))
    BY <2>1, DeclineBrings, DeclineKeeps, BringsMore DEF Good
  <2> HIDE DEF e
  <2>11. Brings(g, e, 1) /\ Good(e)
    BY <2>1, <2>5, <2>6, <2>7, <2>8, <2>9, <2>10
  <2>12. Brings(d, e, 1)
    BY <1>1, <2>1, <2>4, <2>11, BringsOn DEF Good
  <2> QED BY <2>12 DEF e
<1> QED BY <1>2, <1>3

LEMMA MessageBrings ==
  ASSUME NEW d, Good(d), ~d.client.erased, NEW i \in Pending(d),
         d.inbox[i].kind \in Messages \cup {"start"}, \A k \in Pending(d) : i <= k
  PROVE  Brings(d, RouteMessage(d, i, d.inbox[i]), 1)
<1> DEFINE row == d.inbox[i]
<1> DEFINE e == RouteMessage(d, i, row)
<1>1. /\ Typed(d) /\ i \in 1 .. MaxInputs /\ row \in Input
  <2>1. Typed(d) /\ Len(d.inbox) <= MaxInputs
    BY DEF Good, Typed
  <2>2. i \in 1 .. Len(d.inbox) /\ Len(d.inbox) \in Nat /\ row \in Input
    BY <2>1, Domains DEF Pending
  <2> QED BY <2>1, <2>2, BoundsAssumption
<1>2. Good(e)
  BY RouteMessageKeeps
<1>3. CASE ~Consented(d)
  <2>1. e = AskConsent(d, i, row.kind)
    BY <1>3 DEF RouteMessage
  <2> HIDE DEF e
  <2> QED BY <1>1, <2>1, AskBrings DEF e
<1>4. CASE Consented(d) /\ row.kind = "start"
  <2>1. e = d
    BY <1>4 DEF RouteMessage, Messages
  <2>2. Leaves(d, d)
    BY DEF Leaves
  <2>3. Brings(d, d, 1)
    BY <1>1, <2>2, LeavesBrings, BringsMore
  <2> HIDE DEF e
  <2> QED BY <2>1, <2>3 DEF e
<1>5. CASE Consented(d) /\ row.kind \in Messages
  <2> DEFINE q == row.kind
  <2> DEFINE l == Late(d, row)
  <2>1. e = HandleContent(d, i, q, l)
    BY <1>5 DEF RouteMessage, Messages
  <2>2. l \in BOOLEAN
    BY <1>1 DEF Input, Late
  <2> HIDE DEF e, q, l
  <2>3. /\ e.inbox = d.inbox /\ e.buffer = d.buffer /\ e.buttons = d.buttons
        /\ Len(e.ticket) <= Len(d.ticket) + 1
    BY <1>2, <2>1, <2>2, HandleBrings DEF Good
  <2>4. /\ Len(d.ticket) \in Nat /\ Len(d.buffer) \in Nat /\ Len(e.ticket) \in Nat
        /\ \A b \in Buttons : d.buttons[b] \in Nat
    BY <1>1, <1>2, CountsAre DEF Good
  <2>5. \A x, y, z \in Nat : x <= y + 1 => x + z <= y + z + 1
    OBVIOUS
  <2>6. Len(e.ticket) + Len(e.buffer) <= Len(d.ticket) + Len(d.buffer) + 1
    BY <2>3, <2>4, <2>5
  <2>7. \A b \in Buttons : e.buttons[b] <= d.buttons[b] + 1
    BY <2>3, <2>4
  <2> QED BY <2>3, <2>6, <2>7 DEF Brings, e
<1> QED BY <1>3, <1>4, <1>5

LEMMA RouteBrings ==
  ASSUME NEW d, Good(d), NEW i \in Pending(d), \A k \in Pending(d) : i <= k,
         NEW usable \in BOOLEAN, NEW n \in 0 .. Len(d.buffer)
  PROVE  Brings(d, RouteInput(d, i, usable, n), 1)
<1> DEFINE row == d.inbox[i]
<1> DEFINE kind == row.kind
<1> DEFINE e == RouteInput(d, i, usable, n)
<1>1. /\ Typed(d) /\ ~d.client.erased /\ Handleable(d) /\ Columns \subseteq DOMAIN d
  BY HasColumns DEF Good, Emptied
<1>2. kind \in AllKinds /\ (kind = "press" => row.button \in Buttons)
  <2>1. row \in Input
    BY <1>1, Domains DEF Pending
  <2> QED BY <1>1, <2>1 DEF Input, Handleable
<1>3. Good(e)
  BY RouteKeeps
<1>4. ASSUME NEW f, Good(f), Brings(d, f, 0)
      PROVE  Brings(d, f, 1)
  BY <1>1, <1>4, BringsMore DEF Good
<1>5. CASE kind = "press"
  <2>1. e = HandleButton(d, row.button, usable, n)
    BY <1>5 DEF RouteInput, Messages
  <2> HIDE DEF e
  <2> QED BY <1>1, <1>2, <1>5, <2>1, ButtonBrings DEF e
<1>6. CASE kind = "edit"
  <2>1. e = ReviseClientMessage(d, i, row.target)
    BY <1>6 DEF RouteInput, Messages
  <2> HIDE DEF e
  <2>2. Leaves(d, e)
    BY <1>1, <2>1, ReviseLeaves
  <2>3. Brings(d, e, 0)
    BY <1>1, <1>3, <2>2, LeavesBrings DEF Good, e
  <2> QED BY <1>3, <1>4, <2>3 DEF e
<1>7. CASE kind = "withdraw"
  <2>1. e = WithdrawConsent(d)
    BY <1>7 DEF RouteInput, Messages
  <2> HIDE DEF e
  <2> QED BY <1>3, <1>4, <2>1, WithdrawBrings DEF e
<1>8. CASE kind = "leave"
  <2>1. e = ConfirmWithdrawal(d)
    BY <1>8 DEF RouteInput, Messages
  <2> HIDE DEF e
  <2> QED BY <2>1, ConfirmBrings DEF e
<1>9. CASE kind = "info"
  <2>1. e = d
    BY <1>9 DEF RouteInput, Messages
  <2>2. Leaves(d, d)
    BY DEF Leaves
  <2>3. Brings(d, d, 0)
    BY <1>1, <2>2, LeavesBrings
  <2> HIDE DEF e
  <2> QED BY <1>4, <2>1, <2>3 DEF e
<1>10. CASE kind \in Messages \cup {"start"}
  <2>1. e = RouteMessage(d, i, row)
    BY <1>10 DEF RouteInput, Messages
  <2> HIDE DEF e
  <2> QED BY <1>1, <1>10, <2>1, MessageBrings DEF e
<1> QED BY <1>2, <1>5, <1>6, <1>7, <1>8, <1>9, <1>10 DEF AllKinds, Messages

LEMMA ClosingLeaves ==
  ASSUME NEW d, Columns \subseteq DOMAIN d, NEW t, NEW c, NEW cycle, NEW row, NEW kind
  PROVE  Leaves(d, Queue(Change([d EXCEPT !.cycle = Append(@, cycle)], t, row), kind, 0, t, c))
<1> DEFINE g == [d EXCEPT !.cycle = Append(@, cycle)]
<1> DEFINE h == Change(g, t, row)
<1>1. Leaves(d, g) /\ Columns \subseteq DOMAIN g
  BY DEF Leaves, Columns
<1> HIDE DEF g
<1>2. Leaves(g, h) /\ Columns \subseteq DOMAIN h
  BY <1>1, TouchLeaves DEF Leaves
<1> HIDE DEF h
<1>3. Leaves(h, Queue(h, kind, 0, t, c))
  BY <1>2, DeliveriesLeave
<1> QED BY <1>1, <1>2, <1>3, LeavesAll DEF g, h

LEMMA ClosedByLeaves ==
  ASSUME NEW d, Columns \subseteq DOMAIN d, NEW t
  PROVE  Leaves(d, ClosedBy(d, t))
<1> DEFINE c == Len(d.cycle) + 1
<1> DEFINE cycle == NewCycle(t)
<1> DEFINE row == [d.ticket[t] EXCEPT !.status = "awaiting_rating", !.cycle = c, !.waiting = FALSE,
                                      !.heard = FALSE]
<1>1. ClosedBy(d, t) = Queue(Change([d EXCEPT !.cycle = Append(@, cycle)], t, row), "ticket_closed", 0, t, c)
  BY DEF ClosedBy
<1> HIDE DEF c, cycle, row
<1>2. Leaves(d, Queue(Change([d EXCEPT !.cycle = Append(@, cycle)], t, row), "ticket_closed", 0, t, c))
  BY ClosingLeaves
<1> QED BY <1>1, <1>2

LEMMA BroadcastLeaves ==
  ASSUME Columns \subseteq DOMAIN db, Broadcast
  PROVE  Leaves(db, db')
<1>1. PICK t, asks : db' = ClosedForIncident(db, t, asks)
  BY DEF Broadcast, CloseForIncident
<1>2. PICK c, cycle, row :
         LET g == Change([db EXCEPT !.cycle = Append(@, cycle)], t, row)
         IN db' = IF asks THEN Queue(g, "ticket_closed", 0, t, c) ELSE g
  BY <1>1 DEF ClosedForIncident
<1> DEFINE f == [db EXCEPT !.cycle = Append(@, cycle)]
<1> DEFINE g == Change(f, t, row)
<1>3. Leaves(db, f) /\ Columns \subseteq DOMAIN f
  BY DEF Leaves, Columns
<1> HIDE DEF f
<1>4. Leaves(f, g)
  BY <1>3, TouchLeaves
<1>5. Leaves(db, g)
  BY <1>3, <1>4, LeavesAll
<1>6. Leaves(db, Queue(Change([db EXCEPT !.cycle = Append(@, cycle)], t, row), "ticket_closed", 0, t, c))
  BY ClosingLeaves
<1> HIDE DEF g
<1>7. CASE asks
  BY <1>2, <1>6, <1>7
<1>8. CASE ~asks
  BY <1>2, <1>5, <1>8 DEF f, g
<1> QED BY <1>7, <1>8

LEMMA PurgeLeaves ==
  ASSUME NEW d, Columns \subseteq DOMAIN d, NEW T
  PROVE  Leaves(d, Purge(d, T))
<1> DEFINE tickets == [t \in DOMAIN d.ticket |-> IF t \in T THEN [d.ticket[t] EXCEPT !.purged = TRUE]
                                                ELSE d.ticket[t]]
<1> DEFINE messages == [i \in DOMAIN d.message |-> IF d.message[i].ticket \in T
                                                  THEN [d.message[i] EXCEPT !.text = 0] ELSE d.message[i]]
<1> DEFINE jobs == {IF j.ticket \in T THEN [j EXCEPT !.fresh = FALSE] ELSE j : j \in d.closing}
<1>1. Purge(d, T) = Invalidate([d EXCEPT !.ticket = tickets, !.message = messages, !.closing = jobs], T)
  BY DEF Purge, Columns
<1>2. DOMAIN tickets = DOMAIN d.ticket
  OBVIOUS
<1> HIDE DEF tickets, messages, jobs
<1> DEFINE g == [d EXCEPT !.ticket = tickets, !.message = messages, !.closing = jobs]
<1>3. Leaves(d, g) /\ Columns \subseteq DOMAIN g
  BY <1>2 DEF Leaves, Columns
<1> HIDE DEF g
<1>4. Leaves(g, Invalidate(g, T))
  BY <1>3, InvalidateLeaves
<1> QED BY <1>1, <1>3, <1>4, LeavesAll DEF g

\* The steps of the staff, of the jobs, the timers, the deliveries and retention.
LEMMA StaffLeaves ==
  ASSUME Columns \subseteq DOMAIN db, StaffCommand \/ StaffSpecial
  PROVE  Leaves(db, db')
<1>1. PICK t \in Tickets(db) : \/ Assign(t) \/ Amend(t) \/ StopWaiting(t) \/ Close(t)
                               \/ Release(t) \/ Wait(t) \/ Reply(t) \/ Reopen(t)
  BY DEF StaffCommand, StaffSpecial
<1>2. \A d : Columns \subseteq DOMAIN d => \A u, row : Leaves(d, Touch(d, u)) /\ Leaves(d, Change(d, u, row))
  BY TouchLeaves
<1>3. CASE Assign(t) \/ Amend(t) \/ StopWaiting(t) \/ Release(t) \/ Wait(t)
  <2>1. \/ \E row : db' = Change(db, t, row)
        \/ db' = Touch(db, t)
    BY <1>3 DEF Assign, Amend, StopWaiting, Release, Wait, Paused, Resume
  <2> QED BY <1>2, <2>1
<1>4. CASE Close(t)
  <2>1. db' = ClosedBy(db, t)
    BY <1>4 DEF Close
  <2> QED BY <2>1, ClosedByLeaves
<1>5. CASE Reply(t)
  <2> DEFINE n == db.replies + 1
  <2> DEFINE f == [db EXCEPT !.replies = n]
  <2> DEFINE g == Touch(f, t)
  <2> DEFINE h == Queue(g, "staff", n, t, 0)
  <2>1. PICK close, wait, job :
           LET waits == IF wait /\ ~db.ticket[t].waiting THEN Paused(h, t) ELSE h
           IN db' = IF close THEN [waits EXCEPT !.closing = @ \cup {job}] ELSE waits
    BY <1>5 DEF Reply
  <2>2. Leaves(db, f) /\ Columns \subseteq DOMAIN f
    BY DEF Leaves, Columns
  <2> HIDE DEF f, n
  <2>3. Leaves(f, g) /\ Columns \subseteq DOMAIN g
    BY <1>2, <2>2 DEF Leaves
  <2> HIDE DEF g
  <2>4. Leaves(g, h) /\ Columns \subseteq DOMAIN h
    <3>1. Leaves(g, h)
      <4> HIDE DEF n
      <4> QED BY <2>3, DeliveriesLeave
    <3> HIDE DEF h
    <3> QED BY <2>3, <3>1 DEF Leaves
  <2> HIDE DEF h
  <2> DEFINE w == IF wait /\ ~db.ticket[t].waiting THEN Paused(h, t) ELSE h
  <2>5. Leaves(h, w) /\ Columns \subseteq DOMAIN w
    <3>1. Leaves(h, h)
      BY DEF Leaves
    <3>2. Leaves(h, Paused(h, t))
      BY <1>2, <2>4 DEF Paused
    <3> QED BY <2>4, <3>1, <3>2 DEF Leaves
  <2>6. db' = w \/ db' = [w EXCEPT !.closing = @ \cup {job}]
    BY <2>1
  <2> HIDE DEF w
  <2>7. Leaves(w, db')
    BY <2>5, <2>6 DEF Leaves, Columns
  <2> QED BY <2>2, <2>3, <2>4, <2>5, <2>7, LeavesAll
<1>6. CASE Reopen(t)
  <2> DEFINE c == db.ticket[t].cycle
  <2> DEFINE f == CancelCycleDeliveries(db, c)
  <2> DEFINE g == [f EXCEPT !.cycle[c] = Over(@, @.finished)]
  <2> DEFINE h == IF c = 0 THEN db ELSE g
  <2> DEFINE e == Invalidate(h, {t})
  <2>1. db' = Change(e, t, [db.ticket[t] EXCEPT !.status = "in_progress", !.cycle = 0,
                                                !.lifecycle = @ + 1, !.waiting = FALSE, !.heard = FALSE])
    BY <1>6 DEF Reopen, Reopened
  <2>2. Leaves(db, f) /\ Columns \subseteq DOMAIN f
    BY DeliveriesLeave DEF Leaves
  <2> HIDE DEF f, c
  <2>3. Leaves(f, g)
    BY <2>2 DEF Leaves, Columns
  <2> HIDE DEF g
  <2>4. Leaves(db, h) /\ Columns \subseteq DOMAIN h
    <3>1. Leaves(db, db)
      BY DEF Leaves
    <3> QED BY <2>2, <2>3, <3>1, LeavesAll DEF Leaves
  <2> HIDE DEF h
  <2>5. Leaves(h, e) /\ Columns \subseteq DOMAIN e
    BY <2>4, InvalidateLeaves DEF Leaves
  <2> HIDE DEF e
  <2>6. Leaves(e, db')
    BY <1>2, <2>1, <2>5
  <2> QED BY <2>4, <2>5, <2>6, LeavesAll
<1> QED BY <1>1, <1>3, <1>4, <1>5, <1>6

LEMMA JobLeaves ==
  ASSUME Columns \subseteq DOMAIN db, ClosingJob
  PROVE  Leaves(db, db')
<1>1. PICK j \in db.closing : ReadForClose(j) \/ GiveUp(j) \/ CloseDeferred(j)
  BY DEF ClosingJob
<1>2. CASE \E jobs : db' = [db EXCEPT !.closing = jobs]
  BY <1>2 DEF Leaves, Columns
<1>3. CASE db' = [ClosedBy(db, j.ticket) EXCEPT !.closing = @ \ {[j EXCEPT !.fresh = FALSE]}]
  <2> DEFINE g == ClosedBy(db, j.ticket)
  <2>1. Leaves(db, g) /\ Columns \subseteq DOMAIN g
    BY ClosedByLeaves DEF Leaves
  <2> HIDE DEF g
  <2>2. Leaves(g, db')
    BY <1>3, <2>1 DEF Leaves, Columns, g
  <2> QED BY <2>1, <2>2, LeavesAll
<1> QED BY <1>1, <1>2, <1>3 DEF ReadForClose, GiveUp, CloseDeferred

LEMMA TimersLeave ==
  ASSUME Columns \subseteq DOMAIN db, WaitingTimer \/ RatingTimer \/ CycleExpires
  PROVE  Leaves(db, db')
<1>1. CASE WaitingTimer
  <2>1. PICK t \in Tickets(db) : RemindWaiting(t) \/ AutoClose(t)
    BY <1>1 DEF WaitingTimer
  <2>2. CASE RemindWaiting(t)
    BY <2>2, TouchLeaves DEF RemindWaiting
  <2>3. CASE AutoClose(t)
    <3>1. PICK c, cycle, row :
             db' = Queue(Change([db EXCEPT !.cycle = Append(@, cycle)], t, row), "auto_closed", 0, t, c)
      BY <2>3 DEF AutoClose
    <3> QED BY <3>1, ClosingLeaves
  <2> QED BY <2>1, <2>2, <2>3
<1>2. CASE RatingTimer
  <2>1. (\E t, reason : db' = FinishRating(db, t, reason)) \/ \E t : db' = Touch(db, t)
    BY <1>2 DEF RatingTimer, ExpireCycle, RemindRating
  <2> QED BY <2>1, FinishLeaves, TouchLeaves
<1>3. CASE CycleExpires
  BY <1>3 DEF CycleExpires, Leaves, Columns
<1> QED BY <1>1, <1>2, <1>3

LEMMA SenderLeaves ==
  ASSUME Columns \subseteq DOMAIN db, Sender
  PROVE  Leaves(db, db')
<1>1. \E r, state : db' = Settle(db, {r}, state)
  BY DEF Sender, Claim, Report
<1> QED BY <1>1, DeliveriesLeave

LEMMA RetentionLeaves ==
  ASSUME Columns \subseteq DOMAIN db, Retention \/ PublishPolicy \/ ReviseDeferred
  PROVE  Leaves(db, db')
<1>1. CASE Retention
  <2>1. PICK t : db' = Purge(db, {t})
    BY <1>1 DEF Retention, PurgeExpired
  <2> QED BY <2>1, PurgeLeaves
<1>2. CASE PublishPolicy
  BY <1>2 DEF PublishPolicy, Leaves, Columns
<1>3. CASE ReviseDeferred
  <2>1. PICK job \in db.revising :
           db' = ReviseClientMessage([db EXCEPT !.revising = @ \ {job}], job.input, job.target)
    BY <1>3 DEF ReviseDeferred
  <2> DEFINE g == [db EXCEPT !.revising = @ \ {job}]
  <2>2. Leaves(db, g) /\ Columns \subseteq DOMAIN g
    BY DEF Leaves, Columns
  <2> HIDE DEF g
  <2>3. Leaves(g, db')
    BY <2>1, <2>2, ReviseLeaves DEF g
  <2> QED BY <2>2, <2>3, LeavesAll
<1> QED BY <1>1, <1>2, <1>3

\* What stays bounds what does not grow.
LEMMA BroughtStays ==
  ASSUME NEW d, NEW e, Typed(d), Typed(e), Brought(d), Brings(d, e, 0)
  PROVE  Brought(e)
<1>1. Pending(e) = Pending(d) /\ e.inbox = d.inbox /\ Pending(d) \subseteq Nat /\ Len(d.inbox) \in Nat
  BY Domains DEF Brings, Pending
<1>2. /\ Len(d.ticket) \in Nat /\ Len(d.buffer) \in Nat /\ Len(e.ticket) \in Nat /\ Len(e.buffer) \in Nat
      /\ \A b \in Buttons : d.buttons[b] \in Nat /\ e.buttons[b] \in Nat
  BY CountsAre
<1> SUFFICES ASSUME NEW i \in Pending(d) \cup {Len(d.inbox) + 1}
             PROVE  Len(e.ticket) + Len(e.buffer) < i /\ \A b \in Buttons : e.buttons[b] < i
  BY <1>1 DEF Brought
<1>3. i \in Nat /\ Len(d.ticket) + Len(d.buffer) < i /\ \A b \in Buttons : d.buttons[b] < i
  <2>1. i \in Nat
    BY <1>1
  <2> QED BY <2>1 DEF Brought
<1>4. \A x, y, z, w, n \in Nat : x + y <= z + w + 0 /\ z + w < n => x + y < n
  OBVIOUS
<1>5. Len(e.ticket) + Len(e.buffer) < i
  BY <1>2, <1>3, <1>4 DEF Brings
<1>6. \A x, y, n \in Nat : x <= y + 0 /\ y < n => x < n
  OBVIOUS
<1> QED BY <1>2, <1>3, <1>5, <1>6 DEF Brings

\* The oldest input may bring one of each: then it is handled.
LEMMA BroughtByOldest ==
  ASSUME NEW d, NEW g, Good(d), Good(g), Brought(d), Brings(d, g, 1),
         NEW i \in Pending(d), \A k \in Pending(d) : i <= k,
         NEW e, e = Handled(g, i)
  PROVE  Brought(e)
<1>1. /\ Typed(d) /\ Typed(g) /\ Len(d.inbox) \in Nat /\ d.inbox \in Seq(Input)
      /\ Pending(d) \subseteq 1 .. Len(d.inbox) /\ DOMAIN d.inbox = 1 .. Len(d.inbox)
  BY Domains DEF Good, Typed, Pending
<1>2. /\ Len(d.ticket) \in Nat /\ Len(d.buffer) \in Nat /\ Len(g.ticket) \in Nat /\ Len(g.buffer) \in Nat
      /\ \A b \in Buttons : d.buttons[b] \in Nat /\ g.buttons[b] \in Nat
  BY <1>1, CountsAre
<1>3. /\ e.ticket = g.ticket /\ e.buffer = g.buffer /\ e.buttons = g.buttons
      /\ e.inbox = [d.inbox EXCEPT ![i] = Closed(d.inbox[i], "done")]
  BY <1>1, HasColumns DEF Handled, Columns, Brings
<1>4. Len(e.inbox) = Len(d.inbox)
  BY <1>1, <1>3, ExceptSeq
<1>5. Pending(e) = Pending(d) \ {i}
  <2>1. Closed(d.inbox[i], "done").state = "done"
    <3>1. d.inbox[i] \in Input
      BY <1>1, Domains
    <3> QED BY <3>1 DEF Closed, Input
  <2>2. DOMAIN e.inbox = DOMAIN d.inbox /\ e.inbox[i].state = "done"
          /\ \A k \in DOMAIN d.inbox \ {i} : e.inbox[k] = d.inbox[k]
    BY <1>1, <1>3, <2>1
  <2> QED BY <2>2 DEF Pending
<1> SUFFICES ASSUME NEW j \in Pending(e) \cup {Len(d.inbox) + 1}
             PROVE  Len(g.ticket) + Len(g.buffer) < j /\ \A b \in Buttons : g.buttons[b] < j
  BY <1>3, <1>4 DEF Brought
<1>6. i \in Nat /\ j \in Nat /\ i + 1 <= j
  BY <1>1, <1>5
<1>7. Len(d.ticket) + Len(d.buffer) < i /\ \A b \in Buttons : d.buttons[b] < i
  BY DEF Brought
<1>8. \A x, y, z, w, n, m \in Nat : x + y <= z + w + 1 /\ z + w < n /\ n + 1 <= m => x + y < m
  OBVIOUS
<1>9. Len(g.ticket) + Len(g.buffer) < j
  BY <1>2, <1>6, <1>7, <1>8 DEF Brings
<1>10. \A x, y, n, m \in Nat : x <= y + 1 /\ y < n /\ n + 1 <= m => x < m
  OBVIOUS
<1> QED BY <1>2, <1>6, <1>7, <1>9, <1>10 DEF Brings

\* An input that is recorded comes after what the others have brought.
LEMMA BroughtByRecorded ==
  ASSUME NEW d, Typed(d), Brought(d), NEW kind, NEW button, NEW target, Typed(Recorded(d, kind, button, target))
  PROVE  Brought(Recorded(d, kind, button, target))
<1> DEFINE e == Recorded(d, kind, button, target)
<1>1. /\ Len(d.inbox) \in Nat /\ Pending(d) \subseteq 1 .. Len(d.inbox) /\ DOMAIN d.inbox = 1 .. Len(d.inbox)
      /\ Columns \subseteq DOMAIN d /\ d.inbox \in Seq(Input)
  BY Domains, HasColumns DEF Typed, Pending
<1>2. PICK row : /\ e.inbox = Append(d.inbox, row) /\ DOMAIN e.ticket = DOMAIN d.ticket
                 /\ e.buffer = d.buffer /\ e.buttons = d.buttons
  BY <1>1 DEF Recorded, Columns
<1> HIDE DEF e
<1>3. Len(e.ticket) = Len(d.ticket)
  BY <1>2, SameLength DEF e
<1>4. /\ Len(e.inbox) = Len(d.inbox) + 1
      /\ \A k \in 1 .. Len(d.inbox) : e.inbox[k] = d.inbox[k]
      /\ DOMAIN e.inbox = 1 .. Len(d.inbox) + 1
  <2>1. e.inbox = [k \in 1 .. Len(d.inbox) + 1 |-> IF k = Len(d.inbox) + 1 THEN row ELSE d.inbox[k]]
    BY <1>2 DEF Append
  <2>2. Len(e.inbox) \in Nat /\ DOMAIN e.inbox = 1 .. Len(e.inbox)
    BY Domains DEF e
  <2>3. DOMAIN e.inbox = 1 .. Len(d.inbox) + 1
    BY <2>1
  <2>4. ASSUME NEW n \in Nat, NEW m \in Nat, 1 .. n = 1 .. m + 1
        PROVE  n = m + 1
    <3>1. (n # 0 => n \in 1 .. m + 1) /\ m + 1 \in 1 .. n
      BY <2>4
    <3> QED BY <3>1
  <2>5. Len(e.inbox) = Len(d.inbox) + 1
    BY <1>1, <2>2, <2>3, <2>4
  <2>6. ASSUME NEW k \in 1 .. Len(d.inbox)
        PROVE  e.inbox[k] = d.inbox[k]
    <3>1. k \in 1 .. Len(d.inbox) + 1 /\ k # Len(d.inbox) + 1
      BY <1>1
    <3> QED BY <2>1, <3>1
  <2> QED BY <2>3, <2>5, <2>6
<1> SUFFICES ASSUME NEW j \in Pending(e) \cup {Len(d.inbox) + 1 + 1}
             PROVE  Len(d.ticket) + Len(d.buffer) < j /\ \A b \in Buttons : d.buttons[b] < j
  BY <1>2, <1>3, <1>4 DEF Brought, e
<1>5. j \in Nat /\ (j \in Pending(d) \/ Len(d.inbox) + 1 <= j)
  <2>1. (j \in DOMAIN e.inbox /\ e.inbox[j].state = "pending") \/ j = Len(d.inbox) + 1 + 1
    BY DEF Pending
  <2>2. CASE j = Len(d.inbox) + 1 + 1
    BY <1>1, <2>2
  <2>3. CASE j \in DOMAIN e.inbox /\ e.inbox[j].state = "pending"
    <3>1. j \in 1 .. Len(d.inbox) \/ j = Len(d.inbox) + 1
      BY <1>1, <1>4, <2>3
    <3> QED BY <1>1, <1>4, <2>3, <3>1 DEF Pending
  <2> QED BY <2>1, <2>2, <2>3
<1>6. \E i \in Nat : i <= j /\ Len(d.ticket) + Len(d.buffer) < i /\ \A b \in Buttons : d.buttons[b] < i
  <2>1. \A i \in Pending(d) \cup {Len(d.inbox) + 1} :
           Len(d.ticket) + Len(d.buffer) < i /\ \A b \in Buttons : d.buttons[b] < i
    BY DEF Brought
  <2>2. CASE j \in Pending(d)
    <3>1. j <= j
      BY <1>5
    <3> QED BY <1>5, <2>1, <2>2, <3>1
  <2>3. CASE Len(d.inbox) + 1 <= j
    <3>1. Len(d.inbox) + 1 \in Nat
      BY <1>1
    <3> QED BY <2>1, <2>3, <3>1
  <2> QED BY <1>5, <2>2, <2>3
<1>7. \A x, y, n, m \in Nat : (x + y < n /\ n <= m => x + y < m) /\ (x < n /\ n <= m => x < m)
  OBVIOUS
<1> QED BY <1>5, <1>6, <1>7, CountsAre

LEMMA EraseBrings ==
  ASSUME Good(db), Typed(db'), Brought(db), EraseClient
  PROVE  Brought(db)'
<1> DEFINE g == ForgetPending(db)
<1>1. PICK inbox, tickets, client :
        LET h == [g EXCEPT !.inbox = inbox, !.ticket = tickets, !.client = client]
        IN /\ DOMAIN tickets = DOMAIN g.ticket /\ DOMAIN inbox = DOMAIN g.inbox
           /\ \A i \in DOMAIN inbox : inbox[i].state # "pending"
           /\ db' = Purge(h, Tickets(db))
  <2> DEFINE ib == [i \in DOMAIN g.inbox |-> IF g.inbox[i].state = "pending"
                                            THEN Closed(g.inbox[i], "discarded") ELSE g.inbox[i]]
  <2> DEFINE tk == [t \in DOMAIN g.ticket |-> IF g.ticket[t].status # "closed" THEN Ended(g.ticket[t])
                                              ELSE g.ticket[t]]
  <2> DEFINE cl == [Withdrawn(g.client) EXCEPT !.erased = TRUE]
  <2>1. Typed(db) /\ g.inbox = db.inbox /\ Columns \subseteq DOMAIN g
    BY ForgetCounts DEF Good
  <2>2. db' = Purge([g EXCEPT !.inbox = ib, !.ticket = tk, !.client = cl], Tickets(db))
    BY <2>1 DEF EraseClient, Columns
  <2>3. ASSUME NEW i \in DOMAIN g.inbox
        PROVE  ib[i].state # "pending"
    <3>1. g.inbox[i] \in Input
      BY <2>1, Domains
    <3>2. Closed(g.inbox[i], "discarded").state = "discarded"
      BY <3>1 DEF Closed, Input
    <3> QED BY <3>2
  <2>4. DOMAIN tk = DOMAIN g.ticket /\ DOMAIN ib = DOMAIN g.inbox
    OBVIOUS
  <2> HIDE DEF g, ib, tk, cl
  <2> QED BY <2>2, <2>3, <2>4
<1> DEFINE h == [g EXCEPT !.inbox = inbox, !.ticket = tickets, !.client = client]
<1>2. /\ Typed(db) /\ g.inbox = db.inbox /\ g.ticket = db.ticket /\ g.buffer = <<>>
      /\ g.buttons = [b \in Buttons |-> 0] /\ Columns \subseteq DOMAIN g
  BY ForgetCounts DEF Good
<1> HIDE DEF g
<1>3. /\ h.inbox = inbox /\ h.ticket = tickets /\ h.buffer = <<>> /\ h.buttons = [b \in Buttons |-> 0]
      /\ Columns \subseteq DOMAIN h
  BY <1>2 DEF Columns
<1>4. db' = Purge(h, Tickets(db))
  BY <1>1
<1> HIDE DEF h
<1>5. Leaves(h, db')
  BY <1>3, <1>4, PurgeLeaves
<1>6. /\ db'.inbox = inbox /\ DOMAIN db'.ticket = DOMAIN db.ticket
      /\ db'.buffer = <<>> /\ db'.buttons = [b \in Buttons |-> 0]
  BY <1>1, <1>2, <1>3, <1>5 DEF Leaves
<1>7. Len(db'.ticket) = Len(db.ticket) /\ Len(db'.inbox) \in Nat /\ Len(db.inbox) \in Nat
        /\ Len(db.ticket) \in Nat /\ Len(db.buffer) \in Nat /\ Len(db'.buffer) = 0
  BY <1>2, <1>6, SameLength, CountsAre, EmptySeq
<1>8. Pending(db)' = {}
  BY <1>1, <1>6 DEF Pending
<1>9. Len(db'.inbox) = Len(db.inbox)
  <2>1. DOMAIN db'.inbox = 1 .. Len(db'.inbox) /\ DOMAIN db.inbox = 1 .. Len(db.inbox)
    BY <1>2, Domains
  <2>2. 1 .. Len(db'.inbox) = 1 .. Len(db.inbox)
    BY <1>1, <1>2, <1>6, <2>1
  <2>3. ASSUME NEW n \in Nat, NEW m \in Nat, 1 .. n = 1 .. m
        PROVE  n = m
    <3>1. (n # 0 => n \in 1 .. m) /\ (m # 0 => m \in 1 .. n)
      BY <2>3
    <3> QED BY <3>1
  <2> QED BY <1>7, <2>2, <2>3
<1>10. Len(db.ticket) + Len(db.buffer) < Len(db.inbox) + 1
  BY DEF Brought
<1>11. Len(db'.ticket) + Len(db'.buffer) < Len(db'.inbox) + 1
  <2>1. \A x, y, n \in Nat : x + y < n + 1 => x + 0 < n + 1
    OBVIOUS
  <2>2. Len(db.ticket) + 0 < Len(db.inbox) + 1
    BY <1>7, <1>10, <2>1
  <2> QED BY <1>7, <1>9, <2>2
<1>12. \A b \in Buttons : db'.buttons[b] < Len(db'.inbox) + 1
  BY <1>6, <1>7
<1> QED BY <1>8, <1>11, <1>12 DEF Brought

LEMMA ExpiryBrings ==
  ASSUME Typed(db), Typed(db'), ExpireBuffers
  PROVE  Brings(db, db', 0)
<1> DEFINE m == Len(db.buffer)
<1>1. PICK n \in 1 .. m : db' = [db EXCEPT !.buffer = SubSeq(@, n + 1, Len(@))]
  BY DEF ExpireBuffers
<1>2. Columns \subseteq DOMAIN db
  BY HasColumns
<1>3. /\ db'.inbox = db.inbox /\ db'.ticket = db.ticket /\ db'.buttons = db.buttons
      /\ db'.buffer = SubSeq(db.buffer, n + 1, m)
  BY <1>1, <1>2 DEF Columns
<1>4. Len(db.ticket) \in Nat /\ m \in Nat /\ \A b \in Buttons : db.buttons[b] \in Nat
  BY CountsAre
<1>5. Len(db'.buffer) \in Nat /\ Len(db'.buffer) <= m
  <2>1. \A i \in 1 .. m : db.buffer[i] \in Buffered
    BY Domains
  <2>2. n + 1 \in Int /\ m \in Int /\ \A i \in n + 1 .. m : db.buffer[i] \in Buffered
    BY <1>4, <2>1
  <2>3. Len(db'.buffer) = IF n + 1 <= m THEN m - (n + 1) + 1 ELSE 0
    BY <1>3, <2>2, SubSeqProperties
  <2> QED BY <1>4, <2>3
<1>6. Len(db'.ticket) + Len(db'.buffer) <= Len(db.ticket) + Len(db.buffer) + 0
  <2>1. \A x, y, z \in Nat : y <= z => x + y <= x + z + 0
    OBVIOUS
  <2> QED BY <1>3, <1>4, <1>5, <2>1
<1>7. \A b \in Buttons : db'.buttons[b] <= db.buttons[b] + 0
  BY <1>3, <1>4
<1> QED BY <1>3, <1>6, <1>7 DEF Brings

LEMMA ProcessBrought ==
  ASSUME Good(db), Brought(db), Process
  PROVE  Brought(db)'
<1> DEFINE i == Oldest(db)
<1>1. Pending(db) # {} /\ Typed(db)
  BY DEF Process, Good
<1>2. PICK usable \in BOOLEAN, n \in 0 .. Len(db.buffer) :
         db' = [RouteInput(db, i, usable, n) EXCEPT !.inbox[i] = Closed(@, "done")]
  BY DEF Process
<1>3. i \in Pending(db) /\ \A k \in Pending(db) : i <= k
  BY <1>1, OldestIs
<1> DEFINE g == RouteInput(db, i, usable, n)
<1> HIDE DEF i
<1>4. Good(g) /\ Brings(db, g, 1)
  BY <1>3, RouteKeeps, RouteBrings
<1> HIDE DEF g
<1>5. db' = Handled(g, i)
  <2>1. db' = [g EXCEPT !.inbox[i] = Closed(@, "done")]
    BY <1>2 DEF g
  <2>2. Typed(g)
    BY <1>4 DEF Good
  <2> QED BY <2>1, <2>2 DEF Handled, Typed
<1> DEFINE e == Handled(g, i)
<1>6. Brought(e)
  BY <1>3, <1>4, BroughtByOldest
<1> QED BY <1>5, <1>6 DEF Brought, Pending

LEMMA RecordBrought ==
  ASSUME Good(db), Good(db'), Brought(db), Record \/ IngestConsented
  PROVE  Brought(db)'
<1>1. Typed(db) /\ Typed(db') /\ Columns \subseteq DOMAIN db
  BY HasColumns DEF Good
<1>2. ASSUME NEW d, Typed(d), Brought(d), NEW kind, NEW button, NEW target,
             db' = Recorded(d, kind, button, target)
      PROVE  Brought(db)'
  <2> DEFINE e == Recorded(d, kind, button, target)
  <2>1. Brought(e)
    BY <1>1, <1>2, BroughtByRecorded
  <2> QED BY <1>2, <2>1 DEF Brought, Pending
<1>3. CASE Record
  <2>1. \E kind, button, target : db' = Recorded(db, kind, button, target)
    BY <1>3 DEF Record
  <2> QED BY <1>1, <1>2, <2>1
<1>4. CASE IngestConsented
  <2> DEFINE g == IF Grantable(db) THEN GrantConsent(db) ELSE db
  <2>1. ~db.client.erased /\ db' = Recorded(g, "text", NoButton, 0)
    BY <1>4 DEF IngestConsented
  <2>2. Typed(g)
    BY <1>1, <2>1, GrantKeeps DEF Good
  <2>3. Leaves(db, g)
    <3>1. Leaves(db, db) /\ Leaves(db, GrantConsent(db))
      BY <1>1 DEF Leaves, GrantConsent, Columns
    <3> QED BY <3>1
  <2> HIDE DEF g
  <2>4. Brought(g)
    BY <1>1, <2>2, <2>3, LeavesBrings, BroughtStays
  <2> QED BY <1>2, <2>1, <2>2, <2>4
<1> QED BY <1>3, <1>4

LEMMA BroughtKept ==
  ASSUME Good(db), Good(db'), Brought(db), [Next]_vars
  PROVE  Brought(db)'
<1>1. Typed(db) /\ Typed(db') /\ Columns \subseteq DOMAIN db
  BY HasColumns DEF Good
<1>2. ASSUME Brings(db, db', 0)
      PROVE  Brought(db)'
  <2> DEFINE Bound(e) == Brought(e)
  <2>1. Bound(db')
    BY <1>1, <1>2, BroughtStays
  <2> QED BY <2>1 DEF Brought, Pending
<1>3. ASSUME Leaves(db, db')
      PROVE  Brought(db)'
  BY <1>1, <1>2, <1>3, LeavesBrings
<1>4. CASE UNCHANGED vars
  <2>1. Leaves(db, db')
    BY <1>4 DEF vars, Leaves
  <2> QED BY <1>3, <2>1
<1>5. CASE Usually(Record) \/ Usually(IngestConsented)
  BY <1>5, RecordBrought DEF Usually
<1>6. CASE Usually(Process)
  BY <1>6, ProcessBrought DEF Usually
<1>7. CASE Usually(StaffCommand) \/ Rarely(StaffSpecial)
  BY <1>1, <1>3, <1>7, StaffLeaves DEF Usually, Rarely
<1>8. CASE Usually(ClosingJob) \/ Usually(Sender)
  BY <1>1, <1>3, <1>8, JobLeaves, SenderLeaves DEF Usually
<1>9. CASE Usually(WaitingTimer) \/ Usually(CycleExpires) \/ Usually(RatingTimer)
  BY <1>1, <1>3, <1>9, TimersLeave DEF Usually
<1>10. CASE Rarely(ExpireBuffers)
  BY <1>1, <1>2, <1>10, ExpiryBrings DEF Rarely
<1>11. CASE Usually(ReviseDeferred) \/ Rarely(PublishPolicy) \/ Rarely(Retention)
  BY <1>1, <1>3, <1>11, RetentionLeaves DEF Usually, Rarely
<1>12. CASE Rarely(EraseClient)
  BY <1>1, <1>12, EraseBrings DEF Rarely
<1>13. CASE Rarely(Broadcast)
  BY <1>1, <1>3, <1>13, BroadcastLeaves DEF Rarely
<1> QED BY <1>4, <1>5, <1>6, <1>7, <1>8, <1>9, <1>10, <1>11, <1>12, <1>13 DEF Next

\* No ticket, kept message or button without an input of the client that has been handled: an input
\* opens one ticket or is kept once, whichever of consent, buttons and expiry comes in between.
THEOREM BroughtByInputs == Spec => [](Brought(db))
<1>1. Init => Brought(db)
  <2> SUFFICES ASSUME Init PROVE Brought(db)
    OBVIOUS
  <2>1. /\ db.inbox = <<>> /\ db.ticket = <<>> /\ db.buffer = <<>>
        /\ db.buttons = [b \in Buttons |-> 0]
    BY DEF Init
  <2>2. Len(<<>>) = 0 /\ Pending(db) = {}
    BY <2>1, EmptySeq DEF Pending
  <2> QED BY <2>1, <2>2 DEF Brought
<1>2. Brought(db) /\ ConversationInv /\ ConversationInv' /\ [Next]_vars => Brought(db)'
  <2> SUFFICES ASSUME Brought(db), ConversationInv, ConversationInv', [Next]_vars
               PROVE  Brought(db)'
    OBVIOUS
  <2>1. Good(db) /\ Good(db')
    BY DEF ConversationInv, Good, Typed, OneOpen, WithConsent, Cycled, Counted, Messaged, Emptied,
           Ordered, Handleable, Asking, Heard, Answering, Addressed
  <2> QED BY <2>1, BroughtKept
<1> QED BY Invariant, <1>1, <1>2, PTL DEF Spec

\* The bounds of the rows follow from the count: a ticket and a button have an input of their own.
LEMMA RowsBounded ==
  ASSUME Good(db), Brought(db), rare \in 0 .. MaxRare
  PROVE  TypeOK
<1>1. Typed(db) /\ Columns \subseteq DOMAIN db
  BY HasColumns DEF Good
<1>2. /\ Len(db.ticket) \in Nat /\ Len(db.buffer) \in Nat /\ Len(db.inbox) \in Nat
      /\ Len(db.inbox) <= MaxInputs /\ MaxInputs \in Nat
      /\ \A b \in Buttons : db.buttons[b] \in Nat
  BY <1>1, CountsAre, BoundsAssumption DEF Typed
<1>3. Tickets(db) \subseteq 1 .. MaxInputs /\ Len(db.ticket) <= MaxInputs
  <2>1. Len(db.ticket) + Len(db.buffer) < Len(db.inbox) + 1
    BY DEF Brought
  <2>2. \A x, y, n, m \in Nat : x + y < n + 1 /\ n <= m => x <= m
    OBVIOUS
  <2>3. Len(db.ticket) <= MaxInputs
    BY <1>2, <2>1, <2>2
  <2>4. Tickets(db) = 1 .. Len(db.ticket)
    BY <1>1, Domains
  <2> QED BY <1>2, <2>3, <2>4
<1>4. db.buttons \in [Buttons -> 0 .. MaxInputs]
  <2>1. \A b \in Buttons : db.buttons[b] < Len(db.inbox) + 1
    BY DEF Brought
  <2>2. \A x, n, m \in Nat : x < n + 1 /\ n <= m => x \in 0 .. m
    OBVIOUS
  <2>3. \A b \in Buttons : db.buttons[b] \in 0 .. MaxInputs
    BY <1>2, <2>1, <2>2
  <2>4. db.buttons \in [Buttons -> Nat]
    BY <1>1 DEF Typed
  <2> QED BY <2>3, <2>4
<1>5. db.cycle \in Seq(Cycle)
  <2>1. db.cycle \in Seq(AnyCycle) /\ Len(db.cycle) \in Nat /\ DOMAIN db.cycle = 1 .. Len(db.cycle)
    BY <1>1, Domains DEF Typed
  <2>2. ASSUME NEW c \in 1 .. Len(db.cycle)
        PROVE  db.cycle[c] \in Cycle
    <3>1. db.cycle[c] \in AnyCycle /\ db.cycle[c].ticket \in 1 .. MaxInputs
      BY <1>1, <1>3, <2>1, Domains DEF Good, Counted
    <3> QED BY <3>1 DEF AnyCycle, Cycle
  <2> QED BY <2>1, <2>2, SeqDef
<1>6. db.message \in [1 .. MaxInputs -> Message]
  <2>1. db.message \in [1 .. MaxInputs -> AnyMessage]
    BY <1>1 DEF Typed
  <2>2. ASSUME NEW i \in 1 .. MaxInputs
        PROVE  db.message[i] \in Message
    <3>1. db.message[i] \in AnyMessage /\ db.message[i].ticket \in 0 .. MaxInputs
      BY <1>2, <1>3, <2>1 DEF Good, Messaged
    <3> QED BY <3>1 DEF AnyMessage, Message
  <2> QED BY <2>1, <2>2
<1>7. db.out \subseteq Outgoing
  <2> SUFFICES ASSUME NEW r \in db.out PROVE r \in Outgoing
    OBVIOUS
  <2>1. r \in AnyDelivery /\ r.ticket \in 1 .. MaxInputs
    BY <1>1, <1>3 DEF Good, Typed, Addressed
  <2> QED BY <2>1 DEF AnyDelivery, Outgoing
<1>8. db.closing \subseteq Closing
  <2> SUFFICES ASSUME NEW j \in db.closing PROVE j \in Closing
    OBVIOUS
  <2>1. j \in AnyClosing /\ j.ticket \in 1 .. MaxInputs
    BY <1>1, <1>3 DEF Good, Typed, Ordered
  <2> QED BY <2>1 DEF AnyClosing, Closing
<1>9. /\ DOMAIN db = {"policy", "client", "buttons", "buffer", "inbox", "ticket", "cycle", "message",
                      "out", "replies", "closing", "revising"}
      /\ db.policy \in Editions /\ db.client \in Client
      /\ db.buffer \in Seq(Buffered) /\ Len(db.buffer) <= MaxBuffered
      /\ db.inbox \in Seq(Input) /\ Len(db.inbox) <= MaxInputs
      /\ db.ticket \in Seq(Ticket) /\ db.replies \in 0 .. MaxReplies /\ db.revising \subseteq Revision
  BY <1>1 DEF Typed
<1> QED BY <1>4, <1>5, <1>6, <1>7, <1>8, <1>9 DEF TypeOK, Revision

\* Every row keeps its type and its bounds.
THEOREM ConversationTyped == Spec => []TypeOK
<1> DEFINE Bounded == rare \in 0 .. MaxRare
<1>1. Init => Bounded
  BY BoundsAssumption DEF Init
<1>2. Bounded /\ [Next]_vars => Bounded'
  <2> SUFFICES ASSUME rare \in 0 .. MaxRare, [Next]_vars
               PROVE  rare' \in 0 .. MaxRare
    OBVIOUS
  <2>1. rare' = rare \/ (rare < MaxRare /\ rare' = rare + 1)
    BY DEF Next, vars, Usually, Rarely
  <2>2. MaxRare \in Nat
    BY BoundsAssumption
  <2> QED BY <2>1, <2>2
<1>3. ConversationInv /\ Brought(db) /\ Bounded => TypeOK
  BY RowsBounded DEF ConversationInv
<1> HIDE DEF Bounded
<1> QED BY Invariant, BroughtByInputs, <1>1, <1>2, <1>3, PTL DEF Spec
=============================================================================
