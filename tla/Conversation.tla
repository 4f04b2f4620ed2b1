---------------------------- MODULE Conversation ----------------------------
(***************************************************************************)
(* The conversation of one client with support: what he sends (inbox), his *)
(* consent and the messages kept until he gives it, his tickets with their *)
(* closings and ratings, the commands of the staff, the timers, and what   *)
(* erasure and retention remove.                                           *)
(*                                                                         *)
(* Every step is one transaction that holds the row lock of the client, so *)
(* it takes the rows of the client, db, to new rows; only a deferred close *)
(* reads before its transaction.  Texts are named by the input that        *)
(* brought them.  What the client is told matters here only for replies of *)
(* the staff and for the questions of a rating; Delivery has the queue.    *)
(***************************************************************************)
EXTENDS Naturals, Sequences, FiniteSets

CONSTANTS
    Kinds,          \* the kinds of input the client sends
    Share,          \* bound: how many inputs of each kind
    MaxInputs,      \* bound: inputs
    MaxCycles,      \* bound: closings of tickets
    MaxLifecycle,   \* bound: lifecycles of a ticket
    MaxReplies,     \* bound: replies of the staff
    Policies,       \* bound: editions of the policy
    MaxBuffered,    \* MAX_BUFFERED_MESSAGES (5)
    MaxAttempts,    \* MAX_INVALID_ATTEMPTS (3)
    MaxRare         \* bound: steps of the kinds that Rarely lets happen

AllKinds == {"text", "rating", "void", "start", "info", "withdraw", "leave", "press", "edit"}

ASSUME KindsAssumption  == Kinds \subseteq AllKinds /\ Share \in [Kinds -> Nat]
ASSUME BoundsAssumption == {MaxInputs, MaxCycles, MaxLifecycle, MaxReplies, Policies,
                            MaxBuffered, MaxAttempts, MaxRare} \subseteq Nat
                           /\ MaxInputs > 0 /\ Policies > 0

VARIABLES
    db,     \* the rows of the client
    rare    \* bound: how many of the rarer steps have been taken

vars == <<db, rare>>

-----------------------------------------------------------------------------
(* The rows.                                                               *)

\* "void" is a message without text and files, or too long; "start" the start of the bot;
\* "info" a command that only asks for an answer; "withdraw" the command, "leave" the menu entry;
\* "press" a button; "edit" an edit or removal of the message of another input.
Messages == {"text", "rating", "void"}

Actions == {"accept", "decline", "withdraw", "keep"}
Editions == 1 .. Policies
Buttons == Actions \X Editions
NoButton == <<"keep", 0>>

\* asked: the cycle that was waiting for a rating when the input was received, late: after its end.
Input == [kind : AllKinds, button : Buttons \cup {NoButton}, target : 0 .. MaxInputs,
          asked : 0 .. MaxCycles, late : BOOLEAN, state : {"pending", "done", "discarded"}]

Buffered == [input : 1 .. MaxInputs, kind : Messages]

Client == [state : {"absent", "granted", "declined", "withdrawn"}, edition : 0 .. Policies,
           revision : Nat, erased : BOOLEAN]

\* heard: history, the client has written since the ticket began to wait for him.
Ticket == [status : {"open", "in_progress", "awaiting_rating", "closed"}, lifecycle : Nat,
           revision : Nat, cycle : 0 .. MaxCycles, waiting : BOOLEAN,
           heard : BOOLEAN, purged : BOOLEAN]

Reasons == {"", "rated", "expired", "notification_not_delivered", "attempts_exhausted", "auto_closed",
            "incident"}

\* A cycle that is not waited for has no expiry and no attempts any more: nothing reads them.
\* before: history, the last input the inbox had when the rating was asked over pending ones.
Cycle == [ticket : 1 .. MaxInputs, expired : BOOLEAN, attempts : 0 .. MaxAttempts,
          finished : Reasons, invalidated : BOOLEAN, before : 0 .. MaxInputs]

\* A message of the client: its ticket and the input its text is from, 0 once it is erased.
Message == [ticket : 0 .. MaxInputs, text : 0 .. MaxInputs]

\* A delivery that something depends on; number tells the replies apart.
Outgoing == [kind : {"staff", "ticket_closed", "auto_closed"},
             number : 0 .. MaxReplies, ticket : 1 .. MaxInputs, cycle : 0 .. MaxCycles,
             state : {"queued", "sending", "delivered", "undelivered"}]

\* read: the job has read its ticket and message; fresh: the version it read is the current one.
Closing == [ticket : 1 .. MaxInputs, lifecycle : Nat, reply : 1 .. MaxReplies,
            read : BOOLEAN, fresh : BOOLEAN]

TypeOK ==
    /\ rare \in 0 .. MaxRare
    /\ DOMAIN db = {"policy", "client", "buttons", "buffer", "inbox", "ticket", "cycle", "message",
                    "out", "replies", "closing", "revising"}
    /\ db.policy \in Editions
    /\ db.client \in Client
    /\ db.buttons \in [Buttons -> 0 .. MaxInputs]
    /\ db.buffer \in Seq(Buffered) /\ Len(db.buffer) <= MaxBuffered
    /\ db.inbox \in Seq(Input) /\ Len(db.inbox) <= MaxInputs
    /\ db.ticket \in Seq(Ticket)
    /\ db.cycle \in Seq(Cycle)
    /\ db.message \in [1 .. MaxInputs -> Message]
    /\ db.out \subseteq Outgoing
    /\ db.replies \in 0 .. MaxReplies
    /\ db.closing \subseteq Closing
    /\ db.revising \subseteq [input : 1 .. MaxInputs, target : 1 .. MaxInputs]

Init ==
    /\ rare = 0
    /\ db = [policy   |-> 1,
             client   |-> [state |-> "absent", edition |-> 0, revision |-> 0, erased |-> FALSE],
             buttons  |-> [b \in Buttons |-> 0],
             buffer   |-> <<>>,
             inbox    |-> <<>>,
             ticket   |-> <<>>,
             cycle    |-> <<>>,
             message  |-> [i \in 1 .. MaxInputs |-> [ticket |-> 0, text |-> 0]],
             out      |-> {},
             replies  |-> 0,
             closing  |-> {},
             revising |-> {}]

-----------------------------------------------------------------------------
(* Reading and changing rows.                                              *)

Tickets(d) == DOMAIN d.ticket

\* SELECT ... WHERE status<>'closed', of which one_client_slot allows one.
Unclosed(d) == {t \in Tickets(d) : d.ticket[t].status # "closed"}
Current(d)  == IF Unclosed(d) = {} THEN 0 ELSE CHOOSE t \in Unclosed(d) : TRUE

Asked(d) == IF Current(d) # 0 /\ d.ticket[Current(d)].status = "awaiting_rating"
            THEN d.ticket[Current(d)].cycle ELSE 0

Pending(d) == {i \in DOMAIN d.inbox : d.inbox[i].state = "pending"}

\* Every change of a ticket, and every message added to it, raises its version.
Outdated(jobs, t) == {IF j.ticket = t THEN [j EXCEPT !.fresh = FALSE] ELSE j : j \in jobs}
Touch(d, t)       == [d EXCEPT !.closing = Outdated(@, t)]
Change(d, t, row) == [d EXCEPT !.ticket[t] = row, !.closing = Outdated(@, t)]

Queue(d, kind, number, t, c) ==
    [d EXCEPT !.out = @ \cup {[kind |-> kind, number |-> number, ticket |-> t, cycle |-> c,
                               state |-> "queued"]}]

\* A delivery is looked at again while a job waits for the reply, or its rating is asked for.
Kept(d, r) ==
    \/ r.state \in {"queued", "sending"}
    \/ r.kind = "staff" /\ \E j \in d.closing : j.reply = r.number
    \/ r.kind = "ticket_closed" /\ d.cycle[r.cycle].finished = ""

Settle(d, S, state) ==
    [d EXCEPT !.out = {r \in (@ \ S) \cup {[q EXCEPT !.state = state] : q \in S} : Kept(d, r)}]

Queued(d) == {r \in d.out : r.state = "queued"}

CancelClientDeliveries(d)   == Settle(d, Queued(d), "undelivered")
CancelCycleDeliveries(d, c) == Settle(d, {r \in Queued(d) : r.cycle = c}, "undelivered")

Invalidate(d, T) ==
    [d EXCEPT !.cycle = [c \in DOMAIN @ |-> IF @[c].ticket \in T
                                            THEN [@[c] EXCEPT !.invalidated = TRUE] ELSE @[c]]]

NewCycle(t) == [ticket |-> t, expired |-> FALSE, attempts |-> 0, finished |-> "", invalidated |-> FALSE,
                before |-> 0]
Over(row, reason) == [row EXCEPT !.expired = FALSE, !.attempts = 0, !.finished = reason, !.before = 0]

-----------------------------------------------------------------------------
(* Consent.                                                                *)

\* Variants named X_... are plausible slips of X; each breaks a property (see README).
Buffer_Unlimited(d, i, kind) == [d EXCEPT !.buffer = Append(@, [input |-> i, kind |-> kind])]

Buffer(d, i, kind) ==
    IF Len(d.buffer) < MaxBuffered
    THEN [d EXCEPT !.buffer = Append(@, [input |-> i, kind |-> kind])]
    ELSE d

Offer(d, actions) ==
    [d EXCEPT !.buttons = [b \in Buttons |-> IF b \in actions \X {d.policy} THEN @[b] + 1 ELSE @[b]]]

SendConsentPrompt(d) == Offer(d, {"accept", "decline"})

Consented(d) ==
    d.client.state = "granted" /\ (Current(d) # 0 \/ d.client.edition = d.policy)

\* An input that does not pass the gate: a message is kept, and consent is asked for.
AskConsent(d, i, kind) ==
    SendConsentPrompt(IF kind \in Messages THEN Buffer(d, i, kind) ELSE d)

Grantable(d) == ~(d.client.state = "granted" /\ d.client.edition = d.policy)

GrantConsent(d) ==
    [d EXCEPT !.client.state = "granted", !.client.edition = d.policy, !.client.revision = @ + 1]

DeclineConsent_Granted(d) == [d EXCEPT !.client.state = "declined", !.buffer = <<>>]

DeclineConsent(d) ==
    IF d.client.state = "granted" THEN d
    ELSE [d EXCEPT !.client.state = "declined", !.buffer = <<>>]

\* Withdrawal closes every ticket again, also the closed ones.
ForgetPending(d) ==
    CancelClientDeliveries([d EXCEPT !.buffer = <<>>, !.buttons = [b \in Buttons |-> 0]])

Withdrawn(client) == [client EXCEPT !.state = "withdrawn", !.revision = @ + 1]
Ended(row)        == [row EXCEPT !.status = "closed", !.lifecycle = @ + 1]

WithdrawConsent(d) ==
    LET told == [ForgetPending(d) EXCEPT
                    !.client = IF @.state = "withdrawn" THEN @ ELSE Withdrawn(@),
                    !.ticket = [t \in DOMAIN @ |-> Ended(@[t])],
                    !.closing = {[j EXCEPT !.fresh = FALSE] : j \in @}]
    IN Invalidate(told, Tickets(d))

ConfirmWithdrawal(d) ==
    IF d.client.state = "granted" THEN Offer(d, {"withdraw", "keep"}) ELSE WithdrawConsent(d)

-----------------------------------------------------------------------------
(* A message that passed the gate.                                         *)

FinishRating(d, t, reason) ==
    LET c == d.ticket[t].cycle
    IN CancelCycleDeliveries([Change(d, t, [d.ticket[t] EXCEPT !.status = "closed"])
                                 EXCEPT !.cycle[c] = Over(@, reason)], c)

InvalidAnswer(d, t) ==
    LET c    == d.ticket[t].cycle
        told == [d EXCEPT !.cycle[c].attempts = @ + 1]
    IN IF told.cycle[c].attempts >= MaxAttempts
       THEN FinishRating(told, t, "attempts_exhausted")
       ELSE Touch(told, t)

AcceptRating(d, t, kind, late) ==
    CASE late                      -> FinishRating(d, t, "expired")
      [] ~late /\ kind = "rating"  -> FinishRating(d, t, "rated")
      [] ~late /\ kind # "rating"  -> InvalidAnswer(d, t)

OpenTicket(d) ==
    [d EXCEPT !.ticket = Append(@, [status |-> "open", lifecycle |-> 1, revision |-> d.client.revision,
                                    cycle |-> 0, waiting |-> FALSE,
                                    heard |-> FALSE, purged |-> FALSE])]

Resume(d, t) == Change(d, t, [d.ticket[t] EXCEPT !.waiting = FALSE, !.heard = FALSE])

AddClientMessage(d, i, t) == Touch([d EXCEPT !.message[i] = [ticket |-> t, text |-> i]], t)

ContinueTicket_Waits(d, i, t) == AddClientMessage(d, i, t)

ContinueTicket(d, i, t) == AddClientMessage(IF d.ticket[t].waiting THEN Resume(d, t) ELSE d, i, t)
NewTicket(d, i)         == AddClientMessage(OpenTicket(d), i, Len(d.ticket) + 1)

HandleContent(d, i, kind, late) ==
    LET t == Current(d) IN
    CASE t # 0 /\ d.ticket[t].status = "awaiting_rating"                  -> AcceptRating(d, t, kind, late)
      [] t # 0 /\ d.ticket[t].status # "awaiting_rating" /\ kind # "void" -> ContinueTicket(d, i, t)
      [] t = 0 /\ kind # "void"                                           -> NewTicket(d, i)
      [] OTHER                                                            -> d

\* The kept messages are handled in their order.
Released(d, kept) ==
    LET handled[k \in 0 .. Len(kept)] ==
            IF k = 0 THEN d
            ELSE HandleContent(handled[k - 1], kept[k].input, kept[k].kind, FALSE)
    IN handled[Len(kept)]

\* The n oldest kept messages have expired.
AcceptConsent(d, n) ==
    IF Grantable(d)
    THEN [Released(GrantConsent(d), SubSeq(d.buffer, n + 1, Len(d.buffer))) EXCEPT !.buffer = <<>>]
    ELSE d

-----------------------------------------------------------------------------
(* Edits and removals of messages.                                         *)

Revise(d, i, target) ==
    LET t == d.message[target].ticket IN
    Invalidate(Touch([d EXCEPT !.message[target].text = i], t), {t})

ReviseClientMessage_Anyone(d, i, target) ==
    IF d.message[target].ticket = 0 THEN [d EXCEPT !.revising = @ \cup {[input |-> i, target |-> target]}]
    ELSE Revise(d, i, target)

ReviseClientMessage(d, i, target) ==
    CASE d.client.state # "granted"                                  -> d
      [] d.client.state = "granted" /\ d.message[target].ticket = 0  -> [d EXCEPT !.revising = @ \cup {[input |-> i, target |-> target]}]
      [] d.client.state = "granted" /\ d.message[target].ticket # 0  -> Revise(d, i, target)

-----------------------------------------------------------------------------
(* The inbox.                                                              *)

Recorded(d, kind, button, target) ==
    LET c == Asked(d)
        t == Current(d)
    IN [d EXCEPT
          !.inbox = Append(@, [kind |-> kind, button |-> button, target |-> target, asked |-> c,
                               late |-> c # 0 /\ d.cycle[c].expired, state |-> "pending"]),
          !.ticket = IF t # 0 /\ kind \in {"text", "rating"} /\ @[t].waiting
                     THEN [@ EXCEPT ![t].heard = TRUE] ELSE @]

\* MAX hands over an update; a repeated one is answered and not recorded again.
Record ==
    /\ ~db.client.erased
    /\ Len(db.inbox) < MaxInputs
    /\ \E kind \in Kinds :
         /\ Cardinality({i \in DOMAIN db.inbox : db.inbox[i].kind = kind}) < Share[kind]
         /\ \E button \in IF kind = "press" THEN {b \in Buttons : db.buttons[b] > 0} ELSE {NoButton},
               target \in IF kind = "edit" THEN 1 .. Len(db.inbox) + 2 ELSE {0} :
              /\ target # Len(db.inbox) + 1
              /\ target <= MaxInputs
              /\ db' = Recorded(db, kind, button, target)

\* The loader of test data grants the consent of a synthetic client with his first message.
IngestConsented ==
    /\ db.inbox = <<>> /\ ~db.client.erased
    /\ db' = Recorded(IF Grantable(db) THEN GrantConsent(db) ELSE db, "text", NoButton, 0)

Pressed(d, b) == [d EXCEPT !.buttons[b] = @ - 1]

\* A button works once and for thirty minutes: usable is whether this press is in time.
HandleButton(d, b, usable, n) ==
    LET e == Pressed(d, b) IN
    CASE ~usable \/ d.buttons[b] = 0 -> d
      [] OTHER ->
         CASE b[1] = "withdraw"                                         -> WithdrawConsent(e)
           [] b[1] = "keep"                                             -> e
           [] b[1] \in {"accept", "decline"} /\ b[2] # d.policy         -> SendConsentPrompt(e)
           [] b[1] = "accept" /\ b[2] = d.policy                        -> AcceptConsent(e, n)
           [] b[1] = "decline" /\ b[2] = d.policy                       -> DeclineConsent(e)

\* It was received after the end of the rating that is asked for now.
Late(d, row) == row.late /\ row.asked = Asked(d)

RouteMessage(d, i, row) ==
    CASE ~Consented(d)                                -> AskConsent(d, i, row.kind)
      [] Consented(d) /\ row.kind = "start"           -> d
      [] Consented(d) /\ row.kind \in Messages        -> HandleContent(d, i, row.kind, Late(d, row))

RouteInput(d, i, usable, n) ==
    LET row == d.inbox[i] IN
    CASE row.kind = "press"                 -> HandleButton(d, row.button, usable, n)
      [] row.kind = "edit"                  -> ReviseClientMessage(d, i, row.target)
      [] row.kind = "withdraw"              -> WithdrawConsent(d)
      [] row.kind = "leave"                 -> ConfirmWithdrawal(d)
      [] row.kind = "info"                  -> d
      [] row.kind \in Messages \cup {"start"} -> RouteMessage(d, i, row)

Closed(row, state) == [row EXCEPT !.state = state, !.button = NoButton, !.target = 0,
                                     !.asked = 0, !.late = FALSE]

Oldest(d) == CHOOSE i \in Pending(d) : \A k \in Pending(d) : i <= k

Process ==
    /\ Pending(db) # {}
    /\ LET i == Oldest(db) IN
       \E usable \in BOOLEAN, n \in 0 .. Len(db.buffer) :
          db' = [RouteInput(db, i, usable, n) EXCEPT !.inbox[i] = Closed(@, "done")]

\* PreconsentExpiry: the n oldest kept messages have expired.
ExpireBuffers ==
    \E n \in 1 .. Len(db.buffer) : db' = [db EXCEPT !.buffer = SubSeq(@, n + 1, Len(@))]

\* A job made for an edit that came before its message; it is run again until there is one.
ReviseDeferred ==
    \E job \in db.revising :
       /\ db.message[job.target].ticket # 0
       /\ db' = ReviseClientMessage([db EXCEPT !.revising = @ \ {job}], job.input, job.target)

PublishPolicy == db.policy < Policies /\ db' = [db EXCEPT !.policy = @ + 1]

-----------------------------------------------------------------------------
(* Commands of the staff.  A command with an outdated version is refused,  *)
(* so the ones that are carried out have seen the ticket as it is.         *)

Workable(d, t) == d.client.state = "granted" /\ d.client.revision = d.ticket[t].revision

Command(t, S) == Workable(db, t) /\ db.ticket[t].status \in S

InFlight(d, t) == \E r \in d.out : r.kind = "staff" /\ r.ticket = t /\ r.state \in {"queued", "sending"}
NothingInFlight_Replies(d, t) == ~InFlight(d, t)

NothingInFlight(d, t) == ~InFlight(d, t) /\ Pending(d) = {}

Assign(t) ==
    /\ Command(t, {"open"})
    /\ db' = Change(db, t, [db.ticket[t] EXCEPT !.status = "in_progress"])

Release(t) ==
    /\ Command(t, {"in_progress"})
    /\ db' = Change(db, t, [db.ticket[t] EXCEPT !.status = "open"])

\* Notes, classification, transfer and team only make the version of the ticket another one here.
Amend(t) ==
    /\ Workable(db, t)
    /\ ~db.ticket[t].purged
    /\ db' = Touch(db, t)

Paused(d, t) ==
    Change(d, t, [d.ticket[t] EXCEPT !.waiting = TRUE, !.heard = FALSE])

Wait(t) ==
    /\ Command(t, {"in_progress"})
    /\ ~db.ticket[t].waiting
    /\ db' = Paused(db, t)

StopWaiting(t) ==
    /\ Command(t, {"in_progress"})
    /\ db.ticket[t].waiting
    /\ db' = Resume(db, t)

\* A reply may close the ticket once it is delivered, and its macro may make the ticket wait.
Reply(t) ==
    /\ Command(t, {"in_progress"})
    /\ db.replies < MaxReplies
    /\ \E close \in BOOLEAN, wait \in BOOLEAN :
         LET n      == db.replies + 1
             queued == Queue(Touch([db EXCEPT !.replies = n], t), "staff", n, t, 0)
             job    == [ticket |-> t, lifecycle |-> db.ticket[t].lifecycle, reply |-> n,
                        read |-> FALSE, fresh |-> FALSE]
             waits  == IF wait /\ ~db.ticket[t].waiting THEN Paused(queued, t) ELSE queued
         IN db' = IF close THEN [waits EXCEPT !.closing = @ \cup {job}] ELSE waits

\* Where the question of a rating is queued and the ticket waits for the answer.
ClosedBy(d, t) ==
    LET c      == Len(d.cycle) + 1
        closed == Change([d EXCEPT !.cycle = Append(@, NewCycle(t))], t,
                         [d.ticket[t] EXCEPT !.status = "awaiting_rating", !.cycle = c,
                                             !.waiting = FALSE, !.heard = FALSE])
    IN Queue(closed, "ticket_closed", 0, t, c)

Close(t) ==
    /\ Command(t, {"in_progress"})
    /\ Len(db.cycle) < MaxCycles
    /\ NothingInFlight(db, t)
    /\ db' = ClosedBy(db, t)

\* The broadcast of a resolved incident closes its tickets, whoever works on them.  For the first half
\* hour it passes over those with something in flight (Incidents), after that it waits for nothing, so
\* NothingInFlight is no guard here: what is pending is handled after the closing, as an answer to it
\* if a rating is asked.  The message without a rating carries no cycle and matters to nothing here.
ClosedForIncident(d, t, asks) ==
    LET c      == Len(d.cycle) + 1
        cycle  == [NewCycle(t) EXCEPT !.finished = IF asks THEN "" ELSE "incident",
                                      !.before   = IF asks /\ Pending(d) # {} THEN Len(d.inbox) ELSE 0]
        row    == [d.ticket[t] EXCEPT !.status = IF asks THEN "awaiting_rating" ELSE "closed",
                                      !.cycle = c, !.waiting = FALSE, !.heard = FALSE]
        closed == Change([d EXCEPT !.cycle = Append(@, cycle)], t, row)
    IN IF asks THEN Queue(closed, "ticket_closed", 0, t, c) ELSE closed

CloseForIncident(t) ==
    /\ db.client.state = "granted"
    /\ db.ticket[t].status \in {"open", "in_progress"}
    /\ Len(db.cycle) < MaxCycles
    /\ \E asks \in BOOLEAN : db' = ClosedForIncident(db, t, asks)

SlotFree_Always(d, t) == TRUE

SlotFree(d, t) == Unclosed(d) \subseteq {t}

Reopened_Counted(d, t) ==
    LET c     == d.ticket[t].cycle
        ended == IF c = 0 THEN d
                 ELSE [CancelCycleDeliveries(d, c) EXCEPT !.cycle[c] = Over(@, @.finished)]
    IN Change(ended, t, [d.ticket[t] EXCEPT !.status = "in_progress", !.cycle = 0, !.lifecycle = @ + 1,
                                            !.waiting = FALSE, !.heard = FALSE])

Reopened(d, t) ==
    LET c     == d.ticket[t].cycle
        ended == IF c = 0 THEN d
                 ELSE [CancelCycleDeliveries(d, c) EXCEPT !.cycle[c] = Over(@, @.finished)]
    IN Change(Invalidate(ended, {t}), t,
              [d.ticket[t] EXCEPT !.status = "in_progress", !.cycle = 0, !.lifecycle = @ + 1,
                                  !.waiting = FALSE, !.heard = FALSE])

Reopen(t) ==
    /\ Command(t, {"awaiting_rating", "closed"})
    /\ ~db.ticket[t].purged
    /\ db.ticket[t].lifecycle < MaxLifecycle
    /\ SlotFree(db, t)
    /\ db' = Reopened(db, t)

StaffCommand == \E t \in Tickets(db) : Assign(t) \/ Amend(t) \/ StopWaiting(t) \/ Close(t)
StaffSpecial == \E t \in Tickets(db) : Release(t) \/ Wait(t) \/ Reply(t) \/ Reopen(t)
Broadcast    == \E t \in Tickets(db) : CloseForIncident(t)

-----------------------------------------------------------------------------
(* The deferred close: the job reads, then runs the command with the       *)
(* version it has read.                                                    *)

Replied(d, j) == CHOOSE r \in d.out : r.kind = "staff" /\ r.number = j.reply

Obsolete_Lifecycle(d, j) ==
    d.ticket[j.ticket].status # "in_progress" \/ Replied(d, j).state = "undelivered"

Obsolete(d, j) ==
    \/ d.ticket[j.ticket].status # "in_progress"
    \/ d.ticket[j.ticket].lifecycle # j.lifecycle
    \/ Replied(d, j).state = "undelivered"

ReadForClose(j) ==
    /\ ~j.read
    /\ \/ Obsolete(db, j) /\ db' = [db EXCEPT !.closing = @ \ {j}]
       \/ /\ ~Obsolete(db, j)
          /\ Replied(db, j).state = "delivered"
          /\ db' = [db EXCEPT !.closing = (@ \ {j}) \cup {[j EXCEPT !.read = TRUE, !.fresh = TRUE]}]

\* Half an hour after the reply was queued the job gives up what it would have to try again.
GiveUp(j) ==
    /\ ~j.read
    /\ ~Obsolete(db, j)
    /\ Replied(db, j).state # "delivered"
    /\ db' = [db EXCEPT !.closing = @ \ {j}]

CloseDeferred(j) ==
    LET t == j.ticket
        Again == [j EXCEPT !.read = FALSE, !.fresh = FALSE]
    IN
    /\ j.read
    /\ \/ /\ j.fresh /\ Workable(db, t) /\ NothingInFlight(db, t) /\ Len(db.cycle) < MaxCycles
          /\ db' = [ClosedBy(db, t) EXCEPT !.closing = @ \ {[j EXCEPT !.fresh = FALSE]}]
       \/ /\ ~j.fresh \/ (Workable(db, t) /\ ~NothingInFlight(db, t))
          /\ \/ db' = [db EXCEPT !.closing = (@ \ {j}) \cup {Again}]
             \/ db' = [db EXCEPT !.closing = @ \ {j}]
       \/ /\ j.fresh /\ ~Workable(db, t)
          /\ db' = [db EXCEPT !.closing = @ \ {j}]

-----------------------------------------------------------------------------
(* Timers.                                                                 *)

\* The ticket has waited for as long as the settings say: remind, or close.  That a reminder
\* is sent once is not modelled, here and for ratings: it only makes the version another one.
RemindWaiting(t) ==
    /\ db.ticket[t].waiting /\ db.ticket[t].status = "in_progress"
    /\ db' = Touch(db, t)

AutoClose(t) ==
    /\ db.ticket[t].waiting /\ db.ticket[t].status = "in_progress"
    /\ NothingInFlight(db, t)
    /\ Len(db.cycle) < MaxCycles
    /\ LET c      == Len(db.cycle) + 1
           cycle  == [NewCycle(t) EXCEPT !.finished = "auto_closed"]
           closed == [db.ticket[t] EXCEPT !.status = "closed", !.cycle = c, !.waiting = FALSE,
                                          !.heard = FALSE]
       IN db' = Queue(Change([db EXCEPT !.cycle = Append(@, cycle)], t, closed), "auto_closed", 0, t, c)

\* expires_at of the cycle that is waited for has come.
CycleExpires ==
    /\ Asked(db) # 0
    /\ ~db.cycle[Asked(db)].expired
    /\ db' = [db EXCEPT !.cycle[Asked(db)].expired = TRUE]

InTime_Late(d) == {i \in Pending(d) : d.inbox[i].late}

InTime(d) == {i \in Pending(d) : ~Late(d, d.inbox[i])}

PromptDelivered(d, c) == \E r \in d.out : r.kind = "ticket_closed" /\ r.cycle = c /\ r.state = "delivered"

ExpireCycle ==
    LET c == Asked(db) IN
    /\ c # 0
    /\ db.cycle[c].expired
    /\ InTime(db) = {}
    /\ db' = FinishRating(db, Current(db), IF PromptDelivered(db, c) THEN "expired"
                                           ELSE "notification_not_delivered")

RemindRating ==
    LET c == Asked(db) IN
    /\ c # 0
    /\ ~db.cycle[c].expired
    /\ db' = Touch(db, Current(db))

-----------------------------------------------------------------------------
(* Erasure and retention.                                                  *)

Purge(d, T) ==
    Invalidate([d EXCEPT
        !.ticket  = [t \in DOMAIN @ |-> IF t \in T THEN [@[t] EXCEPT !.purged = TRUE] ELSE @[t]],
        !.message = [i \in DOMAIN @ |-> IF @[i].ticket \in T THEN [@[i] EXCEPT !.text = 0] ELSE @[i]],
        !.closing = {IF j.ticket \in T THEN [j EXCEPT !.fresh = FALSE] ELSE j : j \in @}], T)

EraseClient ==
    LET gone   == ForgetPending(db)
        closed == [gone EXCEPT
                     !.inbox  = [i \in DOMAIN @ |-> IF @[i].state = "pending"
                                                    THEN Closed(@[i], "discarded") ELSE @[i]],
                     !.ticket = [t \in DOMAIN @ |-> IF @[t].status # "closed" THEN Ended(@[t]) ELSE @[t]],
                     !.client = [Withdrawn(@) EXCEPT !.erased = TRUE]]
    IN /\ ~db.client.erased
       /\ db' = Purge(closed, Tickets(db))

\* The ticket has been closed for as long as the organization keeps tickets.
PurgeExpired(t) ==
    /\ db.ticket[t].status = "closed"
    /\ ~db.ticket[t].purged
    /\ db' = Purge(db, {t})

-----------------------------------------------------------------------------
(* Deliveries (module Delivery), as far as the conversation depends on     *)
(* them; an unknown outcome stays "sending" here.                          *)

\* What a delivery must still be true of when it is claimed.
Authorized(d, r) ==
    LET ticket == d.ticket[r.ticket] IN
    /\ r.kind = "staff" => ticket.status = "in_progress" /\ d.client.state = "granted"
    /\ r.cycle # 0 => /\ ticket.cycle = r.cycle /\ ticket.status = "awaiting_rating"
                      /\ ~d.cycle[r.cycle].invalidated /\ ~d.cycle[r.cycle].expired

Claim(r) ==
    /\ r.state = "queued"
    /\ db' = Settle(db, {r}, IF Authorized(db, r) THEN "sending" ELSE "undelivered")

Report(r) ==
    /\ r.state = "sending"
    /\ \E state \in {"queued", "delivered", "undelivered"} : db' = Settle(db, {r}, state)

ClosingJob == \E j \in db.closing : ReadForClose(j) \/ GiveUp(j) \/ CloseDeferred(j)
RatingTimer  == ExpireCycle \/ RemindRating
WaitingTimer == \E t \in Tickets(db) : RemindWaiting(t) \/ AutoClose(t)
Retention    == \E t \in Tickets(db) : PurgeExpired(t)
Sender       == \E r \in db.out : Claim(r) \/ Report(r)

Usually(A) == A /\ UNCHANGED rare
Rarely(A)  == A /\ rare < MaxRare /\ rare' = rare + 1

Next ==
    \/ Usually(Record)
    \/ Usually(IngestConsented)
    \/ Usually(Process)
    \/ Usually(ReviseDeferred)
    \/ Usually(StaffCommand)
    \/ Usually(ClosingJob)
    \/ Usually(WaitingTimer)
    \/ Usually(CycleExpires)
    \/ Usually(RatingTimer)
    \/ Usually(Sender)
    \/ Rarely(ExpireBuffers)
    \/ Rarely(PublishPolicy)
    \/ Rarely(StaffSpecial)
    \/ Rarely(Broadcast)
    \/ Rarely(EraseClient)
    \/ Rarely(Retention)

Spec == Init /\ [][Next]_vars

-----------------------------------------------------------------------------
(* Properties.                                                             *)

\* A client never has two tickets that are not closed.  New tickets, reopening by the staff and the
\* messages kept until consent come to the same client in any order, each checks for itself, and the
\* index one_client_slot would turn a slip into a failure that blocks the inbox of the client.
OneOpenTicket == Cardinality(Unclosed(db)) <= 1

\* A ticket that is not closed belongs to a client whose consent is granted: a declined, withdrawn or
\* erased one leaves no ticket to work on, whichever of his old buttons he presses.
OpenMeansConsent == Unclosed(db) # {} => db.client.state = "granted"

\* Of the closings of a ticket only the one it is closed with now counts as knowledge: reopening,
\* withdrawal and purging invalidate the earlier ones.
CountsOnlyCurrent ==
    \A c \in DOMAIN db.cycle : ~db.cycle[c].invalidated => db.ticket[db.cycle[c].ticket].cycle = c

\* As long as an answer that came before the end of the rating is in the inbox, the timer does not end
\* this rating as expired, however long the inbox takes (rating-timers.ts:79-87).
RatingInTime ==
    \A i \in Pending(db) : db.inbox[i].asked # 0 /\ ~db.inbox[i].late =>
        db.cycle[db.inbox[i].asked].finished \notin {"expired", "notification_not_delivered"}

\* Nothing of an erased client is left, and nothing comes back: no text, kept message, input or ticket,
\* no closing that counts, although edits that came before their message and jobs are still on their way.
ErasedIsEmpty ==
    db.client.erased =>
        /\ \A i \in 1 .. MaxInputs : db.message[i].text = 0
        /\ db.buffer = <<>> /\ Pending(db) = {} /\ Unclosed(db) = {}
        /\ \A c \in DOMAIN db.cycle : db.cycle[c].invalidated

Answered(c) ==
    /\ c \in DOMAIN db.cycle
    /\ \/ db'.cycle[c].attempts > db.cycle[c].attempts
       \/ db'.cycle[c].finished \in {"rated", "attempts_exhausted"} /\ db.cycle[c].finished = ""

\* A message counts as the answer to a rating, or as an attempt at it, only if this rating was being
\* asked when the message came: closings by the staff, by a deferred close and by the timer wait for the
\* inbox.  The broadcast of an incident does not once it is half an hour old (broadcast.ts:73,137), and
\* accept-rating-input.ts:27 asks only for the end of the rating: then, and only then, an input that was
\* pending at the closing is taken for the answer to a question it was written before.  (Messages kept
\* until consent are left out: they come with a press.)
AnswersItsQuestion ==
    [][\A c \in DOMAIN db.cycle : Answered(c) /\ db.inbox[Oldest(db)].kind # "press" =>
           db.inbox[Oldest(db)].asked = c \/ Oldest(db) <= db.cycle[c].before]_vars

\* A ticket is closed for the silence of the client only if he has not written since it began to wait,
\* handled or not (hasWorkInFlight, resumeSla).
ClosedInSilence ==
    [][\A t \in Tickets(db) :
         Len(db'.cycle) > Len(db.cycle) /\ db'.cycle[Len(db'.cycle)].finished = "auto_closed"
            /\ db'.ticket[t].status # db.ticket[t].status => ~db.ticket[t].heard]_vars

\* A deferred close closes the lifecycle it was ordered in, after its reply was delivered, although it
\* reads the ticket before its transaction, and is tried again while the ticket is closed and reopened.
ClosedAsOrdered ==
    [][\A j \in db.closing :
         Len(db'.cycle) > Len(db.cycle) /\ j.read /\ j \notin db'.closing
            /\ [j EXCEPT !.fresh = FALSE] \notin db'.closing =>
         /\ db.ticket[j.ticket].lifecycle = j.lifecycle
         /\ Replied(db, j).state = "delivered"]_vars

\* A client who has not withdrawn is sent the message that his ticket was closed for his silence
\* (template auto_closed: "we have got no answer and closed the ticket").  The code does not: the row
\* carries the cycle, and a claim takes such a row only while the ticket waits for a rating.
AutoClosedIsTold ==
    [][\A r \in db.out :
         /\ r.kind = "auto_closed" /\ r.state = "queued"
         /\ db.client.state = "granted" /\ db'.client.state = "granted" =>
            r \in db'.out \/ [r EXCEPT !.state = "sending"] \in db'.out]_vars
=============================================================================
