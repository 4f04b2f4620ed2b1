---------------------------- MODULE Desk_proofs ----------------------------
(***************************************************************************)
(* Files and Sla are proved about here. What Routing_proofs,               *)
(* Incidents_proofs and Workflows_proofs prove of the other parts is       *)
(* carried over to the composition: every part that moves keeps its        *)
(* invariant, whatever the others began with.                              *)
(***************************************************************************)
EXTENDS Desk, FiniteSetTheorems, SequenceTheorems, WellFoundedInduction, TLAPS

RP == INSTANCE Routing_proofs WITH ticket <- queued, turns <- routingTurns,
                                   Tickets <- Queued, Batch <- OfferBatch, MaxTurns <- MaxTurns["routing"]

IP == INSTANCE Incidents_proofs WITH ticket <- linked, turns <- incidentTurns,
                                     Tickets <- Affected, Batch <- TellBatch, MaxTurns <- MaxTurns["incidents"]

WP == INSTANCE Workflows_proofs WITH ticket <- asked, turns <- workflowTurns, MaxTurns <- MaxTurns["workflows"]

-----------------------------------------------------------------------------
(* An instance of a part and the instance of its proofs are the same.      *)

LEMMA SameRouting ==
  /\ R!Init => RP!Init
  /\ R!Next => RP!Next
<1>1. R!Init => RP!Init
  BY DEF R!Init, RP!Init, R!NoOne, RP!NoOne, R!NoTeam, RP!NoTeam, R!Idle, RP!Idle
<1> USE DEF R!NoOne, RP!NoOne, R!NoTeam, RP!NoTeam, R!Idle, RP!Idle, R!TakeTurn, RP!TakeTurn,
            R!Outdated, RP!Outdated, R!Change, RP!Change, R!StillSlipped, RP!StillSlipped,
            R!NotOffered, RP!NotOffered, R!OnlyTicket, RP!OnlyTicket, R!Released, RP!Released
<1>2. R!Command => RP!Command
  BY DEF R!Command, RP!Command, R!Check, RP!Check, R!Assign, RP!Assign, R!Transfer, RP!Transfer,
         R!Reopen, RP!Reopen, R!Gets, RP!Gets, R!MayBeSet, RP!MayBeSet, R!MayTake, RP!MayTake
<1>3. R!OnTicket => RP!OnTicket
  BY DEF R!OnTicket, RP!OnTicket, R!Release, RP!Release, R!SetTeam, RP!SetTeam, R!Close, RP!Close,
         R!WithdrawClient, RP!WithdrawClient, R!LinkIncident, RP!LinkIncident,
         R!UnlinkIncident, RP!UnlinkIncident, R!RouteTicket, RP!RouteTicket
<1>4. R!OnPeople => RP!OnPeople
  BY DEF R!OnPeople, RP!OnPeople, R!SetPresence, RP!SetPresence, R!StartBlock, RP!StartBlock,
         R!WorkOf, RP!WorkOf, R!Unblock, RP!Unblock
<1>5. R!OnTeams => RP!OnTeams
  BY DEF R!OnTeams, RP!OnTeams, R!UpdateTeam, RP!UpdateTeam, R!ArchiveTeam, RP!ArchiveTeam
<1>6. (R!ExpirePresence => RP!ExpirePresence) /\ (R!ListOffline => RP!ListOffline)
  BY DEF R!ExpirePresence, RP!ExpirePresence, R!ListOffline, RP!ListOffline
<1>7. R!FinishBlock => RP!FinishBlock
  BY DEF R!FinishBlock, RP!FinishBlock, R!TakenFrom, RP!TakenFrom
<1>8. (R!Withdraw => RP!Withdraw) /\ (R!Expire => RP!Expire)
  BY DEF R!Withdraw, RP!Withdraw, R!WithdrawOffers, RP!WithdrawOffers, R!Expire, RP!Expire,
         R!ExpireOffer, RP!ExpireOffer
<1>0. ASSUME NEW set PROVE R!Cardinality(set) = RP!Cardinality(set)
  BY DEF R!Cardinality, RP!Cardinality
<1>9. /\ \A t \in Queued : R!Waits(t) <=> RP!Waits(t)
      /\ \A team : R!Online(team) = RP!Online(team)
      /\ \A team : R!Free(team) = RP!Free(team)
  <2>1. \A t \in Queued : R!Waits(t) <=> RP!Waits(t)
    BY DEF R!Waits, RP!Waits
  <2>2. \A team : R!Online(team) = RP!Online(team)
    BY DEF R!Online, RP!Online
  <2>3. ASSUME NEW e PROVE R!Load(e) = RP!Load(e)
    BY <1>0 DEF R!Load, RP!Load
  <2>4. ASSUME NEW team PROVE R!Free(team) = RP!Free(team)
    BY <2>2, <2>3 DEF R!Free, RP!Free
  <2> QED
    BY <2>1, <2>2, <2>4
<1>10. R!ListWaiting => RP!ListWaiting
  <2> DEFINE due == {t \in Queued : R!Waits(t) /\ ~queued[t].linked /\ R!Online(queued[t].team) # {}}
             same == {t \in Queued : RP!Waits(t) /\ ~queued[t].linked /\ RP!Online(queued[t].team) # {}}
             unmoved == UNCHANGED <<queued, member, archived, presence, blocked, checked, offline, blocking,
                                    slipped, routingTurns>>
  <2>1. due = same
    BY <1>9
  <2>2. R!ListWaiting => /\ waiting = {} /\ due # {} /\ unmoved
                         /\ waiting' = {t \in due : R!Cardinality({u \in due : u < t}) < OfferBatch}
    BY DEF R!ListWaiting
  <2>3. /\ waiting = {} /\ same # {} /\ unmoved
        /\ waiting' = {t \in same : RP!Cardinality({u \in same : u < t}) < OfferBatch}
        => RP!ListWaiting
    BY DEF RP!ListWaiting
  <2>4. {t \in due : R!Cardinality({u \in due : u < t}) < OfferBatch}
          = {t \in same : RP!Cardinality({u \in same : u < t}) < OfferBatch}
    <3> HIDE DEF due, same
    <3> QED
      BY <1>0, <2>1
  <2> HIDE DEF due, same, unmoved
  <2> QED
    BY <2>1, <2>2, <2>3, <2>4
<1>11. R!Offer => RP!Offer
  BY <1>9 DEF R!Offer, RP!Offer, R!OfferTicket, RP!OfferTicket
<1> QED
  BY <1>1, <1>2, <1>3, <1>4, <1>5, <1>6, <1>7, <1>8, <1>10, <1>11 DEF R!Next, RP!Next

LEMMA SameIncidents ==
  /\ I!Init => IP!Init
  /\ I!Next => IP!Next
  /\ IP!Sizes
  /\ \A t : I!Running(t) <=> IP!Running(t)
<1>1. I!Init => IP!Init
  BY DEF I!Init, IP!Init, I!NoIncident, IP!NoIncident, I!Keys, IP!Keys, I!Idle, IP!Idle
<1> USE DEF I!NoIncident, IP!NoIncident, I!Running, IP!Running, I!Open, IP!Open, I!TakeTurn, IP!TakeTurn,
            I!Excuse, IP!Excuse, I!Set, IP!Set, I!Hold, IP!Hold, I!Idle, IP!Idle, I!SetStatus, IP!SetStatus
<1>2. I!OnIncident => IP!OnIncident
  BY DEF I!OnIncident, IP!OnIncident, I!Suggest, IP!Suggest, I!Create, IP!Create, I!Dismiss, IP!Dismiss,
         I!Link, IP!Link, I!Post, IP!Post, I!Resolve, IP!Resolve, I!Reopen, IP!Reopen,
         I!AddUpdate, IP!AddUpdate, I!MaybeTell, IP!MaybeTell, I!OtherIncident, IP!OtherIncident,
         I!Linked, IP!Linked, I!PendingResolution, IP!PendingResolution, I!Cardinality, IP!Cardinality
<1>3. I!OnTicket => IP!OnTicket
  BY DEF I!OnTicket, IP!OnTicket, I!Match, IP!Match, I!CreateTicket, IP!CreateTicket, I!Busy, IP!Busy,
         I!CloseTicket, IP!CloseTicket, I!ReopenTicket, IP!ReopenTicket, I!ChangeConsent, IP!ChangeConsent,
         I!Unlink, IP!Unlink
<1>4. ASSUME NEW u \in DOMAIN updates
      PROVE  /\ I!RecoverJob(u) => IP!RecoverJob(u)
             /\ \A r \in Runs : I!StartJob(r, u) => IP!StartJob(r, u)
  BY DEF I!RecoverJob, IP!RecoverJob, I!StartJob, IP!StartJob
<1>5. ASSUME NEW r \in Runs, NEW t \in Affected PROVE I!SendToTicket(r, t) => IP!SendToTicket(r, t)
  BY DEF I!SendToTicket, IP!SendToTicket, I!Gone, IP!Gone, I!Skipped, IP!Skipped, I!Passed, IP!Passed,
         I!PassOver, IP!PassOver, I!Tell, IP!Tell, I!CloseForIncident, IP!CloseForIncident
<1>6. ASSUME NEW r \in Runs PROVE I!ListTickets(r) => IP!ListTickets(r)
  BY DEF I!ListTickets, IP!ListTickets, I!Recipients, IP!Recipients, I!Cardinality, IP!Cardinality
<1>7. ASSUME NEW r \in Runs
      PROVE  /\ I!EndRun(r) => IP!EndRun(r)
             /\ I!PauseRun(r) => IP!PauseRun(r)
             /\ I!FailRun(r) => IP!FailRun(r)
             /\ I!Die(r) => IP!Die(r)
  BY DEF I!EndRun, IP!EndRun, I!PauseRun, IP!PauseRun, I!FailRun, IP!FailRun, I!Die, IP!Die, I!Leave, IP!Leave
<1>8. (I!Job => IP!Job) /\ (I!Broadcast => IP!Broadcast)
  BY <1>4, <1>5, <1>6, <1>7 DEF I!Job, IP!Job, I!Broadcast, IP!Broadcast
<1>9. IP!Sizes
  BY IncidentsAssumption DEF IP!Sizes, IP!IsFiniteSet, IsFiniteSet
<1> QED
  BY <1>1, <1>2, <1>3, <1>8, <1>9 DEF I!Next, IP!Next

LEMMA SameWorkflows ==
  /\ W!Init => WP!Init
  /\ W!Next => WP!Next
  /\ WP!ChunksListed
  /\ W!LearnedIsCurrent <=> WP!LearnedIsCurrent
<1> USE DEF W!Kinds, WP!Kinds, W!Never, WP!Never, W!Idle, WP!Idle, W!Extracts, WP!Extracts,
            W!TriageSteps, WP!TriageSteps, W!LearningSteps, WP!LearningSteps, W!Steps, WP!Steps,
            W!Replies, WP!Replies, W!TakeTurn, WP!TakeTurn, W!Active, WP!Active, W!OnlyTicket, WP!OnlyTicket,
            W!Ends, WP!Ends, W!Holds, WP!Holds, W!Eligible, WP!Eligible
<1>1. W!Init => WP!Init
  BY DEF W!Init, WP!Init
<1>2. W!Meanwhile => WP!Meanwhile
  <2> USE DEF W!Invalidate, WP!Invalidate
  <2>1. (W!EditMessage => WP!EditMessage) /\ (W!Reopen => WP!Reopen) /\ (W!Withdraw => WP!Withdraw)
    BY DEF W!EditMessage, WP!EditMessage, W!Reopen, WP!Reopen, W!Withdraw, WP!Withdraw
  <2>2. (W!Classify => WP!Classify) /\ (W!Close => WP!Close) /\ (W!Deadline => WP!Deadline)
    BY DEF W!Classify, WP!Classify, W!Close, WP!Close, W!Deadline, WP!Deadline
  <2>3. (W!Maintain => WP!Maintain) /\ (W!Persist => WP!Persist)
    BY DEF W!Maintain, WP!Maintain, W!Persist, WP!Persist
  <2> QED
    BY <2>1, <2>2, <2>3 DEF W!Meanwhile, WP!Meanwhile
<1>3. W!Runner => WP!Runner
  BY DEF W!Runner, WP!Runner, W!EndRun, WP!EndRun, W!StateAfter, WP!StateAfter, W!LearningStatus, WP!LearningStatus,
         W!Crash, WP!Crash, W!Claim, WP!Claim
<1>4. W!Triage => WP!Triage
  BY DEF W!Triage, WP!Triage, W!BeginTriage, WP!BeginTriage, W!AskTriage, WP!AskTriage, W!Asked, WP!Asked,
         W!About, WP!About, W!Outcome, WP!Outcome, W!ApplyTriage, WP!ApplyTriage, W!Revised, WP!Revised
<1>5. W!Learning => WP!Learning
  BY DEF W!Learning, WP!Learning, W!BeginLearning, WP!BeginLearning, W!NextChunk, WP!NextChunk,
         W!AskLearning, WP!AskLearning, W!Asked, WP!Asked, W!About, WP!About, W!EndOf, WP!EndOf,
         W!StoreResolution, WP!StoreResolution
<1>6. WP!ChunksListed
  <2>1. Len(Chunks) \in Nat /\ DOMAIN Chunks = 1 .. Len(Chunks)
    BY ChunksAssumption, LenProperties
  <2>2. \A n \in DOMAIN Chunks : Chunks[n] \notin {"idle", "begin", "apply", "store", "end"} \cup W!TriageSteps
    BY ChunksAssumption
  <2> QED
    BY <2>1, <2>2 DEF WP!ChunksListed
<1>7. W!LearnedIsCurrent <=> WP!LearnedIsCurrent
  BY DEF W!LearnedIsCurrent, WP!LearnedIsCurrent
<1> QED
  BY <1>1, <1>2, <1>3, <1>4, <1>5, <1>6, <1>7 DEF W!Next, WP!Next

-----------------------------------------------------------------------------
(* Files: the invariant.                                                   *)

\* The statuses before the content is there: the file was not scanned yet.
Fresh == {"none", "uploading", "receiving", "pending", "unavailable"}

\* The types of what the argument is about.
FileShape ==
    /\ owner \in [consent : BOOLEAN, purged : BOOLEAN]
    /\ file \in F!File
    /\ fileJob \in [F!Kinds -> F!Job]
    /\ fileRun \in [Processes -> F!Run]

\* As long as the ticket has its content: a job is enqueued at most once, so it must not have ended
\* before the file needs it; a file in quarantine has its content.
FileJobs ==
    /\ file.status = "none" => fileJob["file"].state = "none"
    /\ file.status \in Fresh => fileJob["scan"].state = "none"
    /\ file.status = "quarantined" => file.key
    /\ fileJob["attachment_purge"].state = "none"

\* A run has a job; one that is over and still holds it has left the file in another status.
FileRuns(p) ==
    /\ fileRun[p].phase # "idle" /\ fileRun[p].kind \in F!Kinds => fileJob[fileRun[p].kind].state # "none"
    /\ fileRun[p].phase = "over" /\ F!Holds(p) =>
          /\ fileRun[p].kind = "file" => file.status # "pending"
          /\ fileRun[p].kind = "scan" => file.status # "quarantined"

FilesKept ==
    /\ FileShape
    /\ ~owner.purged => FileJobs /\ F!WaitingFilesMove /\ \A p \in Processes : FileRuns(p)

-----------------------------------------------------------------------------
(* The types.                                                              *)

(* The fields of a row, a job or a run are assigned values of their types. *)
LEMMA FileTyped ==
  ASSUME file \in F!File, NEW status \in F!Statuses, NEW sent \in BOOLEAN, NEW key \in BOOLEAN
  PROVE  /\ [file EXCEPT !.status = status] \in F!File
         /\ [file EXCEPT !.status = status, !.sent = sent] \in F!File
         /\ [file EXCEPT !.status = status, !.key = key] \in F!File
         /\ [file EXCEPT !.sent = sent] \in F!File
         /\ [file EXCEPT !.key = key] \in F!File
BY DEF F!File

LEMMA FileJobTyped ==
  ASSUME fileJob \in [F!Kinds -> F!Job], NEW k \in F!Kinds, NEW by \in Processes \cup {F!Nobody},
         NEW state \in {"none", "pending", "running", "failed", "done"}
  PROVE  /\ [fileJob EXCEPT ![k] = [state |-> state, by |-> by]] \in [F!Kinds -> F!Job]
         /\ [fileJob EXCEPT ![k].state = state] \in [F!Kinds -> F!Job]
<1>1. [state |-> state, by |-> by] \in F!Job /\ fileJob[k] \in F!Job
  BY DEF F!Job
<1>2. [fileJob[k] EXCEPT !.state = state] \in F!Job
  BY <1>1 DEF F!Job
<1> QED
  BY <1>1, <1>2

LEMMA FileRunTyped ==
  ASSUME fileRun \in [Processes -> F!Run], NEW p \in Processes, NEW kind \in F!Kinds \cup {"upload"},
         NEW phase \in {"idle", "begin", "checking", "transfer", "stored", "scanning", "deleting",
                        "forgetting", "over"}
  PROVE  /\ [fileRun EXCEPT ![p] = [kind |-> kind, phase |-> phase]] \in [Processes -> F!Run]
         /\ [fileRun EXCEPT ![p].phase = phase] \in [Processes -> F!Run]
<1>1. [kind |-> kind, phase |-> phase] \in F!Run /\ fileRun[p] \in F!Run
  BY DEF F!Run
<1>2. [fileRun[p] EXCEPT !.phase = phase] \in F!Run
  BY <1>1 DEF F!Run
<1> QED
  BY <1>1, <1>2

-----------------------------------------------------------------------------
(* The steps.                                                              *)

LEMMA FilesBegin == F!Init => FilesKept
<1> SUFFICES ASSUME F!Init PROVE FilesKept
  OBVIOUS
<1>1. FileShape
  BY DEF F!Init, FileShape, F!File, F!Statuses, F!Job, F!Run, F!Idle
<1>2. FileJobs /\ F!WaitingFilesMove /\ \A p \in Processes : FileRuns(p)
  BY DEF F!Init, FileJobs, F!WaitingFilesMove, FileRuns, F!Idle, F!Kinds
<1> QED
  BY <1>1, <1>2 DEF FilesKept

(* A step that leaves every job where it was, or moves one that was enqueued, keeps what the         *)
(* invariant says of the jobs: the status does not go back to one that waits for nothing.           *)
LEMMA FileRowMoves ==
  ASSUME FileShape, FileShape', FileJobs,
         \A k \in F!Kinds : fileJob'[k].state = "none" <=> fileJob[k].state = "none",
         file'.status = "none" => file.status = "none",
         file'.status \in Fresh => file.status \in Fresh,
         file'.status = "quarantined" => file.status = "quarantined" /\ file'.key = file.key
  PROVE  FileJobs'
BY DEF FileJobs, FileShape, F!Kinds

(* A run keeps what it knows when it does not come to its end, no job is claimed by it, and the file  *)
(* does not begin to wait.                                                                            *)
LEMMA FileRunMoves ==
  ASSUME FileShape, FileShape', NEW p \in Processes, FileRuns(p),
         \A k \in F!Kinds : fileJob[k].state # "none" => fileJob'[k].state # "none",
         \/ fileRun'[p] = fileRun[p]
         \/ fileRun'[p] = F!Idle
         \/ fileRun'[p].kind = fileRun[p].kind /\ fileRun[p].phase # "idle" /\ fileRun'[p].phase # "over",
         F!Holds(p)' /\ fileRun'[p].phase = "over" =>
            /\ F!Holds(p)
            /\ file'.status = "pending" /\ fileRun[p].kind = "file" => file.status = "pending"
            /\ file'.status = "quarantined" /\ fileRun[p].kind = "scan" => file.status = "quarantined"
  PROVE  FileRuns(p)'
BY DEF FileRuns, FileShape, F!Run, F!Idle, F!Kinds

(* What the client and the staff do.                                       *)
LEMMA FilePeopleStep ==
  ASSUME FilesKept, F!People
  PROVE  FilesKept'
<1> USE DEF F!SetStatus
<1>1. FileShape
  BY DEF FilesKept
<1>2. CASE F!ClientSends
  <2>1. /\ file.status = "none" /\ ~owner.purged /\ FileJobs
        /\ \A p \in Processes : FileRuns(p)
    BY <1>2 DEF F!ClientSends, FilesKept
  <2>2. /\ fileJob' = [fileJob EXCEPT !["file"].state = "pending"]
        /\ file' = [file EXCEPT !.status = "pending", !.sent = TRUE] /\ UNCHANGED <<owner, fileRun>>
    BY <1>2, <2>1 DEF F!ClientSends, F!Enqueue, FileJobs
  <2>3. FileShape'
    BY <1>1, <2>2, FileTyped, FileJobTyped DEF FileShape, F!Statuses, F!Kinds
  <2>4. /\ file'.status = "pending" /\ fileJob'["file"].state = "pending"
        /\ \A k \in F!Kinds \ {"file"} : fileJob'[k] = fileJob[k]
    BY <1>1, <2>2 DEF FileShape, F!File, F!Job, F!Kinds
  <2>5. FileJobs' /\ F!WaitingFilesMove'
    BY <2>1, <2>4 DEF FileJobs, F!WaitingFilesMove, Fresh, F!Kinds
  <2>6. ASSUME NEW p \in Processes PROVE FileRuns(p)'
    BY <1>1, <2>1, <2>2, <2>4 DEF FileRuns, F!Holds, F!Kinds, FileJobs, Fresh, FileShape, F!Run
  <2> QED
    BY <2>3, <2>5, <2>6 DEF FilesKept
<1>3. CASE F!PrepareUpload \/ F!CancelDraftUpload \/ F!Reply \/ F!Withdraw
  <2>1. fileJob' = fileJob /\ fileRun' = fileRun
    BY <1>3 DEF F!PrepareUpload, F!CancelDraftUpload, F!Reply, F!Withdraw
  <2>2. owner' \in [consent : BOOLEAN, purged : BOOLEAN] /\ owner'.purged = owner.purged
    BY <1>1, <1>3 DEF F!PrepareUpload, F!CancelDraftUpload, F!Reply, F!Withdraw, FileShape
  <2>3. file' \in F!File
    BY <1>1, <1>3, FileTyped DEF F!PrepareUpload, F!CancelDraftUpload, F!Reply, F!Withdraw, FileShape, F!Statuses
  <2>4. /\ file'.key = file.key
        /\ \/ file'.status = file.status
           \/ file.status = "none" /\ file'.status = "uploading"
           \/ file'.status = "canceled"
    BY <1>1, <1>3 DEF F!PrepareUpload, F!CancelDraftUpload, F!Reply, F!Withdraw, FileShape, F!File
  <2>5. FileShape'
    BY <1>1, <2>1, <2>2, <2>3 DEF FileShape
  <2>6. ASSUME ~owner'.purged
        PROVE  FileJobs' /\ F!WaitingFilesMove' /\ \A p \in Processes : FileRuns(p)'
    <3>1. FileJobs /\ F!WaitingFilesMove /\ \A p \in Processes : FileRuns(p)
      BY <2>2, <2>6 DEF FilesKept
    <3>2. FileJobs'
      BY <1>1, <2>1, <2>4, <2>5, <3>1, FileRowMoves DEF Fresh
    <3>3. F!WaitingFilesMove'
      BY <2>1, <2>2, <2>4, <3>1 DEF F!WaitingFilesMove
    <3>4. ASSUME NEW p \in Processes PROVE FileRuns(p)'
      BY <2>1, <2>4, <3>1 DEF FileRuns, F!Holds
    <3> QED
      BY <3>2, <3>3, <3>4
  <2> QED
    BY <2>5, <2>6 DEF FilesKept
<1>4. CASE F!Purge
  <2>1. FileShape'
    <3>1. owner' \in [consent : BOOLEAN, purged : BOOLEAN] /\ fileRun' = fileRun
      <4>1. PICK consent \in {owner.consent, FALSE} : owner' = [consent |-> consent, purged |-> TRUE]
        BY <1>4 DEF F!Purge
      <4>2. consent \in BOOLEAN /\ fileRun' = fileRun
        BY <1>1, <1>4, <4>1 DEF F!Purge, FileShape
      <4> QED
        BY <4>1, <4>2
    <3>2. file' \in F!File
      BY <1>1, <1>4, FileTyped DEF F!Purge, FileShape, F!Statuses
    <3>3. fileJob' \in [F!Kinds -> F!Job]
      BY <1>1, <1>4, FileJobTyped DEF F!Purge, F!Enqueue, FileShape, F!Kinds
    <3> QED
      BY <1>1, <3>1, <3>2, <3>3 DEF FileShape
  <2>2. owner'.purged
    BY <1>4 DEF F!Purge
  <2> QED
    BY <2>1, <2>2 DEF FilesKept
<1> QED
  BY <1>2, <1>3, <1>4 DEF F!People

(* What becomes of the jobs.                                               *)
LEMMA FileJobsStep ==
  ASSUME FilesKept, F!Jobs
  PROVE  FilesKept'
<1>1. FileShape
  BY DEF FilesKept
<1>2. owner' = owner /\ (owner'.purged <=> owner.purged)
  BY DEF F!Jobs, F!RecoverJob, F!RetryFailedJob, F!EndRun, F!FailRun, F!Crash, F!Claim
<1>3. ASSUME NEW k \in F!Kinds, F!RecoverJob(k) PROVE FilesKept'
  <2>1. /\ fileJob[k].state = "running" /\ UNCHANGED <<owner, file, fileRun>>
        /\ fileJob' = [fileJob EXCEPT ![k] = [state |-> "pending", by |-> F!Nobody]]
    BY <1>3 DEF F!RecoverJob
  <2>2. FileShape'
    BY <1>1, <2>1, FileJobTyped DEF FileShape
  <2>3. fileJob'[k].state = "pending" /\ \A j \in F!Kinds \ {k} : fileJob'[j] = fileJob[j]
    BY <1>1, <2>1 DEF FileShape
  <2>4. ASSUME ~owner'.purged
        PROVE  FileJobs' /\ F!WaitingFilesMove' /\ \A p \in Processes : FileRuns(p)'
    <3>1. FileJobs /\ F!WaitingFilesMove /\ \A p \in Processes : FileRuns(p)
      BY <1>2, <2>4 DEF FilesKept
    <3>2. FileJobs'
      BY <1>1, <2>1, <2>2, <2>3, <3>1, FileRowMoves
    <3>3. F!WaitingFilesMove'
      BY <1>2, <2>1, <2>3, <3>1 DEF F!WaitingFilesMove, F!Kinds
    <3>4. ASSUME NEW p \in Processes PROVE FileRuns(p)'
      <4>1. F!Holds(p)' => F!Holds(p)
        BY <2>1, <2>3 DEF F!Holds
      <4> QED
        BY <1>1, <2>1, <2>2, <2>3, <3>1, <4>1, FileRunMoves
    <3> QED
      BY <3>2, <3>3, <3>4
  <2> QED
    BY <2>2, <2>4 DEF FilesKept
<1>4. ASSUME NEW k \in F!Kinds, F!RetryFailedJob(k) PROVE FilesKept'
  <2>1. /\ fileJob[k].state = "failed" /\ UNCHANGED <<owner, fileRun>>
        /\ fileJob' = [fileJob EXCEPT ![k].state = "pending"]
        /\ IF k = "file" /\ file.status = "unavailable"
           THEN file' = [file EXCEPT !.status = "pending"] ELSE file' = file
    BY <1>4 DEF F!RetryFailedJob, F!SetStatus
  <2>2. FileShape'
    BY <1>1, <2>1, FileJobTyped, FileTyped DEF FileShape, F!Statuses
  <2>3. /\ fileJob'[k].state = "pending" /\ \A j \in F!Kinds \ {k} : fileJob'[j] = fileJob[j]
        /\ file'.key = file.key
        /\ \/ file'.status = file.status
           \/ k = "file" /\ file.status = "unavailable" /\ file'.status = "pending"
    BY <1>1, <2>1 DEF FileShape, F!Job, F!File
  <2>4. ASSUME ~owner'.purged
        PROVE  FileJobs' /\ F!WaitingFilesMove' /\ \A p \in Processes : FileRuns(p)'
    <3>1. FileJobs /\ F!WaitingFilesMove /\ \A p \in Processes : FileRuns(p)
      BY <1>2, <2>4 DEF FilesKept
    <3>2. FileJobs'
      BY <1>1, <2>1, <2>2, <2>3, <3>1, FileRowMoves DEF Fresh
    <3>3. F!WaitingFilesMove'
      BY <1>2, <2>1, <2>3, <3>1 DEF F!WaitingFilesMove, F!Kinds
    <3>4. ASSUME NEW p \in Processes PROVE FileRuns(p)'
      <4>1. F!Holds(p)' => F!Holds(p) /\ fileRun[p].kind # k
        BY <2>1, <2>3 DEF F!Holds
      <4> QED
        BY <1>1, <2>1, <2>2, <2>3, <3>1, <4>1, FileRunMoves
    <3> QED
      BY <3>2, <3>3, <3>4
  <2> QED
    BY <2>2, <2>4 DEF FilesKept
<1>5. ASSUME NEW p \in Processes, NEW k \in F!Kinds, F!Claim(p, k) PROVE FilesKept'
  <2>1. /\ fileJob[k].state = "pending" /\ UNCHANGED <<owner, file>>
        /\ fileJob' = [fileJob EXCEPT ![k] = [state |-> "running", by |-> p]]
        /\ fileRun' = [fileRun EXCEPT ![p] = [kind |-> k, phase |-> "begin"]]
    BY <1>5 DEF F!Claim
  <2>2. FileShape'
    BY <1>1, <2>1, FileJobTyped, FileRunTyped DEF FileShape
  <2>3. /\ fileJob'[k] = [state |-> "running", by |-> p] /\ \A j \in F!Kinds \ {k} : fileJob'[j] = fileJob[j]
        /\ fileRun'[p] = [kind |-> k, phase |-> "begin"] /\ \A q \in Processes \ {p} : fileRun'[q] = fileRun[q]
    BY <1>1, <2>1 DEF FileShape
  <2>4. ASSUME ~owner'.purged
        PROVE  FileJobs' /\ F!WaitingFilesMove' /\ \A q \in Processes : FileRuns(q)'
    <3>1. FileJobs /\ F!WaitingFilesMove /\ \A q \in Processes : FileRuns(q)
      BY <1>2, <2>4 DEF FilesKept
    <3>2. FileJobs'
      BY <1>1, <2>1, <2>2, <2>3, <3>1, FileRowMoves
    <3>3. F!WaitingFilesMove'
      BY <1>2, <2>1, <2>3, <3>1 DEF F!WaitingFilesMove, F!Kinds
    <3>4. ASSUME NEW q \in Processes PROVE FileRuns(q)'
      <4>1. CASE q = p
        BY <2>3, <4>1 DEF FileRuns
      <4>2. CASE q # p
        <5>1. F!Holds(q)' => F!Holds(q)
          BY <2>3, <4>2 DEF F!Holds
        <5> QED
          BY <1>1, <2>1, <2>2, <2>3, <3>1, <4>2, <5>1, FileRunMoves
      <4> QED
        BY <4>1, <4>2
    <3> QED
      BY <3>2, <3>3, <3>4
  <2> QED
    BY <2>2, <2>4 DEF FilesKept
<1>6. ASSUME NEW p \in Processes, F!EndRun(p) PROVE FilesKept'
  <2>1. /\ fileRun[p].phase = "over" /\ UNCHANGED <<owner, file>>
        /\ fileJob' = F!Closed(p, "done")
        /\ fileRun' = [fileRun EXCEPT ![p] = F!Idle]
    BY <1>6 DEF F!EndRun
  <2>2. FileShape'
    <3>1. fileJob' \in [F!Kinds -> F!Job]
      BY <1>1, <2>1, FileJobTyped DEF FileShape, F!Closed, F!Holds
    <3> QED
      BY <1>1, <2>1, <3>1, FileRunTyped DEF FileShape, F!Idle
  <2>3. /\ fileRun'[p] = F!Idle /\ \A q \in Processes \ {p} : fileRun'[q] = fileRun[q]
        /\ \A k \in F!Kinds :
             \/ fileJob'[k] = fileJob[k]
             \/ /\ F!Holds(p) /\ fileRun[p].kind = k
                /\ fileJob[k].state = "running" /\ fileJob'[k].state = "done"
    BY <1>1, <2>1 DEF FileShape, F!Closed, F!Holds
  <2>4. ASSUME ~owner'.purged
        PROVE  FileJobs' /\ F!WaitingFilesMove' /\ \A q \in Processes : FileRuns(q)'
    <3>1. FileJobs /\ F!WaitingFilesMove /\ \A q \in Processes : FileRuns(q)
      BY <1>2, <2>4 DEF FilesKept
    <3>2. FileJobs'
      BY <1>1, <2>1, <2>2, <2>3, <3>1, FileRowMoves
    <3>3. F!WaitingFilesMove'
      BY <1>2, <2>1, <2>3, <3>1 DEF F!WaitingFilesMove, F!Kinds, FileRuns
    <3>4. ASSUME NEW q \in Processes PROVE FileRuns(q)'
      <4>1. F!Holds(q)' /\ q # p => F!Holds(q)
        <5>1. ASSUME NEW k \in F!Kinds, fileJob'[k].state = "running" PROVE fileJob'[k] = fileJob[k]
          BY <2>3, <5>1
        <5> QED
          BY <2>3, <5>1 DEF F!Holds
      <4>2. fileRun'[q] = F!Idle \/ (q # p /\ fileRun'[q] = fileRun[q])
        BY <2>3
      <4> QED
        BY <1>1, <2>1, <2>2, <2>3, <3>1, <4>1, <4>2, FileRunMoves DEF F!Idle
    <3> QED
      BY <3>2, <3>3, <3>4
  <2> QED
    BY <2>2, <2>4 DEF FilesKept
<1>7. ASSUME NEW p \in Processes, F!FailRun(p) PROVE FilesKept'
  <2>1. PICK state \in {"pending", "failed"} : fileJob' = F!Closed(p, state) /\ file' = F!AfterFailure(p, state)
    BY <1>7 DEF F!FailRun
  <2>2. /\ owner' = owner /\ fileRun' = [fileRun EXCEPT ![p] = F!Idle]
        /\ fileRun[p].phase # "over"
    BY <1>7 DEF F!FailRun
  <2>3. FileShape'
    <3>1. fileJob' \in [F!Kinds -> F!Job]
      BY <1>1, <2>1, FileJobTyped DEF FileShape, F!Closed, F!Holds
    <3>2. file' \in F!File
      BY <1>1, <2>1, FileTyped DEF FileShape, F!AfterFailure, F!Statuses
    <3> QED
      BY <1>1, <2>2, <3>1, <3>2, FileRunTyped DEF FileShape, F!Idle
  <2>4. /\ fileRun'[p] = F!Idle /\ \A q \in Processes \ {p} : fileRun'[q] = fileRun[q]
        /\ \A k \in F!Kinds :
             \/ fileJob'[k] = fileJob[k]
             \/ /\ F!Holds(p) /\ fileRun[p].kind = k /\ fileJob[k].state = "running"
                /\ fileJob'[k].state = state
        /\ file'.key = file.key
        /\ \/ /\ file'.status = file.status
              /\ ~(F!Holds(p) /\ fileRun[p].kind = "file" /\ state = "failed" /\ file.status = "pending")
           \/ file.status = "pending" /\ file'.status = "unavailable"
    BY <1>1, <2>1, <2>2 DEF FileShape, F!Closed, F!Holds, F!AfterFailure, F!File
  <2>5. ASSUME ~owner'.purged
        PROVE  FileJobs' /\ F!WaitingFilesMove' /\ \A q \in Processes : FileRuns(q)'
    <3>1. FileJobs /\ F!WaitingFilesMove /\ \A q \in Processes : FileRuns(q)
      BY <1>2, <2>5 DEF FilesKept
    <3>2. FileJobs'
      BY <1>1, <2>3, <2>4, <3>1, FileRowMoves DEF Fresh
    <3>3. F!WaitingFilesMove'
      BY <1>2, <2>4, <3>1 DEF F!WaitingFilesMove, F!Kinds
    <3>4. ASSUME NEW q \in Processes PROVE FileRuns(q)'
      <4>1. F!Holds(q)' /\ q # p => F!Holds(q)
        <5>1. ASSUME NEW k \in F!Kinds, fileJob'[k].state = "running" PROVE fileJob'[k] = fileJob[k]
          BY <2>4, <5>1
        <5> QED
          BY <2>4, <5>1 DEF F!Holds
      <4>2. fileRun'[q] = F!Idle \/ (q # p /\ fileRun'[q] = fileRun[q])
        BY <2>4
      <4> QED
        BY <1>1, <2>3, <2>4, <3>1, <4>1, <4>2, FileRunMoves DEF F!Idle
    <3> QED
      BY <3>2, <3>3, <3>4
  <2> QED
    BY <2>3, <2>5 DEF FilesKept
<1>8. ASSUME NEW p \in Processes, F!Crash(p) PROVE FilesKept'
  <2>1. UNCHANGED <<owner, file, fileJob>> /\ fileRun' = [fileRun EXCEPT ![p] = F!Idle]
    BY <1>8 DEF F!Crash
  <2>2. FileShape'
    BY <1>1, <2>1, FileRunTyped DEF FileShape, F!Idle, F!Kinds
  <2>3. fileRun'[p] = F!Idle /\ \A q \in Processes \ {p} : fileRun'[q] = fileRun[q]
    BY <1>1, <2>1 DEF FileShape
  <2>4. ASSUME ~owner'.purged
        PROVE  FileJobs' /\ F!WaitingFilesMove' /\ \A q \in Processes : FileRuns(q)'
    BY <1>2, <2>1, <2>3, <2>4 DEF FilesKept, FileJobs, F!WaitingFilesMove, FileRuns, F!Holds, F!Idle
  <2> QED
    BY <2>2, <2>4 DEF FilesKept
<1> QED
  BY <1>3, <1>4, <1>5, <1>6, <1>7, <1>8 DEF F!Jobs

(* Downloads and uploads.                                                  *)
LEMMA FileTransferStep ==
  ASSUME FilesKept, F!Transfer
  PROVE  FilesKept'
<1>1. FileShape
  BY DEF FilesKept
<1>2. PICK p \in Processes :
        \/ F!BeginDownload(p) \/ F!CheckDownload(p) \/ F!ReceiveUpload(p)
        \/ F!FailUpload(p) \/ F!StoreObject(p) \/ F!StoreRow(p)
  BY DEF F!Transfer
<1>3. owner' = owner /\ (owner'.purged <=> owner.purged)
  BY <1>2 DEF F!BeginDownload, F!CheckDownload, F!ReceiveUpload, F!FailUpload, F!StoreObject, F!StoreRow
<1>4. PICK next \in F!Run : fileRun' = [fileRun EXCEPT ![p] = next]
  <2>1. fileRun[p] \in F!Run /\ F!Idle \in F!Run /\ [kind |-> "upload", phase |-> "transfer"] \in F!Run
    BY <1>1 DEF FileShape, F!Run, F!Idle
  <2>2. \A phase \in {"checking", "over", "transfer", "stored"} : [fileRun[p] EXCEPT !.phase = phase] \in F!Run
    BY <2>1 DEF F!Run
  <2>3. F!BeginDownload(p) \/ F!CheckDownload(p) \/ F!StoreObject(p) \/ F!StoreRow(p) =>
          \E phase \in {"checking", "over", "transfer", "stored"} : fileRun' = [fileRun EXCEPT ![p].phase = phase]
    BY DEF F!BeginDownload, F!CheckDownload, F!StoreObject, F!StoreRow, F!Goes
  <2>4. F!ReceiveUpload(p) \/ F!FailUpload(p) =>
          \/ fileRun' = [fileRun EXCEPT ![p] = [kind |-> "upload", phase |-> "transfer"]]
          \/ fileRun' = [fileRun EXCEPT ![p] = F!Idle]
    BY DEF F!ReceiveUpload, F!FailUpload
  <2> QED
    BY <1>2, <2>1, <2>2, <2>3, <2>4
<1>5. fileRun' \in [Processes -> F!Run] /\ fileRun'[p] = next /\ \A q \in Processes \ {p} : fileRun'[q] = fileRun[q]
  BY <1>1, <1>4 DEF FileShape
<1>6. CASE F!StoreRow(p)
  <2>1. F!At(p, {"file", "upload"}, "stored") /\ fileRun' = [fileRun EXCEPT ![p].phase = "over"]
    BY <1>6 DEF F!StoreRow, F!Goes
  <2>2. /\ fileRun[p].kind \in {"file", "upload"} /\ fileRun[p].phase = "stored"
        /\ fileRun'[p].kind = fileRun[p].kind /\ fileRun'[p].phase = "over"
    BY <1>1, <2>1 DEF F!At, FileShape, F!Run
  <2>3. FileShape'
    <3>1. file' \in F!File
      BY <1>1, <1>6, FileTyped DEF FileShape, F!StoreRow, F!Statuses
    <3>2. fileJob' \in [F!Kinds -> F!Job]
      BY <1>1, <1>6, FileJobTyped DEF FileShape, F!StoreRow, F!Enqueue, F!Kinds
    <3> QED BY <1>1, <1>3, <1>5, <3>1, <3>2 DEF FileShape
  <2>4. CASE file.status \in {"receiving", "pending"}
    <3>1. file' = [file EXCEPT !.status = "quarantined", !.key = TRUE] /\ F!Enqueue("scan")
      BY <1>6, <2>4 DEF F!StoreRow
    <3>2. file'.status = "quarantined" /\ file'.key
      BY <1>1, <3>1 DEF FileShape, F!File
    <3>3. ASSUME ~owner'.purged
          PROVE  FileJobs' /\ F!WaitingFilesMove' /\ \A q \in Processes : FileRuns(q)'
      <4>1. FileJobs /\ F!WaitingFilesMove /\ \A q \in Processes : FileRuns(q)
        BY <1>3, <3>3 DEF FilesKept
      <4>2. fileJob["scan"].state = "none" /\ fileJob' = [fileJob EXCEPT !["scan"].state = "pending"]
        BY <2>4, <3>1, <4>1 DEF FileJobs, Fresh, F!Enqueue
      <4>3. fileJob'["scan"].state = "pending" /\ \A k \in F!Kinds \ {"scan"} : fileJob'[k] = fileJob[k]
        BY <1>1, <4>2 DEF FileShape, F!Job, F!Kinds
      <4>4. FileJobs'
        BY <3>2, <4>1, <4>3 DEF FileJobs, Fresh, F!Kinds
      <4>5. F!WaitingFilesMove'
        BY <3>2, <4>3 DEF F!WaitingFilesMove
      <4>6. ASSUME NEW q \in Processes PROVE FileRuns(q)'
        <5>1. fileRun[q].kind = "scan" => fileRun[q].phase = "idle"
          BY <4>1, <4>2 DEF FileRuns, F!Kinds
        <5>2. CASE q = p
          BY <2>2, <3>2, <4>1, <4>3, <5>2 DEF FileRuns, F!Kinds
        <5>3. CASE q # p
          BY <1>5, <3>2, <4>1, <4>3, <5>1, <5>3 DEF FileRuns, F!Kinds
        <5> QED
          BY <5>2, <5>3
      <4> QED
        BY <4>4, <4>5, <4>6
    <3> QED
      BY <2>3, <3>3 DEF FilesKept
  <2>5. CASE file.status \notin {"receiving", "pending"}
    <3>1. file' = file /\ fileJob' = fileJob
      BY <1>6, <2>5 DEF F!StoreRow
    <3>2. ASSUME ~owner'.purged
          PROVE  FileJobs' /\ F!WaitingFilesMove' /\ \A q \in Processes : FileRuns(q)'
      <4>1. FileJobs /\ F!WaitingFilesMove /\ \A q \in Processes : FileRuns(q)
        BY <1>3, <3>2 DEF FilesKept
      <4>2. FileJobs' /\ F!WaitingFilesMove'
        BY <1>3, <3>1, <4>1 DEF FileJobs, F!WaitingFilesMove
      <4>3. ASSUME NEW q \in Processes PROVE FileRuns(q)'
        BY <1>5, <2>2, <2>5, <3>1, <4>1 DEF FileRuns, F!Holds, F!Kinds
      <4> QED
        BY <4>2, <4>3
    <3> QED
      BY <2>3, <3>2 DEF FilesKept
  <2> QED
    BY <2>4, <2>5
<1>7. CASE ~F!StoreRow(p)
  <2>1. fileJob' = fileJob
    BY <1>2, <1>7 DEF F!BeginDownload, F!CheckDownload, F!ReceiveUpload, F!FailUpload, F!StoreObject
  <2>2. FileShape'
    <3>1. file' = file \/ \E status \in F!Statuses : file' = [file EXCEPT !.status = status]
      BY <1>1, <1>2, <1>7
         DEF F!BeginDownload, F!CheckDownload, F!ReceiveUpload, F!FailUpload, F!StoreObject, F!SetStatus, FileShape, F!File, F!Statuses
    <3>2. file' \in F!File
      BY <1>1, <3>1, FileTyped DEF FileShape
    <3> QED
      BY <1>1, <1>3, <1>5, <2>1, <3>2 DEF FileShape
  <2>3. /\ file'.key = file.key
        /\ \/ file'.status = file.status
           \/ file'.status \in {"canceled", "failed"}
           \/ file.status = "pending" /\ file'.status = "unavailable" /\ F!CheckDownload(p)
           \/ file.status = "uploading" /\ file'.status = "receiving"
    BY <1>1, <1>2, <1>7
       DEF FileShape, F!File, F!BeginDownload, F!CheckDownload, F!ReceiveUpload, F!FailUpload, F!StoreObject, F!SetStatus
  <2>4. \/ next = F!Idle
        \/ next.kind = "upload"
        \/ next.kind = fileRun[p].kind /\ fileRun[p].phase # "idle" /\ next.phase # "over"
        \/ next.kind = "file" /\ fileRun[p].kind = "file" /\ fileRun[p].phase # "idle" /\ file'.status # "pending"
    <3>1. CASE F!BeginDownload(p)
      <4>1. next = [fileRun[p] EXCEPT !.phase = IF file.status = "pending" THEN "checking" ELSE "over"]
        BY <1>1, <1>4, <3>1 DEF F!BeginDownload, F!Goes, FileShape
      <4>2. file' = file /\ fileRun[p].kind = "file" /\ fileRun[p].phase = "begin"
        BY <3>1 DEF F!BeginDownload, F!At
      <4>3. next.kind = "file" /\ (file.status = "pending" => next.phase = "checking")
        BY <1>1, <4>1, <4>2 DEF FileShape, F!Run
      <4> QED
        BY <4>2, <4>3
    <3>2. CASE F!CheckDownload(p)
      <4>1. fileRun[p].kind = "file" /\ fileRun[p].phase = "checking"
        BY <3>2 DEF F!CheckDownload, F!At
      <4>2. \/ next = [fileRun[p] EXCEPT !.phase = "transfer"]
            \/ next = [fileRun[p] EXCEPT !.phase = "over"] /\ file'.status # "pending"
        BY <1>1, <1>5, <3>2 DEF F!CheckDownload, F!Goes, F!SetStatus, FileShape, F!File
      <4>3. next.kind = "file" /\ (next.phase = "transfer" \/ file'.status # "pending")
        BY <1>1, <4>1, <4>2 DEF FileShape, F!Run
      <4> QED
        BY <4>1, <4>3
    <3>3. CASE F!StoreObject(p)
      BY <1>1, <1>4, <3>3 DEF F!StoreObject, F!Goes, F!At, FileShape, F!Run
    <3>4. CASE F!ReceiveUpload(p) \/ F!FailUpload(p)
      BY <1>1, <1>4, <3>4 DEF F!ReceiveUpload, F!FailUpload, FileShape
    <3> QED
      BY <1>2, <1>7, <3>1, <3>2, <3>3, <3>4
  <2>5. ASSUME ~owner'.purged
        PROVE  FileJobs' /\ F!WaitingFilesMove' /\ \A q \in Processes : FileRuns(q)'
    <3>1. FileJobs /\ F!WaitingFilesMove /\ \A q \in Processes : FileRuns(q)
      BY <1>3, <2>5 DEF FilesKept
    <3>2. FileJobs'
      BY <1>1, <2>1, <2>2, <2>3, <3>1, FileRowMoves DEF Fresh
    <3>3. F!WaitingFilesMove'
      BY <1>3, <2>1, <2>3, <3>1 DEF F!WaitingFilesMove
    <3>4. ASSUME NEW q \in Processes PROVE FileRuns(q)'
      <4>1. CASE q = p
        BY <1>5, <2>1, <2>4, <3>1, <4>1 DEF FileRuns, F!Kinds, F!Idle
      <4>2. CASE q # p
        BY <1>5, <2>1, <2>3, <3>1, <4>2 DEF FileRuns, F!Holds
      <4> QED
        BY <4>1, <4>2
    <3> QED
      BY <3>2, <3>3, <3>4
  <2> QED
    BY <2>2, <2>5 DEF FilesKept
<1> QED
  BY <1>6, <1>7

(* Scans and removals.                                                     *)
LEMMA FileScanOrPurgeStep ==
  ASSUME FilesKept, F!ScanOrPurge
  PROVE  FilesKept'
<1>1. FileShape
  BY DEF FilesKept
<1>2. PICK p \in Processes :
        F!BeginScan(p) \/ F!FinishScan(p) \/ F!BeginPurge(p) \/ F!DeleteObject(p) \/ F!ForgetKey(p)
  BY DEF F!ScanOrPurge
<1>3. owner' = owner /\ (owner'.purged <=> owner.purged) /\ fileJob' = fileJob
  BY <1>2 DEF F!BeginScan, F!FinishScan, F!BeginPurge, F!DeleteObject, F!ForgetKey
<1>4. PICK phase \in {"scanning", "over", "deleting", "forgetting"} : fileRun' = [fileRun EXCEPT ![p].phase = phase]
  BY <1>2 DEF F!BeginScan, F!FinishScan, F!BeginPurge, F!DeleteObject, F!ForgetKey, F!Goes
<1>5. /\ fileRun' \in [Processes -> F!Run] /\ fileRun'[p].kind = fileRun[p].kind /\ fileRun'[p].phase = phase
      /\ \A q \in Processes \ {p} : fileRun'[q] = fileRun[q]
  <2>1. fileRun[p] \in F!Run
    BY <1>1 DEF FileShape
  <2>2. [fileRun[p] EXCEPT !.phase = phase] \in F!Run
    BY <2>1 DEF F!Run
  <2>3. fileRun'[p] = [fileRun[p] EXCEPT !.phase = phase] /\ \A q \in Processes \ {p} : fileRun'[q] = fileRun[q]
    BY <1>1, <1>4 DEF FileShape
  <2> QED
    BY <1>1, <1>4, <2>1, <2>2, <2>3 DEF FileShape, F!Run
<1>6. file' \in F!File
  BY <1>1, <1>2, FileTyped
     DEF FileShape, F!BeginScan, F!FinishScan, F!BeginPurge, F!DeleteObject, F!ForgetKey, F!SetStatus, F!Statuses
<1>7. FileShape'
  BY <1>1, <1>3, <1>5, <1>6 DEF FileShape
<1>8. ASSUME ~owner'.purged
      PROVE  FileJobs' /\ F!WaitingFilesMove' /\ \A q \in Processes : FileRuns(q)'
  <2>1. FileJobs /\ F!WaitingFilesMove /\ \A q \in Processes : FileRuns(q)
    BY <1>3, <1>8 DEF FilesKept
  <2>2. fileRun[p].kind = "scan" /\ fileRun[p].phase # "idle" /\ (F!BeginScan(p) \/ F!FinishScan(p))
    BY <1>2, <2>1 DEF F!BeginScan, F!FinishScan, F!BeginPurge, F!DeleteObject, F!ForgetKey, F!At, FileRuns, FileJobs, F!Kinds
  <2>3. fileJob["scan"].state # "none" /\ file.status \notin Fresh
    BY <2>1, <2>2 DEF FileRuns, FileJobs, F!Kinds
  <2>4. /\ file'.key = file.key
        /\ \/ file'.status = file.status
           \/ file'.status \in {"rejected", "infected", "clean", "canceled"}
    BY <1>1, <2>2 DEF F!BeginScan, F!FinishScan, F!SetStatus, FileShape, F!File
  <2>5. phase = "over" => file'.status # "quarantined"
    <3>1. CASE F!BeginScan(p)
      BY <1>1, <1>4, <1>5, <2>1, <3>1 DEF F!BeginScan, F!Goes, FileJobs, FileShape, F!Run
    <3>2. CASE F!FinishScan(p)
      BY <1>1, <3>2 DEF F!FinishScan, F!SetStatus, FileShape, F!File
    <3> QED
      BY <2>2, <3>1, <3>2
  <2>6. FileJobs' /\ F!WaitingFilesMove'
    BY <1>3, <2>1, <2>3, <2>4 DEF FileJobs, F!WaitingFilesMove, Fresh
  <2>7. ASSUME NEW q \in Processes PROVE FileRuns(q)'
    <3>1. CASE q = p
      BY <1>3, <1>5, <2>2, <2>3, <2>5, <3>1 DEF FileRuns
    <3>2. CASE q # p
      BY <1>3, <1>5, <2>1, <2>4, <3>2 DEF FileRuns, F!Holds
    <3> QED
      BY <3>1, <3>2
  <2> QED
    BY <2>6, <2>7
<1> QED
  BY <1>7, <1>8 DEF FilesKept

(* Every step.                                                             *)
LEMMA FilesStep ==
  ASSUME FilesKept, [F!Next]_(F!vars)
  PROVE  FilesKept'
<1>1. CASE UNCHANGED F!vars
  BY <1>1 DEF F!vars, FilesKept, FileShape, FileJobs, F!WaitingFilesMove, FileRuns, F!Holds
<1> QED
  BY <1>1, FilePeopleStep, FileJobsStep, FileTransferStep, FileScanOrPurgeStep DEF F!Next

(* Files, if it is the part that moves.                                    *)
FilesInv == part = "files" => FilesKept

\* While a ticket has its content, no file of it waits for a job that does not exist: the order in
\* which runs that overlap, die or come late end, and what the client and the staff do meanwhile,
\* does not matter.
THEOREM FilesMove == Spec => []WaitingFilesMove
<1>1. Init => FilesInv
  BY FilesBegin DEF Init, FilesInv
<1>2. FilesInv /\ [Next]_vars => FilesInv'
  <2> SUFFICES ASSUME FilesInv, [Next]_vars, part' = "files" PROVE FilesKept'
    BY DEF FilesInv
  <2>1. part = "files"
    BY DEF Next, vars
  <2>2. [F!Next]_(F!vars)
    BY <2>1 DEF Next, vars, files, F!vars
  <2> QED
    BY <2>1, <2>2, FilesStep DEF FilesInv
<1>3. FilesInv => WaitingFilesMove
  BY DEF FilesInv, WaitingFilesMove, FilesKept, F!WaitingFilesMove
<1> QED
  BY <1>1, <1>2, <1>3, PTL DEF Spec

-----------------------------------------------------------------------------
(* Routing.                                                                *)

RoutingInv == part = "routing" => RP!RoutingInv /\ RP!Members

\* See Routing: what blocking takes, of any tickets, employees and teams.
THEOREM BlockTakes == Spec => BlockIsExact
<1>1. Init => RoutingInv
  BY SameRouting, RP!InitInv DEF Init, RoutingInv
<1>2. ASSUME part = "routing", [Next]_vars PROVE [RP!Next]_(RP!vars) /\ part' = part
  BY <1>2, SameRouting DEF Next, vars, routing, RP!vars
<1>3. RoutingInv /\ [Next]_vars => RoutingInv'
  <2> SUFFICES ASSUME RoutingInv, [Next]_vars, part' = "routing" PROVE RP!RoutingInv' /\ RP!Members'
    BY DEF RoutingInv
  <2>1. part = "routing"
    BY DEF Next, vars
  <2> QED
    BY <1>2, <2>1, RP!StepInv, TeamsAssumption DEF RoutingInv
<1>4. RoutingInv /\ [Next]_vars =>
        [\A e \in Employees, t \in Queued :
           e \in blocked' \ blocked /\ queued[t].status = "in_progress" /\ t \notin slipped =>
              IF queued[t].assignee = e THEN queued'[t].status = "open"
              ELSE R!NotOffered(queued'[t]) = R!NotOffered(queued[t])]_(R!vars)
  <2> SUFFICES ASSUME RoutingInv, [Next]_vars, R!vars' # R!vars, NEW e \in Employees, NEW t \in Queued,
                      e \in blocked' \ blocked, queued[t].status = "in_progress", t \notin slipped
               PROVE  IF queued[t].assignee = e THEN queued'[t].status = "open"
                      ELSE R!NotOffered(queued'[t]) = R!NotOffered(queued[t])
    OBVIOUS
  <2>1. part = "routing"
    BY DEF Next, vars, routing
  <2> QED
    BY <1>2, <2>1, RP!BlockTakes, TeamsAssumption DEF RoutingInv, R!NotOffered, RP!NotOffered, R!NoOne, RP!NoOne
<1> QED
  BY <1>1, <1>3, <1>4, PTL DEF Spec, BlockIsExact, R!BlockIsExact

-----------------------------------------------------------------------------
(* Incidents.                                                              *)

IncidentsInv == part = "incidents" => IP!IncidentsInv

LEMMA IncidentsKept ==
  /\ Init => IncidentsInv
  /\ IncidentsInv /\ [Next]_vars => IncidentsInv'
<1>1. Init => IncidentsInv
  BY SameIncidents, IP!InitInv DEF Init, IncidentsInv
<1>2. IncidentsInv /\ [Next]_vars => IncidentsInv'
  <2> SUFFICES ASSUME IncidentsInv, [Next]_vars, part' = "incidents" PROVE IP!IncidentsInv'
    BY DEF IncidentsInv
  <2>1. part = "incidents"
    BY DEF Next, vars
  <2>2. [IP!Next]_(IP!vars)
    BY <2>1, SameIncidents DEF Next, vars, incidents, IP!vars
  <2> QED
    BY <2>1, <2>2, SameIncidents, IP!StepInv DEF IncidentsInv
<1> QED
  BY <1>1, <1>2

(* A step of Desk that moves incidents is one of Incidents.                *)
LEMMA IncidentsMove ==
  ASSUME IncidentsInv, [Next]_vars, I!vars' # I!vars
  PROVE  IP!IncidentsInv /\ [IP!Next]_(IP!vars) /\ IP!Sizes
<1>1. part = "incidents"
  BY DEF Next, vars, incidents, I!vars
<1> QED
  BY <1>1, SameIncidents DEF Next, vars, incidents, IP!vars, IncidentsInv

\* See Incidents: of any incidents, tickets and workers, however long the lists are, and also where other
\* runs of the job were overtaken before or go on elsewhere.
THEOREM OnceClosed == Spec => ClosedOnce
<1>1. IncidentsInv /\ [Next]_vars =>
        [\A r \in Runs, t \in Affected :
           I!Closes(r, t) /\ I!Alone(r) => LET u == broadcast[r].update
                                          IN  closings[t, u] = 0 /\ ~I!Open(updates[u].incident)]_(I!vars)
  BY IncidentsMove, IP!ClosesOnce DEF I!Open, IP!Open, I!Closes, IP!Closes, I!Alone, IP!Alone
<1> QED
  BY IncidentsKept, <1>1, PTL DEF Spec, ClosedOnce, I!ClosedOnce

\* See Incidents: of any incidents and tickets, however long the lists are and however many runs of the
\* job overlap.
THEOREM NobodyIsLeft == Spec => NobodyLeftBehind
<1>1. IncidentsInv /\ [Next]_vars =>
        [\A u \in DOMAIN updates :
           updates[u].resolving /\ updates'[u].finished /\ ~updates[u].finished =>
              \A t \in Affected : I!Running(t) /\ updates[u].incident \in linked[t].linked
                                => t \in updates[u].excused]_(I!vars)
  BY IncidentsMove, SameIncidents, IP!LeavesNobody
<1> QED
  BY IncidentsKept, <1>1, PTL DEF Spec, NobodyLeftBehind, I!NobodyLeftBehind

-----------------------------------------------------------------------------
(* Workflows.                                                              *)

WorkflowsInv == part = "workflows" => WP!WorkflowsInv

\* See Workflows: of any number of runs, extraction steps, edits and reopenings.
THEOREM UsedIsCurrent == Spec => ResultsAreCurrent
<1>1. Init => WorkflowsInv
  BY SameWorkflows, WP!InitInv DEF Init, WorkflowsInv
<1>2. WorkflowsInv /\ [Next]_vars => WorkflowsInv'
  <2> SUFFICES ASSUME WorkflowsInv, [Next]_vars, part' = "workflows" PROVE WP!WorkflowsInv'
    BY DEF WorkflowsInv
  <2>1. part = "workflows"
    BY DEF Next, vars
  <2>2. [WP!Next]_(WP!vars)
    BY <2>1, SameWorkflows DEF Next, vars, workflows, WP!vars
  <2> QED
    BY <2>1, <2>2, SameWorkflows, WP!StepInv DEF WorkflowsInv
<1>3. WorkflowsInv /\ [Next]_vars =>
        [/\ asked'.by = "model" /\ asked.by # "model" =>
              asked'.of \in {text, W!Never} /\ asked.by = "nobody" /\ asked.status = "open" /\ asked.granted /\ ~late
         /\ record'.of # record.of =>
              record'.of = text /\ closure.status # "invalidated" /\ asked.status = "closed" /\ asked.granted
         /\ W!LearnedIsCurrent']_(W!vars)
  <2> SUFFICES ASSUME WorkflowsInv, [Next]_vars, W!vars' # W!vars
               PROVE  /\ asked'.by = "model" /\ asked.by # "model" =>
                           asked'.of \in {text, W!Never} /\ asked.by = "nobody" /\ asked.status = "open"
                           /\ asked.granted /\ ~late
                      /\ record'.of # record.of =>
                           record'.of = text /\ closure.status # "invalidated" /\ asked.status = "closed"
                           /\ asked.granted
                      /\ W!LearnedIsCurrent'
    OBVIOUS
  <2>1. part = "workflows"
    BY DEF Next, vars, workflows, W!vars
  <2>2. WP!WorkflowsInv /\ WP!Next
    BY <2>1, SameWorkflows DEF Next, vars, workflows, W!vars, WorkflowsInv
  <2>3. /\ asked'.by = "model" /\ asked.by # "model" =>
             asked'.of \in {text, WP!Never} /\ asked.by = "nobody" /\ asked.status = "open" /\ asked.granted /\ ~late
        /\ record'.of # record.of =>
             record'.of = text /\ closure.status # "invalidated" /\ asked.status = "closed" /\ asked.granted
        /\ WP!LearnedIsCurrent'
    BY <2>2, SameWorkflows, WP!UsedIsCurrent
  <2>4. WP!Never = W!Never /\ (WP!LearnedIsCurrent' => W!LearnedIsCurrent')
    BY DEF WP!Never, W!Never, WP!LearnedIsCurrent, W!LearnedIsCurrent
  <2> QED
    BY <2>3, <2>4
<1> QED
  BY <1>1, <1>2, <1>3, PTL DEF Spec, ResultsAreCurrent, W!ResultsAreCurrent

-----------------------------------------------------------------------------
(* The clocks.  First working time: what is counted from one instant to    *)
(* another is the number of working minutes between them, and the instant  *)
(* searched for is the first one by which enough of them have passed.      *)

LEMMA LeastNat ==
  ASSUME NEW set, set \subseteq Nat, set # {}
  PROVE  \E m \in set : \A k \in set : m <= k
<1>1. PICK m \in set : \A k \in set : ~(<<k, m>> \in OpToRel(<, Nat))
  BY NatLessThanWellFounded, WFMin
<1>2. \A k \in set : ~(k < m)
  BY <1>1 DEF OpToRel
<1> QED BY <1>2

\* A set of numbers up to n that begins at 0 and is closed under successor has them all.
LEMMA Induct ==
  ASSUME NEW n \in Nat, NEW set, 0 \in set, \A k \in 0 .. n : k \in set /\ k + 1 \in 0 .. n => k + 1 \in set
  PROVE  0 .. n \subseteq set
<1> SUFFICES ASSUME (0 .. n) \ set # {} PROVE FALSE
  OBVIOUS
<1> DEFINE rest == (0 .. n) \ set
<1>0. rest \subseteq Nat /\ rest # {}
  OBVIOUS
<1>1. PICK m \in (0 .. n) \ set : \A k \in (0 .. n) \ set : m <= k
  <2> HIDE DEF rest
  <2>1. \E m \in rest : \A k \in rest : m <= k
    BY <1>0, LeastNat
  <2> QED BY <2>1 DEF rest
<1>2. m \in 0 .. n /\ m # 0 /\ m - 1 \in 0 .. n /\ ~(m <= m - 1)
  OBVIOUS
<1>3. m - 1 \in set
  BY <1>1, <1>2
<1>4. (m - 1) + 1 = m
  BY <1>2
<1> QED BY <1>2, <1>3, <1>4

\* A function may be defined by recursion up to n, with values in a set.
Recursive(n, values, first, step) ==
    /\ n \in Nat /\ first \in values
    /\ \A k \in 1 .. n : \A v \in values : step[<<k, v>>] \in values

IsRecursion(f, n, values, first, step) ==
    f \in [0 .. n -> values] /\ f[0] = first /\ \A k \in 1 .. n : f[k] = step[<<k, f[k - 1]>>]

LEMMA Recursion ==
  ASSUME NEW n, NEW values, NEW first, NEW step, Recursive(n, values, first, step)
  PROVE  \E f : IsRecursion(f, n, values, first, step)
<1> USE DEF Recursive, IsRecursion
<1> DEFINE Done == {m \in 0 .. n : \E f \in [0 .. m -> values] :
                                      f[0] = first /\ \A k \in 1 .. m : f[k] = step[<<k, f[k - 1]>>]}
<1>1. 0 \in Done
  <2> DEFINE f == [k \in 0 .. 0 |-> first]
  <2>1. f \in [0 .. 0 -> values] /\ f[0] = first /\ \A k \in 1 .. 0 : f[k] = step[<<k, f[k - 1]>>]
    OBVIOUS
  <2> HIDE DEF f
  <2> QED BY <2>1
<1>2. ASSUME NEW m \in 0 .. n, m \in Done, m + 1 \in 0 .. n
      PROVE  m + 1 \in Done
  <2>1. PICK g \in [0 .. m -> values] : g[0] = first /\ \A k \in 1 .. m : g[k] = step[<<k, g[k - 1]>>]
    BY <1>2
  <2>2. m \in Nat /\ m + 1 \in 1 .. n /\ g[m] \in values
    BY <1>2
  <2>3. step[<<m + 1, g[m]>>] \in values
    BY <2>2
  <2> DEFINE f == [k \in 0 .. m + 1 |-> IF k = m + 1 THEN step[<<m + 1, g[m]>>] ELSE g[k]]
  <2>4. f \in [0 .. m + 1 -> values]
    <3>1. \A k \in 0 .. m + 1 : k = m + 1 \/ k \in 0 .. m
      BY <2>2
    <3> QED BY <2>3, <3>1
  <2>5. f[0] = first
    BY <2>1, <2>2
  <2>6. ASSUME NEW k \in 1 .. m + 1 PROVE f[k] = step[<<k, f[k - 1]>>]
    <3>1. CASE k = m + 1
      <4>1. k - 1 = m /\ m \in 0 .. m + 1 /\ m # m + 1
        BY <2>2, <3>1
      <4>2. f[k - 1] = g[m]
        BY <4>1
      <4>3. f[m + 1] = step[<<m + 1, g[m]>>]
        BY <2>2
      <4> HIDE DEF f
      <4> QED BY <3>1, <4>2, <4>3
    <3>2. CASE k # m + 1
      <4>1. k \in 1 .. m /\ k - 1 \in 0 .. m /\ k - 1 # m + 1 /\ k - 1 \in 0 .. m + 1 /\ k \in 0 .. m + 1
        BY <2>2, <3>2
      <4>2. f[k] = g[k] /\ f[k - 1] = g[k - 1]
        BY <3>2, <4>1
      <4> QED BY <2>1, <4>1, <4>2
    <3> QED BY <3>1, <3>2
  <2> HIDE DEF f
  <2> QED BY <1>2, <2>4, <2>5, <2>6
<1> HIDE DEF Done
<1>3. 0 .. n \subseteq Done
  BY <1>1, <1>2, Induct
<1>4. n \in Done
  BY <1>3
<1> QED BY <1>4 DEF Done

Span == [open : Nat, close : Nat]

\* Intervals in order, none empty.
Listed(list) ==
    /\ list \in Seq(Span)
    /\ \A n \in 1 .. Len(list) : list[n].open < list[n].close
    /\ \A n, m \in 1 .. Len(list) : n < m => list[n].close <= list[m].open

Covers(list, x) == \E n \in 1 .. Len(list) : list[n].open <= x /\ x < list[n].close

LEMMA DayOfTime ==
  ASSUME NEW x \in Nat
  PROVE  S!DayOf(x) \in Nat /\ S!DayOf(x) * DayLength <= x /\ x < S!DayOf(x) * DayLength + DayLength
BY SlaAssumption DEF S!DayOf

LEMMA DayMonotone ==
  ASSUME NEW x \in Nat, NEW y \in Nat, x <= y
  PROVE  S!DayOf(x) <= S!DayOf(y)
<1> DEFINE d == S!DayOf(x)
           e == S!DayOf(y)
<1>1. d \in Nat /\ d * DayLength <= x /\ e \in Nat /\ y < e * DayLength + DayLength
  BY DayOfTime
<1> HIDE DEF d, e
<1> SUFFICES ASSUME e < d PROVE FALSE
  BY <1>1 DEF d, e
<1>2. e * DayLength + DayLength <= d * DayLength
  <2>1. ASSUME NEW a \in Nat, NEW b \in Nat, a < b PROVE a * DayLength + DayLength <= b * DayLength
    BY <2>1, SlaAssumption
  <2> QED BY <1>1, <2>1
<1>3. e * DayLength \in Nat /\ d * DayLength \in Nat /\ DayLength \in Nat
  BY <1>1, SlaAssumption
<1> QED BY <1>1, <1>2, <1>3

LEMMA DayIsOne ==
  ASSUME NEW x \in Nat, NEW d \in Nat, d * DayLength <= x, x < d * DayLength + DayLength
  PROVE  S!DayOf(x) = d
<1> DEFINE e == S!DayOf(x)
<1>1. e \in Nat /\ e * DayLength <= x /\ x < e * DayLength + DayLength
  BY DayOfTime
<1> HIDE DEF e
<1>2. ASSUME NEW a \in Nat, NEW b \in Nat, a < b
      PROVE  a * DayLength + DayLength <= b * DayLength
  BY <1>2, SlaAssumption
<1>3. d * DayLength \in Nat /\ e * DayLength \in Nat /\ DayLength \in Nat
  BY <1>1, SlaAssumption
<1>4. ~(d < e)
  <2> SUFFICES ASSUME d < e PROVE FALSE
    OBVIOUS
  <2>1. d * DayLength + DayLength <= e * DayLength
    BY <1>1, <1>2
  <2> QED BY <2>1, <1>1, <1>3
<1>5. ~(e < d)
  <2> SUFFICES ASSUME e < d PROVE FALSE
    OBVIOUS
  <2>1. e * DayLength + DayLength <= d * DayLength
    BY <1>1, <1>2
  <2> QED BY <2>1, <1>1, <1>3
<1>6. d = e
  BY <1>1, <1>4, <1>5
<1> QED BY <1>6 DEF e

LEMMA RegularHours ==
  ASSUME NEW cal \in Calendars
  PROVE  S!ValidHours(S!RegularWorkday(cal))
<1> DEFINE full == {w \in DOMAIN cal.week : cal.week[w] # <<>>}
<1>1. S!ValidHours(<<>>)
  BY DEF S!ValidHours
<1>2. /\ DOMAIN cal.week = 1 .. Len(cal.week) /\ Len(cal.week) \in Nat
      /\ \A w \in DOMAIN cal.week : S!ValidHours(cal.week[w])
  BY SlaAssumption DEF S!ValidCalendar
<1>3. CASE full # {}
  <2>1. full \subseteq Nat
    BY <1>2
  <2>2. PICK w \in full : \A v \in full : w <= v
    <3> HIDE DEF full
    <3> QED BY <1>3, <2>1, LeastNat
  <2>3. (CHOOSE w1 \in full : \A v \in full : w1 <= v) \in full
    <3> HIDE DEF full
    <3> QED BY <2>2
  <2>4. S!RegularWorkday(cal) = cal.week[CHOOSE w1 \in full : \A v \in full : w1 <= v]
    BY <1>3 DEF S!RegularWorkday
  <2> QED BY <1>2, <2>3, <2>4
<1>4. CASE full = {}
  BY <1>1, <1>4 DEF S!RegularWorkday
<1> QED BY <1>3, <1>4

LEMMA DayIsListed ==
  ASSUME NEW cal \in Calendars, NEW d \in Nat
  PROVE  /\ Listed(S!WorkIntervals(cal, d))
         /\ \A n \in 1 .. Len(S!WorkIntervals(cal, d)) :
               /\ d * DayLength <= S!WorkIntervals(cal, d)[n].open
               /\ S!WorkIntervals(cal, d)[n].close <= d * DayLength + DayLength
<1> DEFINE hours == CASE d \in cal.holidays                          -> <<>>
                      [] d \in cal.workdays \ cal.holidays           -> S!RegularWorkday(cal)
                      [] d \notin cal.workdays \cup cal.holidays     -> cal.week[S!Weekday(cal, d)]
           list == [n \in DOMAIN hours |-> [open  |-> d * DayLength + hours[n].from,
                                            close |-> d * DayLength + hours[n].to]]
<1>1. S!ValidHours(hours)
  <2>1. CASE d \in cal.holidays
    <3>1. hours = <<>>
      BY <2>1
    <3>2. S!ValidHours(<<>>)
      BY DEF S!ValidHours
    <3> QED BY <3>1, <3>2
  <2>2. CASE d \in cal.workdays \ cal.holidays
    <3>1. hours = S!RegularWorkday(cal)
      BY <2>2
    <3> QED BY <3>1, RegularHours
  <2>3. CASE d \notin cal.workdays \cup cal.holidays
    <3>1. hours = cal.week[S!Weekday(cal, d)]
      BY <2>3
    <3>2. /\ DOMAIN cal.week = 1 .. Len(cal.week) /\ Len(cal.week) \in Nat \ {0}
          /\ \A w \in DOMAIN cal.week : S!ValidHours(cal.week[w])
      BY SlaAssumption DEF S!ValidCalendar
    <3>0. ASSUME NEW n \in Nat \ {0} PROVE d % n \in 0 .. n - 1
      OBVIOUS
    <3>3. d % Len(cal.week) \in 0 .. Len(cal.week) - 1
      BY <3>0, <3>2
    <3>4. S!Weekday(cal, d) \in DOMAIN cal.week
      <4> DEFINE rest == d % Len(cal.week)
      <4>1. rest \in 0 .. Len(cal.week) - 1 /\ S!Weekday(cal, d) = rest + 1
        BY <3>3 DEF S!Weekday
      <4> HIDE DEF rest
      <4> QED BY <3>2, <4>1
    <3> QED BY <3>1, <3>2, <3>4
  <2> QED BY <2>1, <2>2, <2>3
<1>2. S!WorkIntervals(cal, d) = list
  BY DEF S!WorkIntervals
<1> HIDE DEF hours
<1>3. hours \in Seq([from : Nat, to : Nat]) /\ DOMAIN hours = 1 .. Len(hours) /\ Len(hours) \in Nat
  BY <1>1, LenProperties DEF S!ValidHours
<1> DEFINE from == d * DayLength
<1>4. from \in Nat /\ DayLength \in Nat
  BY SlaAssumption
<1>5. \A n \in 1 .. Len(hours) : hours[n] \in [from : Nat, to : Nat]
  BY <1>3, ElementOfSeq
<1>6. DOMAIN list = 1 .. Len(hours) /\ \A n \in 1 .. Len(hours) : list[n] = [open |-> from + hours[n].from, close |-> from + hours[n].to]
  BY <1>3
<1> HIDE DEF from
<1>7. \A n \in 1 .. Len(hours) : list[n] \in Span
  BY <1>4, <1>5, <1>6 DEF Span
<1>8. list \in Seq(Span) /\ Len(list) = Len(hours)
  <2>1. list = [n \in 1 .. Len(hours) |-> list[n]]
    BY <1>3, <1>6
  <2> HIDE DEF list
  <2>2. list \in [1 .. Len(hours) -> Span]
    BY <1>7, <2>1
  <2> QED BY <1>3, <2>2, SeqDef, LenProperties
<1> HIDE DEF list
<1>9. \A n \in 1 .. Len(list) : list[n].open < list[n].close /\ from <= list[n].open /\ list[n].close <= from + DayLength
  <2> SUFFICES ASSUME NEW n \in 1 .. Len(hours)
               PROVE  list[n].open < list[n].close /\ from <= list[n].open /\ list[n].close <= from + DayLength
    BY <1>8
  <2>1. hours[n].from < hours[n].to /\ hours[n].to <= DayLength
    BY <1>1, <1>3 DEF S!ValidHours
  <2> QED BY <1>4, <1>5, <1>6, <2>1
<1>10. \A n, m \in 1 .. Len(list) : n < m => list[n].close <= list[m].open
  <2> SUFFICES ASSUME NEW n \in 1 .. Len(hours), NEW m \in 1 .. Len(hours), n < m
               PROVE  list[n].close <= list[m].open
    BY <1>8
  <2>1. hours[n].to <= hours[m].from
    BY <1>1, <1>3 DEF S!ValidHours
  <2> QED BY <1>4, <1>5, <1>6, <2>1
<1> QED BY <1>2, <1>8, <1>9, <1>10 DEF Listed, from

\* The list holds the working intervals of n days from day d on.
Joined(cal, d, n, list) ==
    /\ Listed(list)
    /\ \A k \in 1 .. Len(list) : d * DayLength <= list[k].open /\ list[k].close <= (d + n) * DayLength
    /\ \A x \in Nat : d * DayLength <= x /\ x < (d + n) * DayLength =>
          (Covers(list, x) <=> Covers(S!WorkIntervals(cal, S!DayOf(x)), x))

LEMMA JoinDay ==
  ASSUME NEW cal \in Calendars, NEW d \in Nat, NEW n \in Nat, NEW list, Joined(cal, d, n, list)
  PROVE  Joined(cal, d, n + 1, list \o S!WorkIntervals(cal, d + n))
<1> DEFINE more == S!WorkIntervals(cal, d + n)
           all  == list \o more
           from == d * DayLength
           mid  == (d + n) * DayLength
           end  == (d + (n + 1)) * DayLength
<1>1. from \in Nat /\ mid \in Nat /\ DayLength \in Nat /\ d + n \in Nat /\ from <= mid
  <2>1. mid = d * DayLength + n * DayLength /\ d * DayLength \in Nat /\ n * DayLength \in Nat
    BY SlaAssumption
  <2> QED BY <2>1, SlaAssumption
<1>2. end = mid + DayLength
  BY SlaAssumption
<1>3. Listed(more) /\ \A k \in 1 .. Len(more) : mid <= more[k].open /\ more[k].close <= mid + DayLength
  BY <1>1, DayIsListed
<1>4. Listed(list) /\ \A k \in 1 .. Len(list) : from <= list[k].open /\ list[k].close <= mid
  BY DEF Joined
<1>5. \A x \in Nat : from <= x /\ x < mid =>
          (Covers(list, x) <=> Covers(S!WorkIntervals(cal, S!DayOf(x)), x))
  BY DEF Joined
<1>6. \A x \in Nat : mid <= x /\ x < mid + DayLength => S!WorkIntervals(cal, S!DayOf(x)) = more
  BY <1>1, DayIsOne
<1> SUFFICES /\ Listed(all)
             /\ \A k \in 1 .. Len(all) : from <= all[k].open /\ all[k].close <= end
             /\ \A x \in Nat : from <= x /\ x < end =>
                   (Covers(all, x) <=> Covers(S!WorkIntervals(cal, S!DayOf(x)), x))
  BY DEF Joined
<1>7. list \in Seq(Span) /\ more \in Seq(Span)
  BY <1>3, <1>4 DEF Listed
<1> HIDE DEF more, from, mid, end
<1>8. /\ all \in Seq(Span) /\ Len(all) = Len(list) + Len(more)
      /\ \A k \in 1 .. Len(list) + Len(more) : all[k] = IF k <= Len(list) THEN list[k] ELSE more[k - Len(list)]
      /\ Len(list) \in Nat /\ Len(more) \in Nat
  BY <1>7, ConcatProperties, LenProperties
<1> HIDE DEF all
<1>9. \A k \in 1 .. Len(list) : k \in 1 .. Len(all) /\ all[k] = list[k] /\ list[k] \in Span
  BY <1>7, <1>8, ElementOfSeq
<1>10. \A k \in 1 .. Len(more) : Len(list) + k \in 1 .. Len(all) /\ all[Len(list) + k] = more[k] /\ more[k] \in Span
  <2> SUFFICES ASSUME NEW k \in 1 .. Len(more)
               PROVE  Len(list) + k \in 1 .. Len(all) /\ all[Len(list) + k] = more[k] /\ more[k] \in Span
    OBVIOUS
  <2>1. /\ Len(list) + k \in 1 .. Len(list) + Len(more) /\ ~(Len(list) + k <= Len(list))
        /\ (Len(list) + k) - Len(list) = k
    BY <1>8
  <2>2. more[k] \in Span
    BY <1>7, ElementOfSeq
  <2> QED BY <1>8, <2>1, <2>2
<1>11. \A k \in 1 .. Len(all) : k \in 1 .. Len(list) \/ \E j \in 1 .. Len(more) : k = Len(list) + j
  <2> SUFFICES ASSUME NEW k \in 1 .. Len(all), k \notin 1 .. Len(list)
               PROVE  \E j \in 1 .. Len(more) : k = Len(list) + j
    OBVIOUS
  <2>1. k - Len(list) \in 1 .. Len(more) /\ k = Len(list) + (k - Len(list))
    BY <1>8
  <2> QED BY <2>1
<1>12. \A k \in 1 .. Len(all) : all[k].open < all[k].close /\ from <= all[k].open /\ all[k].close <= end
  <2>1. ASSUME NEW k \in 1 .. Len(list)
        PROVE  all[k].open < all[k].close /\ from <= all[k].open /\ all[k].close <= end
    <3>1. list[k].open \in Nat /\ list[k].close \in Nat /\ all[k] = list[k] /\ list[k].open < list[k].close
      BY <1>4, <1>9 DEF Span, Listed
    <3> QED BY <1>1, <1>2, <1>4, <3>1
  <2>2. ASSUME NEW k \in 1 .. Len(more)
        PROVE  /\ all[Len(list) + k].open < all[Len(list) + k].close
               /\ from <= all[Len(list) + k].open /\ all[Len(list) + k].close <= end
    <3>1. more[k].open \in Nat /\ more[k].close \in Nat /\ all[Len(list) + k] = more[k] /\ more[k].open < more[k].close
      BY <1>3, <1>10 DEF Span, Listed
    <3> QED BY <1>1, <1>2, <1>3, <3>1
  <2> QED BY <1>11, <2>1, <2>2
<1>13. ASSUME NEW k \in 1 .. Len(all), NEW m \in 1 .. Len(all), k < m PROVE all[k].close <= all[m].open
  <2>1. CASE k \in 1 .. Len(list) /\ m \in 1 .. Len(list)
    BY <1>4, <1>9, <1>13, <2>1 DEF Listed
  <2>2. ASSUME k \in 1 .. Len(list), NEW j \in 1 .. Len(more), m = Len(list) + j PROVE all[k].close <= all[m].open
    <3>1. list[k].close \in Nat /\ list[k].close <= mid /\ all[k] = list[k]
      BY <1>4, <1>9, <2>2 DEF Span
    <3>2. more[j].open \in Nat /\ mid <= more[j].open /\ all[m] = more[j]
      BY <1>3, <1>10, <2>2 DEF Span
    <3> QED BY <1>1, <3>1, <3>2
  <2>3. ASSUME NEW i \in 1 .. Len(more), k = Len(list) + i, NEW j \in 1 .. Len(more), m = Len(list) + j
        PROVE  all[k].close <= all[m].open
    <3>1. i < j
      BY <1>8, <1>13, <2>3
    <3>2. more[i].close <= more[j].open
      BY <1>3, <3>1 DEF Listed
    <3> QED BY <1>10, <2>3, <3>2
  <2>4. ASSUME NEW i \in 1 .. Len(more), k = Len(list) + i, m \in 1 .. Len(list) PROVE FALSE
    BY <1>8, <1>13, <2>4
  <2> QED BY <1>11, <2>1, <2>2, <2>3, <2>4
<1>14. \A x : Covers(all, x) <=> Covers(list, x) \/ Covers(more, x)
  BY <1>9, <1>10, <1>11 DEF Covers
<1>15. ASSUME NEW x \in Nat, from <= x, x < end
       PROVE  Covers(all, x) <=> Covers(S!WorkIntervals(cal, S!DayOf(x)), x)
  <2>1. CASE x < mid
    <3>1. ~Covers(more, x)
      <4>1. \A k \in 1 .. Len(more) : more[k].open \in Nat /\ mid <= more[k].open
        BY <1>3, <1>10 DEF Span
      <4> QED BY <1>1, <2>1, <4>1 DEF Covers
    <3> QED BY <1>5, <1>14, <1>15, <2>1, <3>1
  <2>2. CASE ~(x < mid)
    <3>1. ~Covers(list, x)
      <4>1. \A k \in 1 .. Len(list) : list[k].close \in Nat /\ list[k].close <= mid
        BY <1>4, <1>9 DEF Span
      <4> QED BY <1>1, <2>2, <4>1 DEF Covers
    <3>2. mid <= x /\ x < mid + DayLength
      BY <1>1, <1>2, <1>15, <2>2
    <3>3. S!WorkIntervals(cal, S!DayOf(x)) = more
      BY <1>6, <3>2
    <3> QED BY <1>14, <3>1, <3>3
  <2> QED BY <2>1, <2>2
<1> QED BY <1>8, <1>12, <1>13, <1>15 DEF Listed

LEMMA SpansJoined ==
  ASSUME NEW cal \in Calendars, NEW x \in Nat, NEW days \in Nat
  PROVE  Joined(cal, S!DayOf(x), days, S!SpansFrom(cal, x, days))
<1> DEFINE d == S!DayOf(x)
           Table(f) == f = [n \in 0 .. days |-> IF n = 0 THEN <<>>
                                                ELSE f[n - 1] \o S!WorkIntervals(cal, d + n - 1)]
           spans == CHOOSE f : Table(f)
           step == [p \in (1 .. days) \X Seq(Span) |-> p[2] \o S!WorkIntervals(cal, d + p[1] - 1)]
<1>0. d \in Nat
  BY DayOfTime
<1> HIDE DEF d
<1>1. \A k \in 1 .. days, list \in Seq(Span) : step[<<k, list>>] = list \o S!WorkIntervals(cal, d + k - 1)
  OBVIOUS
<1>2. \A k \in 1 .. days, list \in Seq(Span) : step[<<k, list>>] \in Seq(Span)
  <2>1. ASSUME NEW k \in 1 .. days, NEW list \in Seq(Span)
        PROVE  list \o S!WorkIntervals(cal, d + k - 1) \in Seq(Span)
    <3>1. d + k - 1 \in Nat
      BY <1>0
    <3>2. S!WorkIntervals(cal, d + k - 1) \in Seq(Span)
      BY <3>1, DayIsListed DEF Listed
    <3> QED BY <3>2, ConcatProperties
  <2> HIDE DEF step
  <2> QED BY <2>1, <1>1
<1> HIDE DEF step
<1>3. \E f : Table(f)
  <2>1. Recursive(days, Seq(Span), <<>>, step)
    BY <1>2 DEF Recursive
  <2>2. PICK f : IsRecursion(f, days, Seq(Span), <<>>, step)
    <3> HIDE DEF Table
    <3> QED BY <2>1, Recursion
  <2>3. \A k \in 1 .. days : f[k] = f[k - 1] \o S!WorkIntervals(cal, d + k - 1)
    <3> SUFFICES ASSUME NEW k \in 1 .. days PROVE f[k] = f[k - 1] \o S!WorkIntervals(cal, d + k - 1)
      OBVIOUS
    <3>1. k - 1 \in 0 .. days
      OBVIOUS
    <3>2. f[k - 1] \in Seq(Span)
      BY <2>2, <3>1 DEF IsRecursion
    <3> QED BY <1>1, <2>2, <3>2 DEF IsRecursion
  <2>4. \A n \in 0 .. days : n = 0 \/ n \in 1 .. days
    OBVIOUS
  <2>5. \A n \in 0 .. days : f[n] = IF n = 0 THEN <<>> ELSE f[n - 1] \o S!WorkIntervals(cal, d + n - 1)
    BY <2>2, <2>3, <2>4 DEF IsRecursion
  <2>6. f = [n \in 0 .. days |-> f[n]]
    BY <2>2 DEF IsRecursion
  <2>7. Table(f)
    BY <2>5, <2>6
  <2> HIDE DEF Table
  <2> QED BY <2>7
<1>4. Table(spans)
  <2> HIDE DEF Table
  <2> QED BY <1>3
<1>5. S!SpansFrom(cal, x, days) = spans[days]
  BY DEF S!SpansFrom, d
<1> HIDE DEF spans
<1>6. \A n \in 0 .. days : spans[n] = IF n = 0 THEN <<>> ELSE spans[n - 1] \o S!WorkIntervals(cal, d + n - 1)
  BY <1>4
<1> DEFINE done == {n \in 0 .. days : Joined(cal, d, n, spans[n])}
<1>7. 0 \in done
  <2>1. spans[0] = <<>> /\ 0 \in 0 .. days /\ Len(<<>>) = 0
    BY <1>6
  <2>2. Listed(<<>>) /\ \A y : ~Covers(<<>>, y)
    BY DEF Listed, Covers
  <2>3. \A y \in Nat : ~(d * DayLength <= y /\ y < (d + 0) * DayLength)
    <3>1. d * DayLength \in Nat /\ (d + 0) * DayLength = d * DayLength
      BY <1>0, SlaAssumption
    <3> QED BY <3>1
  <2>4. Joined(cal, d, 0, <<>>)
    BY <2>2, <2>3 DEF Joined
  <2> QED BY <2>1, <2>4
<1>8. ASSUME NEW n \in 0 .. days, n \in done, n + 1 \in 0 .. days PROVE n + 1 \in done
  <2>1. n \in Nat /\ n + 1 # 0 /\ (n + 1) - 1 = n /\ d + (n + 1) - 1 = d + n
    BY <1>0
  <2>2. spans[n + 1] = spans[n] \o S!WorkIntervals(cal, d + n)
    BY <1>6, <1>8, <2>1
  <2>3. Joined(cal, d, n, spans[n])
    BY <1>8
  <2>4. Joined(cal, d, n + 1, spans[n + 1])
    BY <1>0, <2>1, <2>2, <2>3, JoinDay
  <2> QED BY <1>8, <2>4
<1> HIDE DEF done
<1>9. 0 .. days \subseteq done
  BY <1>7, <1>8, Induct
<1>10. days \in done
  BY <1>9
<1> QED BY <1>5, <1>10 DEF done, d

\* The sums that Total is the last of.
SumOf(start, end, list) ==
    CHOOSE f : f = [n \in 0 .. Len(list) |-> IF n = 0 THEN 0 ELSE f[n - 1] + S!Overlap(list[n], start, end)]

LEMMA OverlapGrows ==
  ASSUME NEW span \in Span, NEW start \in Nat, NEW x \in Nat
  PROVE  /\ S!Overlap(span, start, x) \in Nat
         /\ S!Overlap(span, start, start) = 0
         /\ start <= x /\ span.open < span.close =>
               S!Overlap(span, start, x + 1)
                 = S!Overlap(span, start, x) + IF span.open <= x /\ x < span.close THEN 1 ELSE 0
<1>1. span.open \in Nat /\ span.close \in Nat
  BY DEF Span
<1> QED
  BY <1>1 DEF S!Overlap, S!Larger, S!Smaller

LEMMA SumsExist ==
  ASSUME NEW list \in Seq(Span), NEW start \in Nat, NEW end \in Nat
  PROVE  /\ SumOf(start, end, list) \in [0 .. Len(list) -> Nat]
         /\ SumOf(start, end, list)[0] = 0
         /\ \A n \in 1 .. Len(list) :
               SumOf(start, end, list)[n] = SumOf(start, end, list)[n - 1] + S!Overlap(list[n], start, end)
         /\ S!Total(start, end, list) = SumOf(start, end, list)[Len(list)]
<1> DEFINE Table(f) == f = [n \in 0 .. Len(list) |-> IF n = 0 THEN 0 ELSE f[n - 1] + S!Overlap(list[n], start, end)]
           step == [p \in (1 .. Len(list)) \X Nat |-> p[2] + S!Overlap(list[p[1]], start, end)]
           sums == SumOf(start, end, list)
<1>1. Len(list) \in Nat
  BY LenProperties
<1>2. \A n \in 1 .. Len(list) : S!Overlap(list[n], start, end) \in Nat
  BY ElementOfSeq, OverlapGrows
<1>3. \A n \in 1 .. Len(list), m \in Nat : step[<<n, m>>] = m + S!Overlap(list[n], start, end)
  OBVIOUS
<1> HIDE DEF step
<1>4. Recursive(Len(list), Nat, 0, step)
  BY <1>1, <1>2, <1>3 DEF Recursive
<1>5. PICK f : IsRecursion(f, Len(list), Nat, 0, step)
  <2> HIDE DEF Table, sums
  <2> QED BY <1>4, Recursion
<1>6. /\ f \in [0 .. Len(list) -> Nat] /\ f[0] = 0
      /\ \A n \in 1 .. Len(list) : f[n] = f[n - 1] + S!Overlap(list[n], start, end)
  <2>1. f \in [0 .. Len(list) -> Nat] /\ f[0] = 0 /\ \A n \in 1 .. Len(list) : f[n] = step[<<n, f[n - 1]>>]
    BY <1>5 DEF IsRecursion
  <2>2. ASSUME NEW n \in 1 .. Len(list) PROVE f[n] = f[n - 1] + S!Overlap(list[n], start, end)
    <3>1. n - 1 \in 0 .. Len(list)
      BY <1>1
    <3>2. f[n - 1] \in Nat
      BY <2>1, <3>1
    <3> QED BY <1>3, <2>1, <3>2
  <2> QED BY <2>1, <2>2
<1>7. Table(f)
  <2>1. \A n \in 0 .. Len(list) : n = 0 \/ n \in 1 .. Len(list)
    BY <1>1
  <2>2. \A n \in 0 .. Len(list) : f[n] = IF n = 0 THEN 0 ELSE f[n - 1] + S!Overlap(list[n], start, end)
    BY <1>6, <2>1
  <2>3. f = [n \in 0 .. Len(list) |-> f[n]]
    BY <1>6
  <2> QED BY <2>2, <2>3
<1>8. Table(sums)
  <2>1. sums = CHOOSE g : Table(g)
    BY DEF SumOf
  <2> HIDE DEF Table, sums
  <2> QED BY <1>7, <2>1
<1>9. S!Total(start, end, list) = sums[Len(list)]
  BY DEF S!Total, SumOf
<1> HIDE DEF sums
<1>10. \A n \in 0 .. Len(list) : sums[n] = IF n = 0 THEN 0 ELSE sums[n - 1] + S!Overlap(list[n], start, end)
  BY <1>8
<1>11. sums[0] = 0 /\ \A n \in 1 .. Len(list) : sums[n] = sums[n - 1] + S!Overlap(list[n], start, end)
  <2>1. 0 \in 0 .. Len(list) /\ \A n \in 1 .. Len(list) : n \in 0 .. Len(list) /\ n # 0
    BY <1>1
  <2> QED BY <1>10, <2>1
<1> DEFINE same == {n \in 0 .. Len(list) : sums[n] \in Nat}
<1>12. 0 \in same
  BY <1>1, <1>11
<1>13. \A n \in 0 .. Len(list) : n \in same /\ n + 1 \in 0 .. Len(list) => n + 1 \in same
  <2> SUFFICES ASSUME NEW n \in 0 .. Len(list), n \in same, n + 1 \in 0 .. Len(list) PROVE sums[n + 1] \in Nat
    OBVIOUS
  <2>1. n + 1 \in 1 .. Len(list) /\ (n + 1) - 1 = n
    BY <1>1
  <2>2. sums[n + 1] = sums[n] + S!Overlap(list[n + 1], start, end)
    BY <1>11, <2>1
  <2>3. S!Overlap(list[n + 1], start, end) \in Nat /\ sums[n] \in Nat
    BY <1>2, <2>1
  <2> QED BY <2>2, <2>3
<1> HIDE DEF same
<1>14. 0 .. Len(list) \subseteq same
  BY <1>1, <1>12, <1>13, Induct
<1>15. sums \in [0 .. Len(list) -> Nat]
  <2>1. \A n \in 0 .. Len(list) : sums[n] \in Nat
    BY <1>14 DEF same
  <2>2. DOMAIN sums = 0 .. Len(list) /\ sums = [n \in DOMAIN sums |-> sums[n]]
    BY <1>8
  <2> QED BY <2>1, <2>2
<1> QED BY <1>9, <1>11, <1>15 DEF sums

LEMMA TotalGrows ==
  ASSUME NEW list, Listed(list), NEW start \in Nat, NEW x \in Nat, start <= x
  PROVE  /\ S!Total(start, x, list) \in Nat
         /\ S!Total(start, start, list) = 0
         /\ S!Total(start, x + 1, list) = S!Total(start, x, list) + IF Covers(list, x) THEN 1 ELSE 0
<1> DEFINE none == SumOf(start, start, list)
           sums == SumOf(start, x, list)
           more == SumOf(start, x + 1, list)
           Hit(n) == \E k \in 1 .. n : list[k].open <= x /\ x < list[k].close
<1>0. list \in Seq(Span) /\ x + 1 \in Nat
  BY DEF Listed
<1>1. /\ none \in [0 .. Len(list) -> Nat] /\ none[0] = 0
      /\ \A n \in 1 .. Len(list) : none[n] = none[n - 1] + S!Overlap(list[n], start, start)
      /\ S!Total(start, start, list) = none[Len(list)]
  BY <1>0, SumsExist
<1>2. /\ sums \in [0 .. Len(list) -> Nat] /\ sums[0] = 0
      /\ \A n \in 1 .. Len(list) : sums[n] = sums[n - 1] + S!Overlap(list[n], start, x)
      /\ S!Total(start, x, list) = sums[Len(list)]
  BY <1>0, SumsExist
<1>3. /\ more \in [0 .. Len(list) -> Nat] /\ more[0] = 0
      /\ \A n \in 1 .. Len(list) : more[n] = more[n - 1] + S!Overlap(list[n], start, x + 1)
      /\ S!Total(start, x + 1, list) = more[Len(list)]
  BY <1>0, SumsExist
<1>4. Len(list) \in Nat
  BY <1>0, LenProperties
<1>5. \A n \in 1 .. Len(list) :
         /\ list[n] \in Span /\ list[n].open < list[n].close
         /\ S!Overlap(list[n], start, x) \in Nat
         /\ S!Overlap(list[n], start, start) = 0
         /\ S!Overlap(list[n], start, x + 1)
              = S!Overlap(list[n], start, x) + IF list[n].open <= x /\ x < list[n].close THEN 1 ELSE 0
  BY <1>0, ElementOfSeq, OverlapGrows DEF Listed
<1> HIDE DEF none, sums, more
<1> DEFINE good == {n \in 0 .. Len(list) : none[n] = 0 /\ more[n] = sums[n] + IF Hit(n) THEN 1 ELSE 0}
<1>6. 0 \in good
  <2>1. ~Hit(0)
    OBVIOUS
  <2> HIDE DEF Hit
  <2> QED BY <1>1, <1>2, <1>3, <1>4, <2>1
<1>7. \A n \in 0 .. Len(list) : n \in good /\ n + 1 \in 0 .. Len(list) => n + 1 \in good
  <2> SUFFICES ASSUME NEW n \in 0 .. Len(list), n \in good, n + 1 \in 0 .. Len(list)
               PROVE  none[n + 1] = 0 /\ more[n + 1] = sums[n + 1] + IF Hit(n + 1) THEN 1 ELSE 0
    BY DEF good
  <2> DEFINE hit == list[n + 1].open <= x /\ x < list[n + 1].close
  <2>1. n + 1 \in 1 .. Len(list) /\ (n + 1) - 1 = n
    BY <1>4
  <2>2. /\ none[n + 1] = none[n] + S!Overlap(list[n + 1], start, start)
        /\ sums[n + 1] = sums[n] + S!Overlap(list[n + 1], start, x)
        /\ more[n + 1] = more[n] + S!Overlap(list[n + 1], start, x + 1)
    BY <1>1, <1>2, <1>3, <2>1
  <2>3. none[n] = 0 /\ more[n] = sums[n] + IF Hit(n) THEN 1 ELSE 0
    BY DEF good
  <2>4. sums[n] \in Nat /\ S!Overlap(list[n + 1], start, x) \in Nat
    BY <1>2, <1>5, <2>1
  <2>5. S!Overlap(list[n + 1], start, x + 1) = S!Overlap(list[n + 1], start, x) + IF hit THEN 1 ELSE 0
    BY <1>5, <2>1
  <2>6. Hit(n + 1) <=> Hit(n) \/ hit
    <3>1. \A k \in 1 .. n + 1 : k \in 1 .. n \/ k = n + 1
      BY <1>4
    <3>2. \A k \in 1 .. n : k \in 1 .. n + 1
      BY <1>4
    <3> QED BY <3>1, <3>2, <2>1
  <2>7. ~(Hit(n) /\ hit)
    <3> SUFFICES ASSUME NEW k \in 1 .. n, x < list[k].close, hit PROVE FALSE
      OBVIOUS
    <3>1. k \in 1 .. Len(list) /\ k < n + 1
      BY <1>4
    <3>2. list[k].close <= list[n + 1].open
      BY <2>1, <3>1 DEF Listed
    <3>3. list[k].close \in Nat /\ list[n + 1].open \in Nat
      BY <1>5, <2>1, <3>1 DEF Span
    <3> QED BY <3>2, <3>3
  <2>8. none[n + 1] = 0
    BY <1>5, <2>1, <2>2, <2>3
  <2> HIDE DEF Hit, hit
  <2> QED BY <2>2, <2>3, <2>4, <2>5, <2>6, <2>7, <2>8
<1>8. Hit(Len(list)) <=> Covers(list, x)
  BY DEF Covers
<1> HIDE DEF good, Hit
<1>9. 0 .. Len(list) \subseteq good
  BY <1>4, <1>6, <1>7, Induct
<1>10. Len(list) \in good /\ Len(list) \in 0 .. Len(list)
  BY <1>4, <1>9
<1> QED BY <1>1, <1>2, <1>3, <1>8, <1>10 DEF good

\* The working minutes before an instant.
WorkBefore(cal, x) == Cardinality({m \in 0 .. x - 1 : S!IsWorkingTime(cal, m)})

LEMMA WorkGrows ==
  ASSUME NEW cal, NEW x \in Nat
  PROVE  /\ WorkBefore(cal, 0) = 0
         /\ WorkBefore(cal, x) \in Nat /\ WorkBefore(cal, x) <= x
         /\ WorkBefore(cal, x + 1) = WorkBefore(cal, x) + IF S!IsWorkingTime(cal, x) THEN 1 ELSE 0
<1> DEFINE Passed(n) == {m \in 0 .. n - 1 : S!IsWorkingTime(cal, m)}
<1>1. Passed(0) = {}
  OBVIOUS
<1>2. 0 .. x - 1 = {} \/ x - 1 \in Nat
  OBVIOUS
<1>3. IsFiniteSet(0 .. x - 1) /\ Cardinality(0 .. x - 1) <= x
  <2>1. x - 1 \in Int /\ 0 \in Int
    OBVIOUS
  <2>2. IsFiniteSet(0 .. x - 1) /\ Cardinality(0 .. x - 1) = IF 0 > x - 1 THEN 0 ELSE x - 1 - 0 + 1
    BY <2>1, FS_Interval
  <2> QED BY <2>2
<1>4. IsFiniteSet(Passed(x)) /\ Cardinality(Passed(x)) <= Cardinality(0 .. x - 1)
  <2>1. Passed(x) \in SUBSET (0 .. x - 1)
    OBVIOUS
  <2> HIDE DEF Passed
  <2> QED BY <1>3, <2>1, FS_Subset
<1>5. Passed(x + 1) = IF S!IsWorkingTime(cal, x) THEN Passed(x) \cup {x} ELSE Passed(x)
  <2>1. \A m : m \in 0 .. (x + 1) - 1 <=> m \in 0 .. x - 1 \/ m = x
    OBVIOUS
  <2> QED BY <2>1
<1>6. x \notin Passed(x)
  OBVIOUS
<1>7. Cardinality(Passed(x)) \in Nat
  BY <1>4, FS_CardinalityType
<1>8. Cardinality(Passed(x + 1)) = Cardinality(Passed(x)) + IF S!IsWorkingTime(cal, x) THEN 1 ELSE 0
  <2> HIDE DEF Passed
  <2>1. Cardinality(Passed(x) \cup {x}) = Cardinality(Passed(x)) + 1
    BY <1>4, <1>6, FS_AddElement
  <2> QED BY <1>5, <1>7, <2>1
<1>9. WorkBefore(cal, 0) = Cardinality(Passed(0)) /\ WorkBefore(cal, x) = Cardinality(Passed(x))
      /\ WorkBefore(cal, x + 1) = Cardinality(Passed(x + 1))
  BY DEF WorkBefore
<1>10. Cardinality({}) = 0
  BY FS_EmptySet
<1>11. Cardinality(0 .. x - 1) \in Nat
  BY <1>3, FS_CardinalityType
<1>12. Cardinality(Passed(x)) <= x
  <2> DEFINE all == Cardinality(0 .. x - 1)
             some == Cardinality(Passed(x))
  <2>1. all \in Nat /\ some \in Nat /\ all <= x /\ some <= all
    BY <1>3, <1>4, <1>7, <1>11
  <2> HIDE DEF all, some
  <2>2. some <= x
    BY <2>1
  <2> QED BY <2>2 DEF some
<1> HIDE DEF Passed
<1>13. Cardinality(Passed(0)) = 0
  BY <1>1, <1>10
<1> QED BY <1>7, <1>8, <1>9, <1>12, <1>13

\* Of two instants the later one has no less work before it.
LEMMA WorkMonotone ==
  ASSUME NEW cal, NEW x \in Nat, NEW y \in Nat, x <= y
  PROVE  WorkBefore(cal, x) <= WorkBefore(cal, y) /\ WorkBefore(cal, y) - WorkBefore(cal, x) <= y - x
<1> DEFINE good == {n \in Nat : /\ WorkBefore(cal, x) <= WorkBefore(cal, x + n)
                                /\ WorkBefore(cal, x + n) - WorkBefore(cal, x) <= n}
<1>1. 0 \in good
  BY WorkGrows
<1>2. \A n \in 0 .. y - x : n \in good /\ n + 1 \in 0 .. y - x => n + 1 \in good
  <2> SUFFICES ASSUME NEW n \in Nat, n \in good PROVE n + 1 \in good
    OBVIOUS
  <2>1. x + n \in Nat /\ x + (n + 1) = (x + n) + 1 /\ n + 1 \in Nat
    OBVIOUS
  <2>2. /\ WorkBefore(cal, x) \in Nat /\ WorkBefore(cal, x + n) \in Nat
        /\ WorkBefore(cal, (x + n) + 1) = WorkBefore(cal, x + n) + IF S!IsWorkingTime(cal, x + n) THEN 1 ELSE 0
    BY <2>1, WorkGrows
  <2> QED BY <2>1, <2>2
<1>3. y - x \in Nat /\ x + (y - x) = y
  OBVIOUS
<1> HIDE DEF good
<1>4. 0 .. y - x \subseteq good
  BY <1>1, <1>2, <1>3, Induct
<1>5. y - x \in good
  BY <1>3, <1>4
<1> QED BY <1>3, <1>5 DEF good

LEMMA CoversIsWorking ==
  ASSUME NEW cal \in Calendars, NEW x \in Nat, S!HasWorkingTime(cal)
  PROVE  Covers(S!WorkIntervals(cal, S!DayOf(x)), x) <=> S!IsWorkingTime(cal, x)
<1>1. Listed(S!WorkIntervals(cal, S!DayOf(x)))
  BY DayOfTime, DayIsListed
<1>2. DOMAIN S!WorkIntervals(cal, S!DayOf(x)) = 1 .. Len(S!WorkIntervals(cal, S!DayOf(x)))
  BY <1>1, LenProperties DEF Listed
<1> QED BY <1>2 DEF Covers, S!IsWorkingTime

\* The minutes of a list of days that overlap a span of time are its working minutes.
LEMMA TotalIsWork ==
  ASSUME NEW cal \in Calendars, S!HasWorkingTime(cal), NEW start \in Nat, NEW days \in Nat,
         NEW x \in Nat, start <= x, x <= (S!DayOf(start) + days) * DayLength
  PROVE  S!Total(start, x, S!SpansFrom(cal, start, days)) = WorkBefore(cal, x) - WorkBefore(cal, start)
<1> DEFINE list == S!SpansFrom(cal, start, days)
           from == S!DayOf(start) * DayLength
           end  == (S!DayOf(start) + days) * DayLength
<1>1. Joined(cal, S!DayOf(start), days, list)
  BY SpansJoined
<1>2. Listed(list)
  BY <1>1 DEF Joined
<1>3. from \in Nat /\ end \in Nat /\ from <= start
  <2>1. S!DayOf(start) \in Nat /\ from <= start
    BY DayOfTime
  <2> QED BY <2>1, SlaAssumption
<1>4. ASSUME NEW y \in Nat, start <= y, y < end PROVE Covers(list, y) <=> S!IsWorkingTime(cal, y)
  <2>1. from <= y
    BY <1>3, <1>4
  <2>2. Covers(list, y) <=> Covers(S!WorkIntervals(cal, S!DayOf(y)), y)
    BY <1>1, <1>4, <2>1 DEF Joined
  <2> HIDE DEF list
  <2> QED BY <2>2, CoversIsWorking
<1> HIDE DEF list, end
<1> DEFINE good == {n \in Nat : S!Total(start, start + n, list)
                                  = WorkBefore(cal, start + n) - WorkBefore(cal, start)}
<1>5. 0 \in good
  BY <1>2, TotalGrows, WorkGrows
<1>6. \A n \in 0 .. x - start : n \in good /\ n + 1 \in 0 .. x - start => n + 1 \in good
  <2> SUFFICES ASSUME NEW n \in Nat, n \in good, n + 1 <= x - start PROVE n + 1 \in good
    OBVIOUS
  <2>1. start + n \in Nat /\ start + (n + 1) = (start + n) + 1 /\ n + 1 \in Nat /\ start <= start + n
    OBVIOUS
  <2>2. start + n < end
    <3>1. x <= end
      BY DEF end
    <3> QED BY <1>3, <3>1
  <2>3. /\ WorkBefore(cal, start) \in Nat /\ WorkBefore(cal, start + n) \in Nat
        /\ WorkBefore(cal, (start + n) + 1)
             = WorkBefore(cal, start + n) + IF S!IsWorkingTime(cal, start + n) THEN 1 ELSE 0
    BY <2>1, WorkGrows
  <2>4. S!Total(start, (start + n) + 1, list)
          = S!Total(start, start + n, list) + IF Covers(list, start + n) THEN 1 ELSE 0
    BY <1>2, <2>1, TotalGrows
  <2>5. Covers(list, start + n) <=> S!IsWorkingTime(cal, start + n)
    BY <1>4, <2>1, <2>2
  <2>6. S!Total(start, start + n, list) = WorkBefore(cal, start + n) - WorkBefore(cal, start)
    BY DEF good
  <2>7. S!Total(start, (start + n) + 1, list) = WorkBefore(cal, (start + n) + 1) - WorkBefore(cal, start)
    BY <2>3, <2>4, <2>5, <2>6
  <2> QED BY <2>1, <2>7
<1>7. x - start \in Nat /\ start + (x - start) = x
  OBVIOUS
<1> HIDE DEF good
<1>8. 0 .. x - start \subseteq good
  BY <1>5, <1>6, <1>7, Induct
<1>9. x - start \in good
  BY <1>7, <1>8
<1> QED BY <1>7, <1>9 DEF good, list

LEMMA AllIsWork ==
  ASSUME NEW cal, ~S!HasWorkingTime(cal), NEW x \in Nat
  PROVE  WorkBefore(cal, x) = x
<1> DEFINE good == {n \in Nat : WorkBefore(cal, n) = n}
<1>1. 0 \in good
  BY WorkGrows
<1>2. \A n \in 0 .. x : n \in good /\ n + 1 \in 0 .. x => n + 1 \in good
  <2> SUFFICES ASSUME NEW n \in Nat, n \in good PROVE n + 1 \in good
    OBVIOUS
  <2>1. S!IsWorkingTime(cal, n)
    BY DEF S!IsWorkingTime
  <2> QED BY <2>1, WorkGrows
<1> HIDE DEF good
<1>3. 0 .. x \subseteq good
  BY <1>1, <1>2, Induct
<1>4. x \in good
  BY <1>3
<1> QED BY <1>4 DEF good

\* businessMinutesBetween counts the working minutes from one instant to a later one.
THEOREM BetweenIsWork ==
  ASSUME NEW cal \in Calendars, NEW start \in Nat, NEW end \in 0 .. MaxTime, start <= end
  PROVE  S!BusinessMinutesBetween(cal, start, end) = WorkBefore(cal, end) - WorkBefore(cal, start)
<1>0. end \in Nat /\ MaxTime \in Nat /\ end <= MaxTime
  BY SlaAssumption
<1>1. WorkBefore(cal, start) \in Nat /\ WorkBefore(cal, end) \in Nat
  BY <1>0, WorkGrows
<1>2. CASE ~S!HasWorkingTime(cal)
  <2>1. S!BusinessMinutesBetween(cal, start, end) = end - start
    BY <1>0, <1>2 DEF S!BusinessMinutesBetween, S!Larger
  <2> QED BY <1>0, <1>2, <2>1, AllIsWork
<1>3. CASE S!HasWorkingTime(cal) /\ end = start
  BY <1>0, <1>1, <1>3 DEF S!BusinessMinutesBetween, S!Larger
<1>4. CASE S!HasWorkingTime(cal) /\ end # start
  <2> DEFINE d == S!DayOf(start)
             e == S!DayOf(end)
             days == e - d + 1
  <2>1. d \in Nat /\ d * DayLength <= start /\ e \in Nat /\ end < e * DayLength + DayLength
    BY <1>0, DayOfTime
  <2>2. d <= e /\ e < SearchDays
    <3>1. d <= e /\ e <= S!DayOf(MaxTime) /\ S!DayOf(MaxTime) \in Nat
      BY <1>0, DayMonotone, DayOfTime
    <3>2. S!DayOf(MaxTime) < SearchDays /\ SearchDays \in Nat
      BY SlaAssumption
    <3> HIDE DEF d, e
    <3> QED BY <2>1, <3>1, <3>2
  <2>3. days \in Nat /\ d + days = e + 1
    BY <2>1, <2>2
  <2>4. end <= (d + days) * DayLength
    <3>1. (e + 1) * DayLength = e * DayLength + DayLength /\ e * DayLength \in Nat /\ DayLength \in Nat
      BY <2>1, SlaAssumption
    <3> HIDE DEF d, e, days
    <3> QED BY <2>1, <2>3, <3>1
  <2>5. S!BusinessMinutesBetween(cal, start, end) = S!Total(start, end, S!SpansFrom(cal, start, days))
    <3>1. S!Smaller(days, SearchDays) = days
      <4> HIDE DEF d, e
      <4> QED BY <2>1, <2>2, SlaAssumption DEF S!Smaller
    <3>2. ~(end <= start)
      BY <1>0, <1>4
    <3> QED BY <1>4, <3>1, <3>2 DEF S!BusinessMinutesBetween
  <2>6. S!Total(start, end, S!SpansFrom(cal, start, days)) = WorkBefore(cal, end) - WorkBefore(cal, start)
    <3> HIDE DEF e, days
    <3> QED BY <1>0, <1>4, <2>3, <2>4, TotalIsWork
  <2> QED BY <2>5, <2>6
<1> QED BY <1>2, <1>3, <1>4

\* The search after each interval, of which Search is the last.
SearchOf(start, minutes, list) ==
    CHOOSE f : f = [n \in 0 .. Len(list) |-> IF n = 0 THEN [left |-> minutes, at |-> S!Never]
                                             ELSE S!Searched(f[n - 1], list[n], start)]

Found == [left : Nat, at : Nat \cup {S!Never}]

LEMMA SearchedTyped ==
  ASSUME NEW found \in Found, NEW span \in Span, NEW start \in Nat
  PROVE  S!Searched(found, span, start) \in Found
<1>1. span.open \in Nat /\ span.close \in Nat
  BY DEF Span
<1> DEFINE begin == S!Larger(span.open, start)
<1>2. begin \in Nat
  BY <1>1 DEF S!Larger
<1>3. found.left \in Nat /\ found.at \in Nat \cup {S!Never}
  BY DEF Found
<1> HIDE DEF begin
<1>4. CASE found.at # S!Never \/ span.close <= start
  <2>1. ~(found.at = S!Never /\ span.close > start /\ S!Larger(span.open, start) + found.left <= span.close)
    BY <1>1, <1>4
  <2>2. S!Searched(found, span, start) = found
    BY <1>4, <2>1 DEF S!Searched
  <2> QED BY <2>2
<1>5. CASE found.at = S!Never /\ span.close > start /\ begin + found.left <= span.close
  <2>1. S!Searched(found, span, start) = [found EXCEPT !.at = begin + found.left]
    BY <1>1, <1>5 DEF S!Searched, begin
  <2>2. begin + found.left \in Nat
    BY <1>2, <1>3
  <2> QED BY <2>1, <2>2 DEF Found
<1>6. CASE found.at = S!Never /\ span.close > start /\ ~(begin + found.left <= span.close)
  <2>1. S!Searched(found, span, start) = [found EXCEPT !.left = found.left - (span.close - begin)]
    BY <1>1, <1>6 DEF S!Searched, begin
  <2>2. found.left - (span.close - begin) \in Nat
    BY <1>1, <1>2, <1>3, <1>6
  <2> QED BY <2>1, <2>2 DEF Found
<1>7. span.close <= start \/ span.close > start
  BY <1>1
<1> QED BY <1>4, <1>5, <1>6, <1>7

LEMMA SearchExists ==
  ASSUME NEW list \in Seq(Span), NEW start \in Nat, NEW minutes \in Nat
  PROVE  /\ SearchOf(start, minutes, list)[0] = [left |-> minutes, at |-> S!Never]
         /\ \A n \in 1 .. Len(list) :
               SearchOf(start, minutes, list)[n] = S!Searched(SearchOf(start, minutes, list)[n - 1], list[n], start)
         /\ \A n \in 0 .. Len(list) : SearchOf(start, minutes, list)[n] \in Found
         /\ S!Search(start, minutes, list) = SearchOf(start, minutes, list)[Len(list)].at
<1> DEFINE first == [left |-> minutes, at |-> S!Never]
           Table(f) == f = [n \in 0 .. Len(list) |-> IF n = 0 THEN first ELSE S!Searched(f[n - 1], list[n], start)]
           step == [p \in (1 .. Len(list)) \X Found |-> S!Searched(p[2], list[p[1]], start)]
           search == SearchOf(start, minutes, list)
<1>1. Len(list) \in Nat
  BY LenProperties
<1>2. \A n \in 1 .. Len(list), found \in Found : S!Searched(found, list[n], start) \in Found
  BY ElementOfSeq, SearchedTyped
<1>3. \A n \in 1 .. Len(list), found \in Found : step[<<n, found>>] = S!Searched(found, list[n], start)
  OBVIOUS
<1>4. first \in Found
  BY DEF Found
<1>5. SearchOf(start, minutes, list) = CHOOSE f : Table(f)
  BY DEF SearchOf
<1>6. S!Search(start, minutes, list) = search[Len(list)].at
  BY DEF S!Search, SearchOf
<1> HIDE DEF step, first, search
<1>7. Recursive(Len(list), Found, first, step)
  BY <1>1, <1>2, <1>3, <1>4 DEF Recursive
<1>8. PICK f : IsRecursion(f, Len(list), Found, first, step)
  <2> HIDE DEF Table
  <2> QED BY <1>7, Recursion
<1>9. f \in [0 .. Len(list) -> Found] /\ f[0] = first /\ \A n \in 1 .. Len(list) : f[n] = step[<<n, f[n - 1]>>]
  BY <1>8 DEF IsRecursion
<1>10. Table(f)
  <2>1. \A n \in 0 .. Len(list) : n = 0 \/ n \in 1 .. Len(list)
    BY <1>1
  <2>2. ASSUME NEW n \in 1 .. Len(list) PROVE f[n] = S!Searched(f[n - 1], list[n], start)
    <3>1. n - 1 \in 0 .. Len(list)
      BY <1>1
    <3>2. f[n - 1] \in Found
      BY <1>9, <3>1
    <3> QED BY <1>3, <1>9, <3>2
  <2>3. \A n \in 0 .. Len(list) : f[n] = IF n = 0 THEN first ELSE S!Searched(f[n - 1], list[n], start)
    BY <1>9, <2>1, <2>2
  <2>4. f = [n \in 0 .. Len(list) |-> f[n]]
    BY <1>9
  <2> QED BY <2>3, <2>4
<1>11. Table(search)
  <2> HIDE DEF Table
  <2> QED BY <1>5, <1>10 DEF search
<1>12. \A n \in 0 .. Len(list) : search[n] = IF n = 0 THEN first ELSE S!Searched(search[n - 1], list[n], start)
  BY <1>11
<1>13. search[0] = first /\ \A n \in 1 .. Len(list) : search[n] = S!Searched(search[n - 1], list[n], start)
  <2>1. 0 \in 0 .. Len(list) /\ \A n \in 1 .. Len(list) : n \in 0 .. Len(list) /\ n # 0
    BY <1>1
  <2> QED BY <1>12, <2>1
<1> HIDE DEF Table
<1> DEFINE good == {n \in 0 .. Len(list) : search[n] \in Found}
<1>14. 0 \in good
  BY <1>1, <1>4, <1>13
<1>15. \A n \in 0 .. Len(list) : n \in good /\ n + 1 \in 0 .. Len(list) => n + 1 \in good
  <2> SUFFICES ASSUME NEW n \in 0 .. Len(list), n \in good, n + 1 \in 0 .. Len(list) PROVE search[n + 1] \in Found
    OBVIOUS
  <2>1. n + 1 \in 1 .. Len(list) /\ (n + 1) - 1 = n
    BY <1>1
  <2>2. search[n + 1] = S!Searched(search[n], list[n + 1], start)
    BY <1>13, <2>1
  <2> QED BY <1>2, <2>1, <2>2
<1> HIDE DEF good
<1>16. 0 .. Len(list) \subseteq good
  BY <1>1, <1>14, <1>15, Induct
<1>17. \A n \in 0 .. Len(list) : search[n] \in Found
  BY <1>16 DEF good
<1> QED BY <1>6, <1>13, <1>17 DEF search, first

\* Up to the instant that is found just the minutes searched for have passed, the last one of them working.
LEMMA SearchFinds ==
  ASSUME NEW list, Listed(list), NEW start \in Nat, NEW minutes \in Nat,
         S!Search(start, minutes, list) # S!Never
  PROVE  LET at == S!Search(start, minutes, list) IN
         /\ at \in Nat /\ start <= at
         /\ S!Total(start, at, list) = minutes
         /\ \E n \in 1 .. Len(list) : at <= list[n].close
         /\ minutes # 0 => start <= at - 1 /\ Covers(list, at - 1)
<1> DEFINE search == SearchOf(start, minutes, list)
           Sum(x) == SumOf(start, x, list)
           Open(n) == search[n].at = S!Never =>
                        /\ minutes # 0 => search[n].left # 0
                        /\ \A x \in Nat : start <= x /\ (n = 0 \/ list[n].close <= x) =>
                              Sum(x)[n] + search[n].left = minutes
           Seen(n) == search[n].at # S!Never =>
                        /\ start <= search[n].at
                        /\ n \in 1 .. Len(list) /\ search[n].at <= list[n].close
                        /\ Sum(search[n].at)[n] = minutes
                        /\ minutes # 0 => start <= search[n].at - 1 /\ Covers(list, search[n].at - 1)
<1>1. list \in Seq(Span) /\ Len(list) \in Nat
  BY LenProperties DEF Listed
<1>2. /\ search[0] = [left |-> minutes, at |-> S!Never]
      /\ \A n \in 1 .. Len(list) : search[n] = S!Searched(search[n - 1], list[n], start)
      /\ \A n \in 0 .. Len(list) : search[n] \in Found
      /\ S!Search(start, minutes, list) = search[Len(list)].at
  BY <1>1, SearchExists
<1>3. \A x \in Nat : /\ Sum(x)[0] = 0
                     /\ \A n \in 0 .. Len(list) : Sum(x)[n] \in Nat
                     /\ \A n \in 1 .. Len(list) : Sum(x)[n] = Sum(x)[n - 1] + S!Overlap(list[n], start, x)
                     /\ S!Total(start, x, list) = Sum(x)[Len(list)]
  <2> SUFFICES ASSUME NEW x \in Nat
               PROVE  /\ Sum(x)[0] = 0
                      /\ Sum(x) \in [0 .. Len(list) -> Nat]
                      /\ \A n \in 1 .. Len(list) : Sum(x)[n] = Sum(x)[n - 1] + S!Overlap(list[n], start, x)
                      /\ S!Total(start, x, list) = Sum(x)[Len(list)]
    OBVIOUS
  <2> QED BY <1>1, SumsExist
<1> HIDE DEF search, Sum
<1> DEFINE good == {n \in 0 .. Len(list) : Open(n) /\ Seen(n)}
<1>4. 0 \in good
  <2>1. Open(0) /\ Seen(0)
    BY <1>2, <1>3
  <2> QED BY <1>1, <2>1
<1>5. \A n \in 0 .. Len(list) : n \in good /\ n + 1 \in 0 .. Len(list) => n + 1 \in good
  <2> SUFFICES ASSUME NEW n \in 0 .. Len(list), Open(n), Seen(n), n + 1 \in 0 .. Len(list)
               PROVE  Open(n + 1) /\ Seen(n + 1)
    BY DEF good
  <2> DEFINE span  == list[n + 1]
             left  == search[n].left
             begin == S!Larger(span.open, start)
  <2>1. n + 1 \in 1 .. Len(list) /\ (n + 1) - 1 = n /\ n \in Nat /\ n + 1 # 0
    BY <1>1
  <2>2. search[n + 1] = S!Searched(search[n], span, start)
    BY <1>2, <2>1
  <2>3. span.open \in Nat /\ span.close \in Nat /\ span.open < span.close
    <3>1. span \in Span
      BY <1>1, <2>1, ElementOfSeq
    <3> QED BY <2>1, <3>1 DEF Span, Listed
  <2>4. n # 0 => n \in 1 .. Len(list) /\ list[n].close \in Nat /\ list[n].close <= span.open
    <3>1. n # 0 => n \in 1 .. Len(list) /\ n < n + 1
      BY <2>1
    <3>2. n # 0 => list[n] \in Span
      BY <1>1, <3>1, ElementOfSeq
    <3> QED BY <2>1, <3>1, <3>2 DEF Span, Listed
  <2>5. left \in Nat /\ search[n].at \in Nat \cup {S!Never} /\ search[n] \in Found
    BY <1>2 DEF Found
  <2>6. \A x \in Nat : Sum(x)[n + 1] = Sum(x)[n] + S!Overlap(span, start, x) /\ Sum(x)[n] \in Nat
    BY <1>3, <2>1
  <2>7. begin \in Nat /\ span.open <= begin /\ start <= begin /\ (begin = span.open \/ begin = start)
    BY <2>3 DEF S!Larger
  <2> HIDE DEF begin
  <2>8. \A x \in Nat : S!Overlap(span, start, x) = S!Larger(0, S!Smaller(span.close, x) - begin)
    BY DEF S!Overlap, begin
  <2> HIDE DEF left, span
  <2>9. CASE search[n].at # S!Never
    <3> DEFINE at == search[n].at
    <3>1. search[n + 1] = search[n]
      BY <2>2, <2>9 DEF S!Searched
    <3>2. at \in Nat /\ start <= at /\ n # 0 /\ at <= list[n].close /\ Sum(at)[n] = minutes
      BY <2>5, <2>9
    <3>3. minutes # 0 => start <= at - 1 /\ Covers(list, at - 1)
      BY <2>9
    <3> HIDE DEF at
    <3>4. at <= span.open /\ at <= span.close
      BY <2>3, <2>4, <3>2
    <3>5. S!Overlap(span, start, at) = 0
      BY <2>3, <2>7, <2>8, <3>2, <3>4 DEF S!Larger, S!Smaller
    <3>6. Sum(at)[n + 1] = minutes
      BY <2>6, <3>2, <3>5
    <3>7. /\ start <= at /\ n + 1 \in 1 .. Len(list) /\ at <= list[n + 1].close /\ Sum(at)[n + 1] = minutes
          /\ minutes # 0 => start <= at - 1 /\ Covers(list, at - 1)
      BY <2>1, <3>2, <3>3, <3>4, <3>6 DEF span
    <3> QED BY <2>9, <3>1, <3>7 DEF at
  <2>10. ASSUME search[n].at = S!Never, NEW x \in Nat, start <= x, span.close <= x
         PROVE  Sum(x)[n] + left = minutes /\ Sum(x)[n] \in Nat /\ Sum(x)[n + 1] = Sum(x)[n] + S!Overlap(span, start, x)
    <3>1. n = 0 \/ list[n].close <= x
      BY <2>3, <2>4, <2>10
    <3>2. Sum(x)[n] + search[n].left = minutes
      BY <2>10, <3>1
    <3> QED BY <2>6, <2>10, <3>2 DEF left
  <2>11. CASE search[n].at = S!Never /\ span.close <= start
    <3>1. search[n + 1] = search[n]
      <4>1. ~(span.close > start)
        BY <2>3, <2>11
      <4> QED BY <2>2, <2>11, <4>1 DEF S!Searched
    <3>2. ASSUME NEW x \in Nat, start <= x, span.close <= x PROVE Sum(x)[n + 1] + left = minutes
      <4>1. Sum(x)[n] + left = minutes /\ Sum(x)[n] \in Nat /\ Sum(x)[n + 1] = Sum(x)[n] + S!Overlap(span, start, x)
        BY <2>10, <2>11, <3>2
      <4>2. S!Overlap(span, start, x) = 0
        BY <2>3, <2>7, <2>8, <2>11, <3>2 DEF S!Larger, S!Smaller
      <4> QED BY <2>5, <4>1, <4>2
    <3>3. minutes # 0 => left # 0
      BY <2>11 DEF left
    <3> QED BY <2>1, <2>11, <3>1, <3>2, <3>3 DEF left, span
  <2>12. CASE search[n].at = S!Never /\ span.close > start /\ begin + left <= span.close
    <3> DEFINE at == begin + left
    <3>0. ~(span.close <= start)
      BY <2>3, <2>12
    <3>1. search[n + 1] = [search[n] EXCEPT !.at = at]
      BY <2>2, <2>12, <3>0 DEF S!Searched, begin, left
    <3>2. search[n + 1].at = at
      BY <2>5, <3>1 DEF Found
    <3>3. at \in Nat /\ start <= at /\ at <= span.close /\ begin <= at /\ at # S!Never
      BY <2>5, <2>7, <2>12 DEF S!Never
    <3>4. Sum(at)[n] + left = minutes /\ Sum(at)[n] \in Nat
      <4>1. n = 0 \/ list[n].close <= at
        BY <2>3, <2>4, <2>7, <3>3
      <4>2. Sum(at)[n] + search[n].left = minutes
        BY <2>12, <3>3, <4>1
      <4> QED BY <2>6, <3>3, <4>2 DEF left
    <3>5. minutes # 0 => left # 0
      BY <2>12 DEF left
    <3>6. S!Overlap(span, start, at) = left
      <4>1. S!Smaller(span.close, at) = at
        BY <2>3, <3>3 DEF S!Smaller
      <4>2. at - begin = left
        BY <2>5, <2>7
      <4>3. S!Overlap(span, start, at) = S!Larger(0, at - begin)
        BY <2>8, <3>3, <4>1
      <4> QED BY <2>5, <4>2, <4>3 DEF S!Larger
    <3>7. minutes # 0 => start <= at - 1 /\ span.open <= at - 1 /\ at - 1 < span.close
      BY <2>3, <2>5, <2>7, <3>3, <3>5
    <3> HIDE DEF at
    <3>8. Sum(at)[n + 1] = minutes
      <4>1. Sum(at)[n + 1] = Sum(at)[n] + S!Overlap(span, start, at)
        BY <2>6, <3>3
      <4> QED BY <2>5, <3>4, <3>6, <4>1
    <3>9. minutes # 0 => Covers(list, at - 1)
      BY <2>1, <3>7 DEF Covers, span
    <3>10. /\ start <= at /\ n + 1 \in 1 .. Len(list) /\ at <= list[n + 1].close /\ Sum(at)[n + 1] = minutes
           /\ minutes # 0 => start <= at - 1 /\ Covers(list, at - 1)
      BY <2>1, <3>3, <3>7, <3>8, <3>9 DEF span
    <3> QED BY <3>2, <3>3, <3>10
  <2>13. CASE search[n].at = S!Never /\ span.close > start /\ ~(begin + left <= span.close)
    <3> DEFINE rest == left - (span.close - begin)
    <3>0. ~(span.close <= start)
      BY <2>3, <2>13
    <3>1. search[n + 1] = [search[n] EXCEPT !.left = rest]
      BY <2>2, <2>13, <3>0 DEF S!Searched, begin, left
    <3>2. search[n + 1].at = S!Never /\ search[n + 1].left = rest
      BY <2>5, <2>13, <3>1 DEF Found
    <3> DEFINE length == span.close - begin
    <3>3. length \in Nat /\ length # 0 /\ rest = left - length /\ begin + left > span.close
      <4>1. begin < span.close
        BY <2>3, <2>7, <2>13
      <4>2. begin + left > span.close
        BY <2>3, <2>5, <2>7, <2>13
      <4> QED BY <2>3, <2>7, <4>1, <4>2
    <3>5. length < left
      BY <2>3, <2>5, <2>7, <3>3
    <3> HIDE DEF length, rest
    <3>6. rest \in Nat /\ rest # 0 /\ rest + length = left
      BY <2>5, <3>3, <3>5
    <3>4. ASSUME NEW x \in Nat, start <= x, span.close <= x PROVE Sum(x)[n + 1] + rest = minutes
      <4>1. Sum(x)[n] + left = minutes /\ Sum(x)[n] \in Nat /\ Sum(x)[n + 1] = Sum(x)[n] + S!Overlap(span, start, x)
        BY <2>10, <2>13, <3>4
      <4>2. S!Overlap(span, start, x) = length
        <5>1. S!Smaller(span.close, x) = span.close
          BY <2>3, <3>4 DEF S!Smaller
        <5>2. S!Overlap(span, start, x) = S!Larger(0, length)
          BY <2>8, <3>4, <5>1 DEF length
        <5> QED BY <3>3, <5>2 DEF S!Larger
      <4> QED BY <3>3, <3>6, <4>1, <4>2
    <3> QED BY <2>1, <3>2, <3>6, <3>4 DEF span
  <2>14. span.close <= start \/ span.close > start
    BY <2>3
  <2> HIDE DEF Open, Seen
  <2> QED BY <2>9, <2>11, <2>12, <2>13, <2>14
<1> HIDE DEF good
<1>6. 0 .. Len(list) \subseteq good
  BY <1>1, <1>4, <1>5, Induct
<1>7. Seen(Len(list)) /\ search[Len(list)] \in Found
  <2>1. Len(list) \in 0 .. Len(list)
    BY <1>1
  <2>2. Len(list) \in good
    BY <1>6, <2>1
  <2> HIDE DEF Seen
  <2> QED BY <1>2, <2>1, <2>2 DEF good
<1> DEFINE at == S!Search(start, minutes, list)
<1>8. at # S!Never /\ at = search[Len(list)].at /\ at \in Nat
  <2>1. at = search[Len(list)].at
    BY <1>2
  <2>2. search[Len(list)].at \in Nat \cup {S!Never}
    BY <1>7 DEF Found
  <2> QED BY <2>1, <2>2
<1> HIDE DEF at
<1>9. /\ start <= at
      /\ Len(list) \in 1 .. Len(list) /\ at <= list[Len(list)].close
      /\ Sum(at)[Len(list)] = minutes
      /\ minutes # 0 => start <= at - 1 /\ Covers(list, at - 1)
  BY <1>7, <1>8
<1>10. S!Total(start, at, list) = minutes
  BY <1>3, <1>8, <1>9
<1>11. \E n \in 1 .. Len(list) : at <= list[n].close
  BY <1>9
<1> QED BY <1>8, <1>9, <1>10, <1>11 DEF at

LEMMA AddIsLater ==
  ASSUME NEW cal \in Calendars, NEW start \in Nat, NEW minutes \in Nat
  PROVE  S!AddBusinessTime(cal, start, minutes) \in Nat /\ start <= S!AddBusinessTime(cal, start, minutes)
<1> DEFINE list == S!SpansFrom(cal, start, SearchDays)
           at == S!Search(start, minutes, list)
<1>1. S!AddBusinessTime(cal, start, minutes) = IF ~S!HasWorkingTime(cal) \/ at = S!Never THEN start + minutes ELSE at
  BY DEF S!AddBusinessTime
<1>2. Listed(list)
  BY SlaAssumption, SpansJoined DEF Joined
<1> HIDE DEF list
<1>3. at # S!Never => at \in Nat /\ start <= at
  BY <1>2, SearchFinds
<1> HIDE DEF at
<1>4. start + minutes \in Nat /\ start <= start + minutes
  OBVIOUS
<1> QED BY <1>1, <1>3, <1>4

\* addBusinessTime is the first instant by which the minutes have passed in working time.
THEOREM AddIsWork ==
  ASSUME NEW cal \in Calendars, NEW start \in 0 .. MaxTime, NEW class \in Classes,
         NEW minutes \in 1 .. Targets[class]["resolution"] + MaxTime, NEW x \in Nat, start <= x
  PROVE  S!AddBusinessTime(cal, start, minutes) <= x <=> minutes <= WorkBefore(cal, x) - WorkBefore(cal, start)
<1> DEFINE list == S!SpansFrom(cal, start, SearchDays)
           at == S!Search(start, minutes, list)
<1>1. start \in Nat /\ minutes \in Nat /\ minutes # 0 /\ SearchDays \in Nat
  <2>1. Targets[class]["resolution"] \in Nat
    BY SlaAssumption DEF S!ValidTargets, S!Clocks
  <2> QED BY <2>1, SlaAssumption
<1>2. CASE ~S!HasWorkingTime(cal)
  <2>1. S!AddBusinessTime(cal, start, minutes) = start + minutes
    BY <1>2 DEF S!AddBusinessTime
  <2>2. WorkBefore(cal, start) = start /\ WorkBefore(cal, x) = x
    BY <1>1, <1>2, AllIsWork
  <2> QED BY <1>1, <2>1, <2>2
<1>3. CASE S!HasWorkingTime(cal)
  <2>1. at # S!Never
    BY <1>3, SlaAssumption DEF S!EnoughTime
  <2>2. S!AddBusinessTime(cal, start, minutes) = at
    BY <1>3, <2>1 DEF S!AddBusinessTime
  <2>3. Joined(cal, S!DayOf(start), SearchDays, list)
    BY <1>1, SpansJoined
  <2>4. Listed(list)
    BY <2>3 DEF Joined
  <2> DEFINE end == (S!DayOf(start) + SearchDays) * DayLength
             from == S!DayOf(start) * DayLength
  <2>5. from \in Nat /\ end \in Nat /\ from <= start
    <3>1. S!DayOf(start) \in Nat /\ from <= start
      BY <1>1, DayOfTime
    <3> QED BY <1>1, <3>1, SlaAssumption
  <2>6. /\ at \in Nat /\ start <= at /\ S!Total(start, at, list) = minutes
        /\ start <= at - 1 /\ Covers(list, at - 1)
        /\ \E n \in 1 .. Len(list) : at <= list[n].close
    <3> HIDE DEF list
    <3> QED BY <1>1, <2>1, <2>4, SearchFinds
  <2>7. at <= end
    <3>1. PICK n \in 1 .. Len(list) : at <= list[n].close
      BY <2>6
    <3>2. list[n].close <= end
      BY <2>3, <3>1 DEF Joined
    <3>3. list[n].close \in Nat
      <4>1. list[n] \in Span
        BY <2>4, <3>1, ElementOfSeq DEF Listed
      <4> QED BY <4>1 DEF Span
    <3> HIDE DEF at, end, list
    <3> QED BY <2>5, <2>6, <3>1, <3>2, <3>3
  <2>8. WorkBefore(cal, at) - WorkBefore(cal, start) = minutes
    <3>1. S!Total(start, at, list) = WorkBefore(cal, at) - WorkBefore(cal, start)
      <4>1. at <= (S!DayOf(start) + SearchDays) * DayLength
        BY <2>7
      <4> HIDE DEF at, end, from
      <4> QED BY <1>1, <1>3, <2>6, <4>1, TotalIsWork DEF list
    <3> QED BY <2>6, <3>1
  <2>9. at - 1 \in Nat /\ (at - 1) + 1 = at /\ S!IsWorkingTime(cal, at - 1)
    <3>1. at - 1 \in Nat /\ (at - 1) + 1 = at
      BY <1>1, <2>6
    <3>2. from <= at - 1 /\ at - 1 < end
      BY <1>1, <2>5, <2>6, <2>7
    <3>3. Covers(S!WorkIntervals(cal, S!DayOf(at - 1)), at - 1)
      BY <2>3, <2>6, <3>1, <3>2 DEF Joined
    <3> QED BY <1>3, <3>1, <3>3, CoversIsWorking
  <2> HIDE DEF at
  <2>10. WorkBefore(cal, at) = WorkBefore(cal, at - 1) + 1
    BY <2>9, WorkGrows
  <2>11. /\ WorkBefore(cal, at) \in Nat /\ WorkBefore(cal, at - 1) \in Nat
         /\ WorkBefore(cal, start) \in Nat /\ WorkBefore(cal, x) \in Nat
    BY <1>1, <2>6, <2>9, WorkGrows
  <2>12. at <= x => WorkBefore(cal, at) <= WorkBefore(cal, x)
    BY <2>6, WorkMonotone
  <2>13. ~(at <= x) => WorkBefore(cal, x) <= WorkBefore(cal, at - 1)
    <3>1. ~(at <= x) => x <= at - 1
      BY <2>6
    <3> QED BY <2>9, <3>1, WorkMonotone
  <2>14. at <= x <=> minutes <= WorkBefore(cal, x) - WorkBefore(cal, start)
    BY <1>1, <2>8, <2>10, <2>11, <2>12, <2>13
  <2> QED BY <2>2, <2>14
<1> QED BY <1>2, <1>3

-----------------------------------------------------------------------------
(* Then the row of the ticket.                                             *)

Instants == Nat \cup {S!Never}

\* The types of its columns, without the bounds.
Row == [status   : {"open", "in_progress", "awaiting_rating", "closed"},
        class    : Classes,
        answered : BOOLEAN,
        started  : Nat,
        since    : Instants,
        paused   : Nat,
        minutes  : [S!Clocks -> Nat],
        warn     : [S!Clocks -> Instants],
        due      : [S!Clocks -> Instants],
        stage    : [S!Clocks -> S!Stages],
        next     : Instants,
        breached : SUBSET S!Clocks,
        worked   : [S!Clocks -> Nat],
        overran  : SUBSET S!Clocks,
        marks    : SUBSET S!Marks]

\* The rows differ at most in what the clocks are set to, and when to look at them.
SameButTimes(u, t) ==
    /\ u.status = t.status /\ u.class = t.class /\ u.answered = t.answered
    /\ u.started = t.started /\ u.since = t.since /\ u.paused = t.paused
    /\ u.stage = t.stage /\ u.breached = t.breached
    /\ u.worked = t.worked /\ u.overran = t.overran /\ u.marks = t.marks

\* They differ at most in what clock c is set to.
SameButClock(u, t, c) ==
    /\ SameButTimes(u, t) /\ u.next = t.next
    /\ \A k \in S!Clocks \ {c} : u.minutes[k] = t.minutes[k] /\ u.warn[k] = t.warn[k] /\ u.due[k] = t.due[k]

LEMMA TimedRow ==
  ASSUME NEW t \in Row, NEW c \in S!Clocks, calendar \in Calendars,
         NEW start \in Nat, NEW minutes \in Nat, NEW target \in Nat
  PROVE  /\ S!Timed(t, c, start, minutes, target) \in Row
         /\ SameButClock(S!Timed(t, c, start, minutes, target), t, c)
         /\ S!Timed(t, c, start, minutes, target).minutes[c] = target
         /\ S!Timed(t, c, start, minutes, target).warn[c] \in Nat
         /\ S!Timed(t, c, start, minutes, target).due[c] = S!AddBusinessTime(calendar, start, minutes)
<1> DEFINE due == S!AddBusinessTime(calendar, start, minutes)
           warn == S!AddBusinessTime(calendar, start, S!Warning(minutes))
<1>1. S!Warning(minutes) \in Nat
  BY DEF S!Warning
<1>2. due \in Nat /\ warn \in Nat
  BY <1>1, AddIsLater
<1>3. S!Timed(t, c, start, minutes, target) =
         [t EXCEPT !.minutes[c] = target, !.warn[c] = warn, !.due[c] = due]
  BY DEF S!Timed
<1> HIDE DEF due, warn
<1> DEFINE u == [t EXCEPT !.minutes[c] = target, !.warn[c] = warn, !.due[c] = due]
<1>4. u \in Row
  BY <1>2 DEF Row, Instants
<1>5. SameButClock(u, t, c)
  BY DEF Row, SameButClock, SameButTimes
<1>6. u.minutes[c] = target /\ u.warn[c] = warn /\ u.due[c] = due
  BY DEF Row
<1> QED BY <1>2, <1>3, <1>4, <1>5, <1>6 DEF due

LEMMA UntimedRow ==
  ASSUME NEW t \in Row, NEW c \in S!Clocks
  PROVE  /\ S!Untimed(t, c) \in Row
         /\ SameButClock(S!Untimed(t, c), t, c)
         /\ S!Untimed(t, c).minutes[c] = 0
         /\ S!Untimed(t, c).due[c] = S!Never
<1> DEFINE u == [t EXCEPT !.minutes[c] = 0, !.warn[c] = S!Never, !.due[c] = S!Never]
<1>1. S!Untimed(t, c) = u
  BY DEF S!Untimed
<1>2. u \in Row
  BY DEF Row, Instants
<1>3. SameButClock(u, t, c)
  BY DEF Row, SameButClock, SameButTimes
<1>4. u.minutes[c] = 0 /\ u.due[c] = S!Never
  BY DEF Row
<1> QED BY <1>1, <1>2, <1>3, <1>4

LEMMA TargetsTyped ==
  ASSUME NEW class \in Classes
  PROVE  /\ \A c \in S!Clocks : Targets[class][c] \in Nat
         /\ \A c \in S!Clocks : Targets[class][c] <= Targets[class]["resolution"]
         /\ Targets[class]["response"] = 0 <=> Targets[class]["resolution"] = 0
BY SlaAssumption DEF S!ValidTargets, S!Clocks

LEMMA ResponseRow ==
  ASSUME NEW t \in Row, calendar \in Calendars
  PROVE  LET u == S!ResponseTimed(t) IN
         /\ u \in Row /\ SameButClock(u, t, "response")
         /\ \/ u.minutes["response"] = 0 /\ u.due["response"] = S!Never
               /\ Targets[t.class]["response"] = 0
            \/ /\ u.minutes["response"] # 0
               /\ u.minutes["response"] = Targets[t.class]["response"]
               /\ u.warn["response"] \in Nat
               /\ u.due["response"] = S!AddBusinessTime(calendar, 0, u.minutes["response"])
<1> DEFINE target == Targets[t.class]["response"]
           u == S!ResponseTimed(t)
<1>1. target \in Nat /\ "response" \in S!Clocks
  <2>1. t.class \in Classes
    BY DEF Row
  <2> QED BY <2>1, TargetsTyped DEF S!Clocks
<1>2. CASE target = 0
  <2>1. u = S!Untimed(t, "response")
    BY <1>2 DEF S!ResponseTimed
  <2> HIDE DEF u, target
  <2>2. u \in Row /\ SameButClock(u, t, "response") /\ u.minutes["response"] = 0 /\ u.due["response"] = S!Never
    BY <1>1, <2>1, UntimedRow
  <2> QED BY <1>2, <2>2 DEF u, target
<1>3. CASE target # 0
  <2>1. u = S!Timed(t, "response", 0, target, target)
    BY <1>3 DEF S!ResponseTimed
  <2> HIDE DEF u, target
  <2>2. /\ u \in Row /\ SameButClock(u, t, "response") /\ u.minutes["response"] = target
        /\ u.warn["response"] \in Nat
        /\ u.due["response"] = S!AddBusinessTime(calendar, 0, target)
    BY <1>1, <2>1, TimedRow
  <2> QED BY <1>3, <2>2 DEF u, target
<1> QED BY <1>2, <1>3

LEMMA ResolutionRow ==
  ASSUME NEW t \in Row, calendar \in Calendars, NEW target \in Nat
  PROVE  LET u == S!ResolutionTimed(t, target) IN
         /\ u \in Row /\ SameButClock(u, t, "resolution") /\ u.minutes["resolution"] = target
         /\ \/ target = 0 /\ u.due["resolution"] = S!Never
            \/ /\ target # 0 /\ u.warn["resolution"] \in Nat
               /\ u.due["resolution"] = S!AddBusinessTime(calendar, t.started, target + t.paused)
<1> DEFINE u == S!ResolutionTimed(t, target)
<1>1. "resolution" \in S!Clocks /\ t.started \in Nat /\ t.paused \in Nat /\ target + t.paused \in Nat
  <2>1. t.started \in Nat /\ t.paused \in Nat
    BY DEF Row
  <2> QED BY <2>1 DEF S!Clocks
<1>2. CASE target = 0
  <2>1. u = S!Untimed(t, "resolution")
    BY <1>2 DEF S!ResolutionTimed
  <2> HIDE DEF u
  <2>2. u \in Row /\ SameButClock(u, t, "resolution") /\ u.minutes["resolution"] = 0 /\ u.due["resolution"] = S!Never
    BY <1>1, <2>1, UntimedRow
  <2> QED BY <1>2, <2>2 DEF u
<1>3. CASE target # 0
  <2> DEFINE all   == target + t.paused
             start == t.started
  <2>1. u = S!Timed(t, "resolution", start, all, target) /\ all \in Nat /\ start \in Nat
    BY <1>1, <1>3 DEF S!ResolutionTimed
  <2> HIDE DEF u, all, start
  <2> DEFINE v == S!Timed(t, "resolution", start, all, target)
  <2>2. /\ v \in Row /\ SameButClock(v, t, "resolution") /\ v.minutes["resolution"] = target
        /\ v.warn["resolution"] \in Nat
        /\ v.due["resolution"] = S!AddBusinessTime(calendar, start, all)
    <3>1. "resolution" \in S!Clocks /\ start \in Nat /\ all \in Nat
      BY <1>1, <2>1
    <3> QED BY <3>1, TimedRow
  <2>3. u = v
    BY <2>1
  <2> HIDE DEF v
  <2> QED BY <1>3, <2>2, <2>3 DEF u, all, start
<1> QED BY <1>2, <1>3

-----------------------------------------------------------------------------
(* The invariant of the clocks, of the row t at the instant x.             *)

\* The time to the first answer is due when the target has passed since the ticket was created.
ResponseSet(cal, t) ==
    /\ t.due["response"] # S!Never =>
          /\ t.minutes["response"] # 0
          /\ t.due["response"] = S!AddBusinessTime(cal, 0, t.minutes["response"])
    /\ t.minutes["response"] # 0 => \E class \in Classes : t.minutes["response"] = Targets[class]["response"]

\* The time to the solution is due when the target and the pauses have passed since it was started.
ResolutionSet(cal, t) ==
    /\ t.due["resolution"] # S!Never /\ t.stage["resolution"] < 2 =>
          /\ t.minutes["resolution"] # 0
          /\ t.due["resolution"] = S!AddBusinessTime(cal, t.started, t.minutes["resolution"] + t.paused)
    /\ t.minutes["resolution"] # 0 => \E class \in Classes : t.minutes["resolution"] = Targets[class]["resolution"]

\* What a clock has run and the pauses make up the working time since it was started.
Measured(cal, t, x) ==
    /\ t.worked["response"] = WorkBefore(cal, x)
    /\ t.started <= x
    /\ t.since # S!Never => t.started <= t.since /\ t.since <= x
    /\ S!Running(t) => t.worked["resolution"] + t.paused + WorkBefore(cal, t.started)
                         = WorkBefore(cal, IF t.since = S!Never THEN x ELSE t.since)

Noted(t)  == \A c \in S!Clocks : t.minutes[c] # 0 /\ t.worked[c] >= t.minutes[c] => c \in t.overran
Stored(t) == \A c \in S!Clocks : t.stage[c] >= 2 => c \in t.breached

\* While SLA is off nothing is set, except in a row that was reopened meanwhile.
Unset(t, on) ==
    ~on /\ S!Running(t) /\ "reopened_off" \notin t.marks => \A c \in S!Clocks : t.minutes[c] = 0

Point(cal, t, c, n) == <<t.warn[c], t.due[c], S!AddBusinessTime(cal, t.due[c], t.minutes[c])>>[n]

Scheduled(cal, t, x, on) ==
    \A c \in S!Clocks :
        on /\ S!Active(t, c) /\ t.stage[c] < 3 /\ "reopened_off" \notin t.marks =>
            t.next # S!Never /\ t.next <= S!Larger(x, Point(cal, t, c, t.stage[c] + 1))

BreachedTruly(t) == "closed_waiting" \notin t.marks => t.breached \subseteq t.overran

\* All but Noted: a step keeps this, and then notes what has run over.
RowKept(cal, t, x, on) ==
    /\ t \in Row
    /\ ResponseSet(cal, t) /\ ResolutionSet(cal, t)
    /\ Measured(cal, t, x)
    /\ Stored(t) /\ Unset(t, on)
    /\ Scheduled(cal, t, x, on)
    /\ BreachedTruly(t)

ClocksKept ==
    /\ calendar \in Calendars /\ now \in 0 .. MaxTime /\ enabled \in BOOLEAN
    /\ RowKept(calendar, timed, now, enabled)
    /\ Noted(timed)

\* The clock of the solution is due when it has run its target.
LEMMA ResolutionDue ==
  ASSUME NEW cal \in Calendars, NEW t \in Row, NEW x \in 0 .. MaxTime,
         ResolutionSet(cal, t), Measured(cal, t, x), S!Running(t), t.since = S!Never,
         t.due["resolution"] # S!Never, t.stage["resolution"] < 2
  PROVE  t.due["resolution"] <= x <=> t.minutes["resolution"] <= t.worked["resolution"]
<1> DEFINE m == t.minutes["resolution"]
           w == t.worked["resolution"]
           p == t.paused
           s == t.started
<1>1. m \in Nat /\ w \in Nat /\ p \in Nat /\ s \in Nat
  BY DEF Row, S!Clocks
<1>2. m # 0 /\ t.due["resolution"] = S!AddBusinessTime(cal, s, m + p)
  BY DEF ResolutionSet
<1>3. PICK class \in Classes : m = Targets[class]["resolution"]
  BY <1>2 DEF ResolutionSet
<1>4. w + p + WorkBefore(cal, s) = WorkBefore(cal, x) /\ s <= x
  BY DEF Measured
<1> HIDE DEF m, w, p, s
<1>5. x \in Nat /\ MaxTime \in Nat /\ x <= MaxTime
  BY SlaAssumption
<1>6. WorkBefore(cal, x) \in Nat /\ WorkBefore(cal, s) \in Nat /\ WorkBefore(cal, x) <= x
  BY <1>1, <1>5, WorkGrows
<1>7. p <= MaxTime
  BY <1>1, <1>4, <1>5, <1>6
<1>8. m + p \in 1 .. Targets[class]["resolution"] + MaxTime /\ s \in 0 .. MaxTime
  BY <1>1, <1>2, <1>3, <1>4, <1>5, <1>7
<1> DEFINE total == m + p
<1>9. total \in 1 .. Targets[class]["resolution"] + MaxTime
  BY <1>8
<1>10. S!AddBusinessTime(cal, s, total) <= x <=> total <= WorkBefore(cal, x) - WorkBefore(cal, s)
  <2> HIDE DEF total
  <2> QED BY <1>4, <1>5, <1>8, <1>9, AddIsWork
<1>11. total <= WorkBefore(cal, x) - WorkBefore(cal, s) <=> m <= w
  BY <1>1, <1>4, <1>6
<1> QED BY <1>2, <1>10, <1>11 DEF m, w

\* The clock of the first answer is due when it has run its target.
LEMMA ResponseDue ==
  ASSUME NEW cal \in Calendars, NEW t \in Row, NEW x \in 0 .. MaxTime,
         ResponseSet(cal, t), Measured(cal, t, x), t.due["response"] # S!Never
  PROVE  t.due["response"] <= x <=> t.minutes["response"] <= t.worked["response"]
<1> DEFINE m == t.minutes["response"]
           w == t.worked["response"]
<1>1. m \in Nat /\ w \in Nat
  BY DEF Row, S!Clocks
<1>2. m # 0 /\ t.due["response"] = S!AddBusinessTime(cal, 0, m)
  BY DEF ResponseSet
<1>3. PICK class \in Classes : m = Targets[class]["response"]
  BY <1>2 DEF ResponseSet
<1>4. w = WorkBefore(cal, x)
  BY DEF Measured
<1> HIDE DEF m, w
<1>5. x \in Nat /\ MaxTime \in Nat /\ 0 <= x /\ 0 \in 0 .. MaxTime
  BY SlaAssumption
<1>6. WorkBefore(cal, x) \in Nat /\ WorkBefore(cal, 0) = 0
  BY <1>5, WorkGrows
<1>7. m \in 1 .. Targets[class]["resolution"] + MaxTime
  <2>1. Targets[class]["resolution"] \in Nat /\ Targets[class]["response"] <= Targets[class]["resolution"]
    BY TargetsTyped DEF S!Clocks
  <2> QED BY <1>1, <1>2, <1>3, <1>5, <2>1
<1>8. S!AddBusinessTime(cal, 0, m) <= x <=> m <= WorkBefore(cal, x) - WorkBefore(cal, 0)
  BY <1>5, <1>7, AddIsWork
<1> QED BY <1>1, <1>2, <1>4, <1>6, <1>8 DEF m, w

LEMMA CountedRow ==
  ASSUME NEW t, NEW cal, NEW x, NEW on, RowKept(cal, t, x, on)
  PROVE  RowKept(cal, S!Counted(t), x, on) /\ Noted(S!Counted(t))
<1> DEFINE over == t.overran \cup {c \in S!Clocks : t.minutes[c] # 0 /\ t.worked[c] >= t.minutes[c]}
           u == [t EXCEPT !.overran = over]
<1>1. S!Counted(t) = u
  BY DEF S!Counted
<1>2. t \in Row
  BY DEF RowKept
<1>3. over \in SUBSET S!Clocks /\ t.overran \subseteq over
  BY <1>2 DEF Row
<1>4. Noted(u)
  BY <1>2 DEF Noted, Row
<1> HIDE DEF over
<1>5. u \in Row
  BY <1>2, <1>3 DEF Row
<1>6. /\ u.next = t.next
      /\ u.minutes = t.minutes /\ u.warn = t.warn /\ u.due = t.due /\ u.overran = over
      /\ u.status = t.status /\ u.class = t.class /\ u.answered = t.answered
      /\ u.started = t.started /\ u.since = t.since /\ u.paused = t.paused
      /\ u.stage = t.stage /\ u.breached = t.breached /\ u.worked = t.worked /\ u.marks = t.marks
  BY <1>2 DEF Row
<1> HIDE DEF u
<1>7. ResponseSet(cal, u) /\ ResolutionSet(cal, u) /\ Measured(cal, u, x) /\ Stored(u) /\ Unset(u, on)
  BY <1>6 DEF RowKept, ResponseSet, ResolutionSet, Measured, Stored, Unset, S!Running
<1>8. Scheduled(cal, u, x, on)
  BY <1>6 DEF RowKept, Scheduled, Point, S!Active, S!Running
<1>9. BreachedTruly(u)
  BY <1>3, <1>6 DEF RowKept, BreachedTruly
<1> QED BY <1>1, <1>4, <1>5, <1>7, <1>8, <1>9 DEF RowKept

LEMMA PointTyped ==
  ASSUME NEW cal \in Calendars, NEW t \in Row, NEW c \in S!Clocks, S!Active(t, c)
  PROVE  /\ \A n \in 1 .. 3 : Point(cal, t, c, n) \in Nat
         /\ Point(cal, t, c, 1) = t.warn[c] /\ Point(cal, t, c, 2) = t.due[c]
         /\ Point(cal, t, c, 2) <= Point(cal, t, c, 3)
<1> DEFINE last == S!AddBusinessTime(cal, t.due[c], t.minutes[c])
           warn == t.warn[c]
           due  == t.due[c]
<1>1. warn \in Nat /\ due \in Nat /\ t.minutes[c] \in Nat
  BY DEF Row, Instants, S!Active
<1>2. last \in Nat /\ due <= last
  BY <1>1, AddIsLater
<1>3. \A n : Point(cal, t, c, n) = <<warn, due, last>>[n]
  BY DEF Point
<1> HIDE DEF last, warn, due
<1>4. Point(cal, t, c, 1) = warn /\ Point(cal, t, c, 2) = due /\ Point(cal, t, c, 3) = last
  BY <1>3
<1>5. \A n \in 1 .. 3 : n = 1 \/ n = 2 \/ n = 3
  OBVIOUS
<1> QED BY <1>1, <1>2, <1>4, <1>5 DEF warn, due

\* A row that is to be looked at now is looked at in time.
LEMMA LooksNow ==
  ASSUME NEW cal \in Calendars, NEW t \in Row, NEW x \in Nat, t.next = x, NEW on
  PROVE  Scheduled(cal, t, x, on)
<1> SUFFICES ASSUME NEW c \in S!Clocks, S!Active(t, c), t.stage[c] < 3
             PROVE  x # S!Never /\ x <= S!Larger(x, Point(cal, t, c, t.stage[c] + 1))
  BY DEF Scheduled
<1>1. t.stage[c] + 1 \in 1 .. 3
  <2>1. t.stage[c] \in 0 .. 3
    BY DEF Row, S!Stages
  <2> QED BY <2>1
<1> DEFINE point == Point(cal, t, c, t.stage[c] + 1)
<1>2. point \in Nat
  BY <1>1, PointTyped
<1> HIDE DEF point
<1>3. x # S!Never /\ x <= S!Larger(x, point)
  BY <1>2 DEF S!Larger, S!Never
<1> QED BY <1>3 DEF point

LEMMA SameKept ==
  ASSUME NEW u, NEW t, SameButTimes(u, t), NEW cal, NEW x
  PROVE  /\ Measured(cal, t, x) => Measured(cal, u, x)
         /\ Stored(t) => Stored(u)
         /\ BreachedTruly(t) => BreachedTruly(u)
BY DEF SameButTimes, Measured, Stored, BreachedTruly, S!Running

LEMMA OtherClockSet ==
  ASSUME NEW cal, NEW u, NEW t
  PROVE  /\ SameButClock(u, t, "response") /\ ResolutionSet(cal, t) => ResolutionSet(cal, u)
         /\ SameButClock(u, t, "resolution") /\ ResponseSet(cal, t) => ResponseSet(cal, u)
<1>1. ASSUME SameButClock(u, t, "response"), ResolutionSet(cal, t) PROVE ResolutionSet(cal, u)
  <2>1. /\ u.minutes["resolution"] = t.minutes["resolution"] /\ u.due["resolution"] = t.due["resolution"]
        /\ u.stage = t.stage /\ u.started = t.started /\ u.paused = t.paused
    BY <1>1 DEF SameButClock, SameButTimes, S!Clocks
  <2> QED BY <1>1, <2>1 DEF ResolutionSet
<1>2. ASSUME SameButClock(u, t, "resolution"), ResponseSet(cal, t) PROVE ResponseSet(cal, u)
  <2>1. u.minutes["response"] = t.minutes["response"] /\ u.due["response"] = t.due["response"]
    BY <1>2 DEF SameButClock, SameButTimes, S!Clocks
  <2> QED BY <1>2, <2>1 DEF ResponseSet
<1> QED BY <1>1, <1>2

LEMMA ResponseIsSet ==
  ASSUME NEW t \in Row, calendar \in Calendars
  PROVE  ResponseSet(calendar, S!ResponseTimed(t))
<1> DEFINE u == S!ResponseTimed(t)
<1>1. \/ u.minutes["response"] = 0 /\ u.due["response"] = S!Never
      \/ /\ u.minutes["response"] # 0
         /\ u.minutes["response"] = Targets[t.class]["response"]
         /\ u.due["response"] = S!AddBusinessTime(calendar, 0, u.minutes["response"])
  BY ResponseRow
<1>2. t.class \in Classes
  BY DEF Row
<1> HIDE DEF u
<1>3. ResponseSet(calendar, u)
  BY <1>1, <1>2 DEF ResponseSet
<1> QED BY <1>3 DEF u

LEMMA ResolutionIsSet ==
  ASSUME NEW t \in Row, calendar \in Calendars, NEW target \in Nat,
         target # 0 => \E class \in Classes : target = Targets[class]["resolution"]
  PROVE  ResolutionSet(calendar, S!ResolutionTimed(t, target))
<1> DEFINE u == S!ResolutionTimed(t, target)
<1>1. /\ SameButClock(u, t, "resolution") /\ u.minutes["resolution"] = target
      /\ \/ target = 0 /\ u.due["resolution"] = S!Never
         \/ /\ target # 0
            /\ u.due["resolution"] = S!AddBusinessTime(calendar, t.started, target + t.paused)
  BY ResolutionRow
<1> HIDE DEF u
<1>2. u.started = t.started /\ u.paused = t.paused
  BY <1>1 DEF SameButClock, SameButTimes
<1>3. ResolutionSet(calendar, u)
  BY <1>1, <1>2 DEF ResolutionSet
<1> QED BY <1>3 DEF u

\* reclassifySla, where it does something.
LEMMA ReclassifiedKept ==
  ASSUME NEW t \in Row, calendar \in Calendars, now \in Nat, S!Running(t),
         ResponseSet(calendar, t), ResolutionSet(calendar, t), Measured(calendar, t, now),
         Stored(t), BreachedTruly(t)
  PROVE  RowKept(calendar, S!Reclassified(t, TRUE), now, TRUE)
<1> DEFINE target     == Targets[t.class]["resolution"]
           response   == IF ~t.answered /\ t.stage["response"] < S!Breached THEN S!ResponseTimed(t) ELSE t
           resolution == IF t.stage["resolution"] < S!Breached THEN S!ResolutionTimed(response, target) ELSE response
           u          == [resolution EXCEPT !.next = now]
<1>1. S!Reclassified(t, TRUE) = u
  BY DEF S!Reclassified
<1>2. t.class \in Classes /\ target \in Nat
  <2>1. t.class \in Classes
    BY DEF Row
  <2> QED BY <2>1, TargetsTyped DEF S!Clocks
<1>3. response \in Row /\ SameButClock(response, t, "response") /\ ResponseSet(calendar, response)
  <2>1. CASE response = t
    BY <2>1 DEF SameButClock, SameButTimes
  <2>2. CASE response = S!ResponseTimed(t)
    <3> HIDE DEF response
    <3> QED BY <2>2, ResponseRow, ResponseIsSet
  <2> QED BY <2>1, <2>2
<1> HIDE DEF target, response
<1>4. ResolutionSet(calendar, response)
  BY <1>3, OtherClockSet
<1>5. resolution \in Row /\ SameButClock(resolution, response, "resolution") /\ ResolutionSet(calendar, resolution)
  <2>1. CASE resolution = response
    BY <1>3, <1>4, <2>1 DEF SameButClock, SameButTimes
  <2>2. CASE resolution = S!ResolutionTimed(response, target)
    <3>1. target # 0 => \E class \in Classes : target = Targets[class]["resolution"]
      BY <1>2 DEF target
    <3> HIDE DEF resolution
    <3> QED BY <1>2, <1>3, <2>2, <3>1, ResolutionRow, ResolutionIsSet
  <2> QED BY <2>1, <2>2
<1> HIDE DEF resolution
<1>6. ResponseSet(calendar, resolution)
  BY <1>3, <1>5, OtherClockSet
<1>7. SameButTimes(resolution, t)
  BY <1>3, <1>5 DEF SameButClock, SameButTimes
<1>8. u \in Row
  BY <1>5 DEF Row, Instants
<1>9. /\ SameButTimes(u, resolution) /\ u.next = now
      /\ u.minutes = resolution.minutes /\ u.warn = resolution.warn /\ u.due = resolution.due
  BY <1>5 DEF Row, SameButTimes
<1> HIDE DEF u
<1>10. SameButTimes(u, t)
  BY <1>7, <1>9 DEF SameButTimes
<1>11. ResponseSet(calendar, u) /\ ResolutionSet(calendar, u)
  BY <1>5, <1>6, <1>9 DEF ResponseSet, ResolutionSet, SameButTimes
<1>12. Measured(calendar, u, now) /\ Stored(u) /\ BreachedTruly(u)
  BY <1>10, SameKept
<1>13. Scheduled(calendar, u, now, TRUE)
  BY <1>8, <1>9, LooksNow
<1>14. Unset(u, TRUE)
  BY DEF Unset
<1> QED BY <1>1, <1>8, <1>11, <1>12, <1>13, <1>14 DEF RowKept

-----------------------------------------------------------------------------
(* Each step keeps it.                                                     *)

LEMMA Becoming ==
  ASSUME NEW u, timed' = S!Counted(u),
         calendar' \in Calendars, now' \in 0 .. MaxTime, enabled' \in BOOLEAN,
         RowKept(calendar', u, now', enabled')
  PROVE  ClocksKept'
<1>1. RowKept(calendar', timed', now', enabled') /\ Noted(timed')
  BY CountedRow
<1> QED BY <1>1 DEF ClocksKept

\* The same for a step that moves nothing else.
LEMMA BecomesKept ==
  ASSUME NEW u, ClocksKept, S!Becomes(u), RowKept(calendar, u, now, enabled)
  PROVE  ClocksKept'
<1>1. timed' = S!Counted(u) /\ calendar' = calendar /\ now' = now /\ enabled' = enabled
  BY DEF S!Becomes
<1>2. calendar \in Calendars /\ now \in 0 .. MaxTime /\ enabled \in BOOLEAN
  BY DEF ClocksKept
<1> QED BY <1>1, <1>2, Becoming

LEMMA TickStep ==
  ASSUME ClocksKept, S!Tick
  PROVE  ClocksKept'
<1> DEFINE ticks == {c \in S!Clocks : S!IsWorkingTime(calendar, now) /\ (c = "resolution" => timed.since = S!Never)}
           ran   == [c \in S!Clocks |-> IF c \in ticks THEN timed.worked[c] + 1 ELSE timed.worked[c]]
           u     == [timed EXCEPT !.worked = ran]
<1>1. /\ calendar \in Calendars /\ now \in 0 .. MaxTime /\ enabled \in BOOLEAN
      /\ RowKept(calendar, timed, now, enabled) /\ timed \in Row
  BY DEF ClocksKept, RowKept
<1>2. /\ now < MaxTime /\ now' = now + 1 /\ calendar' = calendar /\ enabled' = enabled
      /\ timed' = S!Counted(u)
  BY DEF S!Tick
<1>3. now \in Nat /\ now + 1 \in 0 .. MaxTime
  BY <1>1, <1>2, SlaAssumption
<1>4. ran \in [S!Clocks -> Nat]
  BY <1>1 DEF Row
<1>5. /\ ran["response"] = timed.worked["response"] + IF S!IsWorkingTime(calendar, now) THEN 1 ELSE 0
      /\ ran["resolution"] = timed.worked["resolution"]
                               + IF S!IsWorkingTime(calendar, now) /\ timed.since = S!Never THEN 1 ELSE 0
  <2>1. timed.worked["response"] \in Nat /\ timed.worked["resolution"] \in Nat
    BY <1>1 DEF Row, S!Clocks
  <2> QED BY <2>1 DEF S!Clocks
<1> HIDE DEF ran
<1>6. u \in Row
  BY <1>1, <1>4 DEF Row
<1>7. /\ u.status = timed.status /\ u.answered = timed.answered
      /\ u.started = timed.started /\ u.since = timed.since /\ u.paused = timed.paused
      /\ u.minutes = timed.minutes /\ u.warn = timed.warn /\ u.due = timed.due
      /\ u.stage = timed.stage /\ u.next = timed.next /\ u.breached = timed.breached
      /\ u.worked = ran /\ u.overran = timed.overran /\ u.marks = timed.marks
  BY <1>1 DEF Row
<1> HIDE DEF u
<1>8. ResponseSet(calendar, u) /\ ResolutionSet(calendar, u) /\ Stored(u) /\ Unset(u, enabled) /\ BreachedTruly(u)
  BY <1>1, <1>7 DEF RowKept, ResponseSet, ResolutionSet, Stored, Unset, BreachedTruly, S!Running
<1>9. Measured(calendar, u, now + 1)
  <2>1. Measured(calendar, timed, now)
    BY <1>1 DEF RowKept
  <2>2. /\ WorkBefore(calendar, now) \in Nat
        /\ WorkBefore(calendar, now + 1)
             = WorkBefore(calendar, now) + IF S!IsWorkingTime(calendar, now) THEN 1 ELSE 0
    BY <1>3, WorkGrows
  <2>3. u.worked["response"] = WorkBefore(calendar, now + 1)
    BY <1>5, <1>7, <2>1, <2>2 DEF Measured
  <2>4. timed.started \in Nat /\ timed.since \in Nat \cup {S!Never}
    BY <1>1 DEF Row, Instants
  <2>5. /\ u.started <= now + 1
        /\ u.since # S!Never => u.started <= u.since /\ u.since <= now + 1
    BY <1>3, <1>7, <2>1, <2>4 DEF Measured
  <2>6. ASSUME S!Running(u)
        PROVE  u.worked["resolution"] + u.paused + WorkBefore(calendar, u.started)
                 = WorkBefore(calendar, IF u.since = S!Never THEN now + 1 ELSE u.since)
    <3>1. timed.worked["resolution"] + timed.paused + WorkBefore(calendar, timed.started)
            = WorkBefore(calendar, IF timed.since = S!Never THEN now ELSE timed.since)
      BY <1>7, <2>1, <2>6 DEF Measured, S!Running
    <3>2. /\ timed.worked["resolution"] \in Nat /\ timed.paused \in Nat
          /\ WorkBefore(calendar, timed.started) \in Nat
      <4>1. timed.worked["resolution"] \in Nat /\ timed.paused \in Nat
        BY <1>1 DEF Row, S!Clocks
      <4> QED BY <2>4, <4>1, WorkGrows
    <3>3. CASE timed.since = S!Never
      BY <1>5, <1>7, <2>2, <3>1, <3>2, <3>3
    <3>4. CASE timed.since # S!Never
      BY <1>5, <1>7, <3>1, <3>2, <3>4
    <3> QED BY <3>3, <3>4
  <2> QED BY <2>3, <2>5, <2>6 DEF Measured
<1>10. Scheduled(calendar, u, now + 1, enabled)
  <2> SUFFICES ASSUME NEW c \in S!Clocks, enabled, S!Active(u, c), u.stage[c] < 3, "reopened_off" \notin u.marks
               PROVE  u.next # S!Never /\ u.next <= S!Larger(now + 1, Point(calendar, u, c, u.stage[c] + 1))
    BY DEF Scheduled
  <2> DEFINE point == Point(calendar, u, c, u.stage[c] + 1)
  <2>1. timed.next # S!Never /\ timed.next <= S!Larger(now, Point(calendar, timed, c, timed.stage[c] + 1))
    BY <1>1, <1>7 DEF RowKept, Scheduled, S!Active, S!Running
  <2>2. point = Point(calendar, timed, c, timed.stage[c] + 1)
    BY <1>7 DEF Point
  <2>3. point \in Nat
    <3>1. u.stage[c] \in 0 .. 3
      BY <1>6 DEF Row, S!Stages
    <3>2. u.stage[c] + 1 \in 1 .. 3
      BY <3>1
    <3> QED BY <1>1, <1>6, <3>2, PointTyped
  <2>4. timed.next \in Nat
    BY <1>1, <2>1 DEF Row, Instants
  <2> HIDE DEF point
  <2>5. S!Larger(now, point) <= S!Larger(now + 1, point) /\ S!Larger(now, point) \in Nat /\ S!Larger(now + 1, point) \in Nat
    BY <1>3, <2>3 DEF S!Larger
  <2>6. timed.next <= S!Larger(now, point)
    BY <2>1, <2>2
  <2>7. timed.next <= S!Larger(now + 1, point)
    <3> DEFINE a == S!Larger(now, point)
               b == S!Larger(now + 1, point)
    <3>1. a <= b /\ a \in Nat /\ b \in Nat /\ timed.next <= a
      BY <2>5, <2>6
    <3> HIDE DEF a, b
    <3>2. timed.next <= b
      BY <2>4, <3>1
    <3> QED BY <3>2 DEF b
  <2> QED BY <1>7, <2>1, <2>7 DEF point
<1>11. RowKept(calendar, u, now + 1, enabled)
  BY <1>6, <1>8, <1>9, <1>10 DEF RowKept
<1> QED BY <1>1, <1>2, <1>3, <1>11, Becoming

LEMMA StatusStep ==
  ASSUME ClocksKept, S!Assign \/ S!Release
  PROVE  ClocksKept'
<1> SUFFICES ASSUME NEW status \in {"open", "in_progress"}, S!Running(timed),
                    S!Becomes([timed EXCEPT !.status = status])
             PROVE  ClocksKept'
  BY DEF S!Assign, S!Release, S!Running
<1> DEFINE u == [timed EXCEPT !.status = status]
<1>1. RowKept(calendar, timed, now, enabled) /\ timed \in Row
  BY DEF ClocksKept, RowKept
<1>2. u \in Row
  BY <1>1 DEF Row
<1>3. /\ u.status = status /\ u.answered = timed.answered
      /\ u.started = timed.started /\ u.since = timed.since /\ u.paused = timed.paused
      /\ u.minutes = timed.minutes /\ u.warn = timed.warn /\ u.due = timed.due
      /\ u.stage = timed.stage /\ u.next = timed.next /\ u.breached = timed.breached
      /\ u.worked = timed.worked /\ u.overran = timed.overran /\ u.marks = timed.marks
  BY <1>1 DEF Row
<1>4. S!Becomes(u)
  OBVIOUS
<1> HIDE DEF u
<1>5. S!Running(u)
  BY <1>3 DEF S!Running
<1>6. \A c \in S!Clocks : S!Active(u, c) <=> S!Active(timed, c)
  BY <1>3, <1>5 DEF S!Active
<1>7. /\ ResponseSet(calendar, u) /\ ResolutionSet(calendar, u) /\ Measured(calendar, u, now)
      /\ Stored(u) /\ Unset(u, enabled) /\ BreachedTruly(u)
  BY <1>1, <1>3, <1>5 DEF RowKept, ResponseSet, ResolutionSet, Measured, Stored, Unset, BreachedTruly
<1>8. Scheduled(calendar, u, now, enabled)
  BY <1>1, <1>3, <1>6 DEF RowKept, Scheduled, Point
<1>9. RowKept(calendar, u, now, enabled)
  BY <1>2, <1>7, <1>8 DEF RowKept
<1> QED BY <1>4, <1>9, BecomesKept

LEMMA ClassifyStep ==
  ASSUME ClocksKept, S!Classify
  PROVE  ClocksKept'
<1>1. PICK class \in Classes : S!Becomes(S!Reclassified([timed EXCEPT !.class = class], enabled))
  BY DEF S!Classify
<1> DEFINE t == [timed EXCEPT !.class = class]
           u == S!Reclassified(t, enabled)
<1>2. /\ calendar \in Calendars /\ now \in Nat /\ enabled \in BOOLEAN
      /\ RowKept(calendar, timed, now, enabled) /\ timed \in Row /\ S!Running(timed)
  BY SlaAssumption DEF ClocksKept, RowKept, S!Classify
<1>3. t \in Row
  BY <1>2 DEF Row
<1>4. /\ t.status = timed.status /\ t.answered = timed.answered
      /\ t.started = timed.started /\ t.since = timed.since /\ t.paused = timed.paused
      /\ t.minutes = timed.minutes /\ t.warn = timed.warn /\ t.due = timed.due
      /\ t.stage = timed.stage /\ t.next = timed.next /\ t.breached = timed.breached
      /\ t.worked = timed.worked /\ t.overran = timed.overran /\ t.marks = timed.marks
  BY <1>2 DEF Row
<1>5. S!Becomes(u)
  BY <1>1
<1> HIDE DEF t
<1>6. S!Running(t)
  BY <1>2, <1>4 DEF S!Running
<1>7. /\ ResponseSet(calendar, t) /\ ResolutionSet(calendar, t) /\ Measured(calendar, t, now)
      /\ Stored(t) /\ Unset(t, enabled) /\ BreachedTruly(t)
  BY <1>2, <1>4 DEF RowKept, ResponseSet, ResolutionSet, Measured, Stored, Unset, BreachedTruly, S!Running
<1>8. CASE enabled
  <2>1. u = S!Reclassified(t, TRUE) /\ enabled = TRUE
    BY <1>2, <1>8
  <2> HIDE DEF u
  <2>2. RowKept(calendar, S!Reclassified(t, TRUE), now, TRUE)
    BY <1>2, <1>3, <1>6, <1>7, ReclassifiedKept
  <2> QED BY <1>5, <2>1, <2>2, BecomesKept
<1>9. CASE ~enabled
  <2>1. u = t
    BY <1>9 DEF S!Reclassified
  <2>2. Scheduled(calendar, t, now, enabled)
    BY <1>9 DEF Scheduled
  <2>3. RowKept(calendar, t, now, enabled)
    BY <1>3, <1>7, <2>2 DEF RowKept
  <2> HIDE DEF u
  <2> QED BY <1>5, <2>1, <2>3, BecomesKept
<1> QED BY <1>8, <1>9

LEMMA AnswerStep ==
  ASSUME ClocksKept, S!MarkFirstResponse
  PROVE  ClocksKept'
<1> DEFINE overdue == timed.due["response"] # S!Never /\ timed.due["response"] < now
           set  == IF overdue THEN timed.breached \cup {"response"} ELSE timed.breached
           u    == [timed EXCEPT !.answered = TRUE, !.next = now, !.breached = set]
<1>1. /\ calendar \in Calendars /\ now \in Nat /\ now \in 0 .. MaxTime
      /\ RowKept(calendar, timed, now, enabled) /\ timed \in Row /\ Noted(timed)
  BY SlaAssumption DEF ClocksKept, RowKept
<1>2. S!Becomes(u)
  BY DEF S!MarkFirstResponse
<1>3. set \in SUBSET S!Clocks /\ timed.breached \subseteq set
  BY <1>1 DEF Row, S!Clocks
<1>4. overdue => "response" \in timed.overran
  <2> SUFFICES ASSUME overdue PROVE "response" \in timed.overran
    OBVIOUS
  <2>1. timed.due["response"] \in Nat /\ timed.due["response"] <= now
    <3>1. timed.due["response"] \in Nat
      BY <1>1 DEF Row, Instants, S!Clocks
    <3> QED BY <1>1, <3>1
  <2>2. timed.minutes["response"] <= timed.worked["response"] /\ timed.minutes["response"] # 0
    BY <1>1, <2>1, ResponseDue DEF RowKept, ResponseSet
  <2>3. timed.minutes["response"] \in Nat /\ timed.worked["response"] \in Nat
    BY <1>1 DEF Row, S!Clocks
  <2> QED BY <1>1, <2>2, <2>3 DEF Noted, S!Clocks
<1>5. "closed_waiting" \notin timed.marks => set \subseteq timed.overran
  BY <1>1, <1>4 DEF RowKept, BreachedTruly
<1> HIDE DEF set
<1>6. u \in Row
  BY <1>1, <1>3 DEF Row, Instants
<1>7. /\ u.status = timed.status
      /\ u.started = timed.started /\ u.since = timed.since /\ u.paused = timed.paused
      /\ u.minutes = timed.minutes /\ u.warn = timed.warn /\ u.due = timed.due
      /\ u.stage = timed.stage /\ u.next = now /\ u.breached = set
      /\ u.worked = timed.worked /\ u.overran = timed.overran /\ u.marks = timed.marks
  BY <1>1 DEF Row
<1> HIDE DEF u
<1>8. ResponseSet(calendar, u) /\ ResolutionSet(calendar, u) /\ Measured(calendar, u, now) /\ Unset(u, enabled)
  BY <1>1, <1>7 DEF RowKept, ResponseSet, ResolutionSet, Measured, Unset, S!Running
<1>9. Stored(u)
  BY <1>1, <1>3, <1>7 DEF RowKept, Stored
<1>10. BreachedTruly(u)
  BY <1>5, <1>7 DEF BreachedTruly
<1>11. Scheduled(calendar, u, now, enabled)
  BY <1>1, <1>6, <1>7, LooksNow
<1>12. RowKept(calendar, u, now, enabled)
  BY <1>6, <1>8, <1>9, <1>10, <1>11 DEF RowKept
<1> QED BY <1>2, <1>12, BecomesKept

LEMMA WaitStep ==
  ASSUME ClocksKept, S!Wait
  PROVE  ClocksKept'
<1> DEFINE u == [timed EXCEPT !.since = now, !.next = now]
<1>1. /\ calendar \in Calendars /\ now \in Nat
      /\ RowKept(calendar, timed, now, enabled) /\ timed \in Row
      /\ timed.status = "in_progress" /\ timed.since = S!Never
  BY SlaAssumption DEF ClocksKept, RowKept, S!Wait
<1>2. S!Becomes(u)
  BY DEF S!Wait, S!Paused
<1>3. u \in Row
  BY <1>1 DEF Row, Instants
<1>4. /\ u.status = timed.status /\ u.since = now
      /\ u.started = timed.started /\ u.paused = timed.paused
      /\ u.minutes = timed.minutes /\ u.warn = timed.warn /\ u.due = timed.due
      /\ u.stage = timed.stage /\ u.next = now /\ u.breached = timed.breached
      /\ u.worked = timed.worked /\ u.overran = timed.overran /\ u.marks = timed.marks
  BY <1>1 DEF Row
<1> HIDE DEF u
<1>5. /\ ResponseSet(calendar, u) /\ ResolutionSet(calendar, u) /\ Stored(u)
      /\ Unset(u, enabled) /\ BreachedTruly(u)
  BY <1>1, <1>4 DEF RowKept, ResponseSet, ResolutionSet, Stored, Unset, BreachedTruly, S!Running
<1>6. Measured(calendar, u, now)
  <2>1. Measured(calendar, timed, now) /\ now # S!Never /\ now <= now
    BY <1>1 DEF RowKept, S!Never
  <2>2. (IF timed.since = S!Never THEN now ELSE timed.since) = now
        /\ (IF u.since = S!Never THEN now ELSE u.since) = now
    BY <1>1, <1>4
  <2> QED BY <1>1, <1>4, <2>1, <2>2 DEF Measured, S!Running
<1>7. Scheduled(calendar, u, now, enabled)
  BY <1>1, <1>3, <1>4, LooksNow
<1>8. RowKept(calendar, u, now, enabled)
  BY <1>3, <1>5, <1>6, <1>7 DEF RowKept
<1> QED BY <1>2, <1>8, BecomesKept

\* resumeSla adds the working time of the pause to the pauses.
LEMMA ResumeStep ==
  ASSUME ClocksKept, S!Resume
  PROVE  ClocksKept'
<1> DEFINE pause == S!BusinessMinutesBetween(calendar, timed.since, now)
           sum   == timed.paused + pause
           row   == [timed EXCEPT !.since = S!Never, !.next = now, !.paused = sum]
           again == timed.minutes["resolution"] # 0 /\ timed.stage["resolution"] < S!Breached
           u     == IF again THEN S!ResolutionTimed(row, timed.minutes["resolution"]) ELSE row
<1>1. /\ calendar \in Calendars /\ now \in Nat /\ now \in 0 .. MaxTime
      /\ RowKept(calendar, timed, now, enabled) /\ timed \in Row
      /\ S!Running(timed) /\ timed.since # S!Never
  BY SlaAssumption DEF ClocksKept, RowKept, S!Resume
<1>2. S!Becomes(u)
  BY DEF S!Resume, S!Resumed
<1>3. timed.since \in Nat /\ timed.since <= now /\ timed.paused \in Nat /\ timed.started \in Nat
  BY <1>1 DEF RowKept, Measured, Row, Instants
<1>4. pause = WorkBefore(calendar, now) - WorkBefore(calendar, timed.since) /\ pause \in Nat
  <2>1. pause = WorkBefore(calendar, now) - WorkBefore(calendar, timed.since)
    BY <1>1, <1>3, BetweenIsWork
  <2>2. /\ WorkBefore(calendar, now) \in Nat /\ WorkBefore(calendar, timed.since) \in Nat
        /\ WorkBefore(calendar, timed.since) <= WorkBefore(calendar, now)
    BY <1>1, <1>3, WorkGrows, WorkMonotone
  <2> HIDE DEF pause
  <2> QED BY <2>1, <2>2
<1>5. sum \in Nat
  BY <1>3, <1>4
<1> HIDE DEF pause
<1>6. Measured(calendar, timed, now)
  BY <1>1 DEF RowKept
<1>7. timed.worked["resolution"] + sum + WorkBefore(calendar, timed.started) = WorkBefore(calendar, now)
  <2> DEFINE a == WorkBefore(calendar, timed.started)
             b == WorkBefore(calendar, timed.since)
             c == WorkBefore(calendar, now)
             w == timed.worked["resolution"]
  <2>1. w + timed.paused + a = b
    BY <1>1, <1>6 DEF Measured
  <2>2. a \in Nat /\ b \in Nat /\ c \in Nat /\ w \in Nat
    <3>1. w \in Nat
      BY <1>1 DEF Row, S!Clocks
    <3> QED BY <1>1, <1>3, <3>1, WorkGrows
  <2>3. pause = c - b
    BY <1>4
  <2> HIDE DEF a, b, c, w
  <2>4. w + sum + a = c
    BY <1>3, <1>4, <2>1, <2>2, <2>3
  <2> QED BY <2>4 DEF a, c, w
<1> HIDE DEF sum
<1>8. row \in Row
  BY <1>1, <1>5 DEF Row, Instants
<1>9. /\ row.status = timed.status /\ row.since = S!Never
      /\ row.started = timed.started /\ row.paused = sum
      /\ row.minutes = timed.minutes /\ row.warn = timed.warn /\ row.due = timed.due
      /\ row.stage = timed.stage /\ row.next = now /\ row.breached = timed.breached
      /\ row.worked = timed.worked /\ row.overran = timed.overran /\ row.marks = timed.marks
  BY <1>1 DEF Row
<1> HIDE DEF row
<1>10. Measured(calendar, row, now)
  BY <1>1, <1>6, <1>7, <1>9 DEF Measured, S!Running
<1>11. Stored(row) /\ BreachedTruly(row) /\ ResponseSet(calendar, row) /\ Unset(row, enabled)
  BY <1>1, <1>9 DEF RowKept, Stored, BreachedTruly, ResponseSet, Unset, S!Running
<1>12. CASE again
  <2> DEFINE target == timed.minutes["resolution"]
  <2>1. target \in Nat
    BY <1>1 DEF Row, S!Clocks
  <2>2. target # 0 => \E class \in Classes : target = Targets[class]["resolution"]
    BY <1>1 DEF RowKept, ResolutionSet
  <2>3. u = S!ResolutionTimed(row, target)
    BY <1>12
  <2> HIDE DEF target, u
  <2>4. u \in Row /\ SameButClock(u, row, "resolution") /\ ResolutionSet(calendar, u)
        /\ u.minutes["resolution"] = target
    BY <1>1, <1>8, <2>1, <2>2, <2>3, ResolutionRow, ResolutionIsSet
  <2>5. ResponseSet(calendar, u)
    BY <1>11, <2>4, OtherClockSet
  <2>6. SameButTimes(u, row) /\ u.next = now
    BY <1>9, <2>4 DEF SameButClock
  <2>7. Measured(calendar, u, now) /\ Stored(u) /\ BreachedTruly(u)
    BY <1>10, <1>11, <2>6, SameKept
  <2>8. Unset(u, enabled)
    <3>1. u.minutes["resolution"] = row.minutes["resolution"] /\ u.minutes["response"] = row.minutes["response"]
      BY <1>9, <2>4 DEF SameButClock, S!Clocks, target
    <3> QED BY <1>11, <2>6, <3>1 DEF Unset, SameButTimes, S!Running, S!Clocks
  <2>9. Scheduled(calendar, u, now, enabled)
    BY <1>1, <2>4, <2>6, LooksNow
  <2>10. RowKept(calendar, u, now, enabled)
    BY <2>4, <2>5, <2>7, <2>8, <2>9 DEF RowKept
  <2> QED BY <1>2, <2>10, BecomesKept
<1>13. CASE ~again
  <2>1. u = row
    BY <1>13
  <2>2. ResolutionSet(calendar, row)
    <3>1. timed.stage["resolution"] < 2 => timed.minutes["resolution"] = 0
      BY <1>13 DEF S!Breached
    <3> QED BY <1>1, <1>9, <3>1 DEF RowKept, ResolutionSet
  <2>3. Scheduled(calendar, row, now, enabled)
    BY <1>1, <1>8, <1>9, LooksNow
  <2>4. RowKept(calendar, row, now, enabled)
    BY <1>8, <1>10, <1>11, <2>2, <2>3 DEF RowKept
  <2> HIDE DEF u
  <2> QED BY <1>2, <2>1, <2>4, BecomesKept
<1> QED BY <1>12, <1>13

\* A ticket that is closed: its clocks are stopped, and what is stored as breached did run over.
LEMMA ClosedKept ==
  ASSUME ClocksKept, NEW u \in Row, ~S!Running(u), S!Becomes(u), u.since = S!Never,
         u.started = timed.started, u.paused = timed.paused,
         u.minutes = timed.minutes, u.due = timed.due, u.stage = timed.stage,
         u.worked = timed.worked, u.overran = timed.overran, timed.marks \subseteq u.marks,
         \/ u.breached = timed.breached
         \/ /\ u.breached = timed.breached \cup {"resolution"}
            /\ timed.due["resolution"] # S!Never /\ timed.due["resolution"] < now
            /\ "closed_waiting" \notin u.marks => S!Running(timed) /\ timed.since = S!Never
  PROVE  ClocksKept'
<1>1. /\ calendar \in Calendars /\ now \in Nat /\ now \in 0 .. MaxTime
      /\ RowKept(calendar, timed, now, enabled) /\ timed \in Row /\ Noted(timed)
  BY SlaAssumption DEF ClocksKept, RowKept
<1>2. ResponseSet(calendar, u) /\ ResolutionSet(calendar, u)
  BY <1>1 DEF RowKept, ResponseSet, ResolutionSet
<1>3. Measured(calendar, u, now) /\ Unset(u, enabled) /\ Scheduled(calendar, u, now, enabled)
  BY <1>1 DEF RowKept, Measured, Unset, Scheduled, S!Active
<1>4. Stored(u)
  BY <1>1 DEF RowKept, Stored
<1>5. BreachedTruly(u)
  <2>1. CASE u.breached = timed.breached
    BY <1>1, <2>1 DEF RowKept, BreachedTruly
  <2>2. CASE u.breached # timed.breached
    <3> SUFFICES ASSUME "closed_waiting" \notin u.marks PROVE "resolution" \in timed.overran
      BY <1>1, <2>2 DEF RowKept, BreachedTruly
    <3>1. timed.due["resolution"] # S!Never /\ timed.due["resolution"] < now /\ S!Running(timed) /\ timed.since = S!Never
      BY <2>2
    <3>2. CASE timed.stage["resolution"] >= 2
      BY <1>1, <3>2 DEF RowKept, Stored, BreachedTruly, S!Clocks
    <3>3. CASE ~(timed.stage["resolution"] >= 2)
      <4>1. timed.stage["resolution"] < 2
        <5>1. timed.stage["resolution"] \in 0 .. 3
          BY <1>1 DEF Row, S!Clocks, S!Stages
        <5> QED BY <3>3, <5>1
      <4>2. timed.due["resolution"] <= now
        <5>1. timed.due["resolution"] \in Nat
          BY <1>1, <3>1 DEF Row, Instants, S!Clocks
        <5> QED BY <1>1, <3>1, <5>1
      <4>3. timed.minutes["resolution"] <= timed.worked["resolution"]
        BY <1>1, <3>1, <4>1, <4>2, ResolutionDue DEF RowKept
      <4>4. timed.minutes["resolution"] # 0
        BY <1>1, <3>1, <4>1 DEF RowKept, ResolutionSet
      <4>5. timed.minutes["resolution"] \in Nat /\ timed.worked["resolution"] \in Nat
        BY <1>1 DEF Row, S!Clocks
      <4> QED BY <1>1, <4>3, <4>4, <4>5 DEF Noted, S!Clocks
    <3> QED BY <3>2, <3>3
  <2> QED BY <2>1, <2>2
<1>6. RowKept(calendar, u, now, enabled)
  BY <1>2, <1>3, <1>4, <1>5 DEF RowKept
<1> QED BY <1>6, BecomesKept

LEMMA CloseStep ==
  ASSUME ClocksKept, S!Close \/ S!AutoClose \/ S!CloseForIncident \/ S!FinishRating
  PROVE  ClocksKept'
<1>1. timed \in Row
  BY DEF ClocksKept, RowKept
<1>2. CASE S!Close \/ S!CloseForIncident
  <2>1. PICK status \in {"awaiting_rating", "closed"}, since \in {timed.since, S!Never}, marks \in SUBSET S!Marks :
           /\ S!Becomes(S!Stopped([timed EXCEPT !.status = status, !.since = since, !.marks = marks]))
           /\ timed.marks \subseteq marks /\ S!Running(timed)
           /\ "closed_waiting" \notin marks => since = timed.since
    <3>1. CASE S!Close
      <4>1. [timed EXCEPT !.status = "awaiting_rating"]
               = [timed EXCEPT !.status = "awaiting_rating", !.since = timed.since, !.marks = timed.marks]
        BY <1>1 DEF Row
      <4>2. timed.marks \in SUBSET S!Marks
        BY <1>1 DEF Row
      <4> QED BY <3>1, <4>1, <4>2 DEF S!Close, S!Running
    <3>2. CASE S!CloseForIncident
      <4> DEFINE marks == IF timed.since # S!Never THEN timed.marks \cup {"closed_waiting"} ELSE timed.marks
      <4>1. marks \in SUBSET S!Marks
        BY <1>1 DEF Row, S!Marks
      <4>2. PICK status \in {"awaiting_rating", "closed"} :
               S!Becomes(S!Stopped([timed EXCEPT !.status = status, !.since = S!Never, !.marks = marks]))
        BY <3>2 DEF S!CloseForIncident
      <4>3. timed.marks \subseteq marks /\ ("closed_waiting" \notin marks => S!Never = timed.since)
        OBVIOUS
      <4>4. S!Running(timed)
        BY <3>2 DEF S!CloseForIncident
      <4> HIDE DEF marks
      <4> QED BY <4>1, <4>2, <4>3, <4>4
    <3> QED BY <1>2, <3>1, <3>2
  <2> DEFINE t == [timed EXCEPT !.status = status, !.since = since, !.marks = marks]
             overdue == t.due["resolution"] # S!Never /\ t.due["resolution"] < now /\ t.since = S!Never
             set == IF overdue THEN t.breached \cup {"resolution"} ELSE t.breached
             u == [t EXCEPT !.since = S!Never, !.next = S!Never, !.breached = set]
  <2>2. S!Becomes(u)
    BY <2>1 DEF S!Stopped
  <2>3. t \in Row
    BY <1>1, <2>1 DEF Row, Instants
  <2>4. /\ t.status = status /\ t.since = since /\ t.marks = marks
        /\ t.started = timed.started /\ t.paused = timed.paused
        /\ t.minutes = timed.minutes /\ t.due = timed.due /\ t.stage = timed.stage
        /\ t.worked = timed.worked /\ t.overran = timed.overran /\ t.breached = timed.breached
    BY <1>1 DEF Row
  <2> HIDE DEF t
  <2>5. set \in SUBSET S!Clocks
    BY <2>3 DEF Row, S!Clocks
  <2>6. \/ set = timed.breached
        \/ /\ set = timed.breached \cup {"resolution"}
           /\ timed.due["resolution"] # S!Never /\ timed.due["resolution"] < now
           /\ "closed_waiting" \notin marks => timed.since = S!Never
    BY <2>1, <2>4
  <2> HIDE DEF set
  <2>7. u \in Row
    BY <2>3, <2>5 DEF Row, Instants
  <2>8. /\ u.status = status /\ u.since = S!Never /\ u.marks = marks /\ u.breached = set
        /\ u.started = t.started /\ u.paused = t.paused
        /\ u.minutes = t.minutes /\ u.due = t.due /\ u.stage = t.stage
        /\ u.worked = t.worked /\ u.overran = t.overran
    BY <2>3, <2>4 DEF Row
  <2> HIDE DEF u
  <2>9. ~S!Running(u)
    BY <2>8 DEF S!Running
  <2> QED BY <2>1, <2>2, <2>4, <2>6, <2>7, <2>8, <2>9, ClosedKept
<1>3. CASE S!AutoClose
  <2> DEFINE stopped == [timed EXCEPT !.since = S!Never, !.next = S!Never, !.breached = timed.breached]
             u == [stopped EXCEPT !.status = "closed"]
  <2>1. S!Stopped(timed) = stopped
    BY <1>3 DEF S!AutoClose, S!Stopped
  <2>2. S!Becomes(u)
    BY <1>3, <2>1 DEF S!AutoClose
  <2>3. u \in Row
    BY <1>1 DEF Row, Instants
  <2>4. /\ u.status = "closed" /\ u.since = S!Never /\ u.marks = timed.marks /\ u.breached = timed.breached
        /\ u.started = timed.started /\ u.paused = timed.paused
        /\ u.minutes = timed.minutes /\ u.due = timed.due /\ u.stage = timed.stage
        /\ u.worked = timed.worked /\ u.overran = timed.overran
    BY <1>1 DEF Row
  <2> HIDE DEF u
  <2>5. ~S!Running(u)
    BY <2>4 DEF S!Running
  <2> QED BY <2>2, <2>3, <2>4, <2>5, ClosedKept
<1>4. CASE S!FinishRating
  <2> DEFINE u == [timed EXCEPT !.status = "closed"]
  <2>1. S!Becomes(u) /\ timed.status = "awaiting_rating"
    BY <1>4 DEF S!FinishRating
  <2>2. u \in Row
    BY <1>1 DEF Row
  <2>3. /\ u.status = "closed" /\ u.since = timed.since /\ u.next = timed.next /\ u.marks = timed.marks
        /\ u.breached = timed.breached /\ u.started = timed.started /\ u.paused = timed.paused
        /\ u.minutes = timed.minutes /\ u.due = timed.due /\ u.stage = timed.stage
        /\ u.worked = timed.worked /\ u.overran = timed.overran
    BY <1>1 DEF Row
  <2> HIDE DEF u
  <2>4. ~S!Running(u)
    BY <2>3 DEF S!Running
  <2>5. RowKept(calendar, timed, now, enabled)
    BY DEF ClocksKept
  <2>6. ResponseSet(calendar, u) /\ ResolutionSet(calendar, u) /\ Stored(u) /\ BreachedTruly(u)
    BY <2>3, <2>5 DEF RowKept, ResponseSet, ResolutionSet, Stored, BreachedTruly
  <2>7. Measured(calendar, u, now) /\ Unset(u, enabled) /\ Scheduled(calendar, u, now, enabled)
    BY <2>3, <2>4, <2>5 DEF RowKept, Measured, Unset, Scheduled, S!Active
  <2>8. RowKept(calendar, u, now, enabled)
    BY <2>2, <2>6, <2>7 DEF RowKept
  <2> QED BY <2>1, <2>8, BecomesKept
<1> QED BY <1>2, <1>3, <1>4

LEMMA ReopenStep ==
  ASSUME ClocksKept, S!Reopen
  PROVE  ClocksKept'
<1> DEFINE row == [timed EXCEPT !.started = now, !.paused = 0, !.stage["resolution"] = 0, !.since = S!Never,
                                !.warn["resolution"] = S!Never, !.due["resolution"] = S!Never, !.next = now,
                                !.worked["resolution"] = 0]
           target == Targets[timed.class]["resolution"]
           q      == IF enabled /\ target # 0 THEN S!ResolutionTimed(row, target) ELSE row
           marks  == IF ~enabled /\ \E c \in S!Clocks : timed.minutes[c] # 0
                     THEN timed.marks \cup {"reopened_off"} ELSE timed.marks
           u      == [q EXCEPT !.status = "in_progress", !.marks = marks]
<1>1. /\ calendar \in Calendars /\ now \in Nat
      /\ RowKept(calendar, timed, now, enabled) /\ timed \in Row
  BY SlaAssumption DEF ClocksKept, RowKept
<1>2. target \in Nat /\ timed.class \in Classes
  <2>1. timed.class \in Classes
    BY <1>1 DEF Row
  <2> QED BY <2>1, TargetsTyped DEF S!Clocks
<1>3. S!Restarted(timed) = q
  BY DEF S!Restarted
<1>4. row \in Row
  <2> DEFINE stage  == [timed.stage EXCEPT !["resolution"] = 0]
             worked == [timed.worked EXCEPT !["resolution"] = 0]
             warn   == [timed.warn EXCEPT !["resolution"] = S!Never]
             due    == [timed.due EXCEPT !["resolution"] = S!Never]
             other  == [timed EXCEPT !.started = now, !.paused = 0, !.stage = stage, !.since = S!Never,
                                     !.warn = warn, !.due = due, !.next = now, !.worked = worked]
  <2>1. stage \in [S!Clocks -> S!Stages] /\ worked \in [S!Clocks -> Nat]
    <3>1. 0 \in S!Stages /\ 0 \in Nat
      BY DEF S!Stages
    <3>2. timed.stage \in [S!Clocks -> S!Stages] /\ timed.worked \in [S!Clocks -> Nat]
      BY <1>1 DEF Row
    <3>3. stage \in [S!Clocks -> S!Stages]
      BY <3>1, <3>2
    <3>4. worked \in [S!Clocks -> Nat]
      BY <3>1, <3>2
    <3> QED BY <3>3, <3>4
  <2>2. warn \in [S!Clocks -> Instants] /\ due \in [S!Clocks -> Instants]
    BY <1>1 DEF Row, Instants
  <2>3. row = other
    BY <1>1 DEF Row
  <2> HIDE DEF stage, worked, warn, due, row
  <2>4. other \in Row
    BY <1>1, <2>1, <2>2 DEF Row, Instants
  <2> QED BY <2>3, <2>4
<1>8. q.marks = timed.marks
  <2>1. row \in Row /\ row.marks = timed.marks
    BY <1>1, <1>4 DEF Row
  <2> HIDE DEF row, target
  <2>2. SameButClock(S!ResolutionTimed(row, target), row, "resolution")
    BY <1>1, <1>2, <2>1, ResolutionRow
  <2> QED BY <2>1, <2>2 DEF SameButClock, SameButTimes
<1>5. S!Becomes(u)
  <2> HIDE DEF row, target
  <2>1. S!Becomes([q EXCEPT !.status = "in_progress",
                            !.marks = IF ~enabled /\ \E c \in S!Clocks : timed.minutes[c] # 0
                                      THEN q.marks \cup {"reopened_off"} ELSE q.marks])
    BY <1>3 DEF S!Reopen
  <2> QED BY <1>8, <2>1
<1>6. marks \in SUBSET S!Marks /\ ("closed_waiting" \in marks <=> "closed_waiting" \in timed.marks)
  BY <1>1 DEF Row, S!Marks
<1>7. ~enabled /\ "reopened_off" \notin marks => \A c \in S!Clocks : timed.minutes[c] = 0
  OBVIOUS
<1> HIDE DEF marks
<1>9. /\ row.since = S!Never /\ row.started = now /\ row.paused = 0 /\ row.next = now
      /\ row.minutes = timed.minutes /\ row.due["resolution"] = S!Never
      /\ row.due["response"] = timed.due["response"]
      /\ row.stage["resolution"] = 0 /\ row.stage["response"] = timed.stage["response"]
      /\ row.worked["resolution"] = 0 /\ row.worked["response"] = timed.worked["response"]
      /\ row.breached = timed.breached /\ row.overran = timed.overran
  BY <1>1 DEF Row, S!Clocks
<1> HIDE DEF row, target
<1>10. ResponseSet(calendar, row) /\ ResolutionSet(calendar, row)
  BY <1>1, <1>9 DEF RowKept, ResponseSet, ResolutionSet
<1>11. q \in Row /\ SameButClock(q, row, "resolution") /\ ResolutionSet(calendar, q)
       /\ (~enabled => q = row)
  <2>1. CASE enabled /\ target # 0
    <3>1. q = S!ResolutionTimed(row, target)
      BY <2>1
    <3>2. \E class \in Classes : target = Targets[class]["resolution"]
      BY <1>2 DEF target
    <3> HIDE DEF q
    <3> QED BY <1>1, <1>2, <1>4, <2>1, <3>1, <3>2, ResolutionRow, ResolutionIsSet
  <2>2. CASE ~(enabled /\ target # 0)
    <3>1. q = row
      BY <2>2
    <3>2. SameButClock(row, row, "resolution")
      BY DEF SameButClock, SameButTimes
    <3> QED BY <1>4, <1>10, <3>1, <3>2
  <2> QED BY <2>1, <2>2
<1> HIDE DEF q
<1>12. ResponseSet(calendar, q) /\ SameButTimes(q, row) /\ q.next = now
  BY <1>9, <1>10, <1>11, OtherClockSet DEF SameButClock
<1>13. u \in Row
  BY <1>6, <1>11 DEF Row
<1>14. /\ u.status = "in_progress" /\ u.marks = marks
       /\ u.started = q.started /\ u.since = q.since /\ u.paused = q.paused
       /\ u.minutes = q.minutes /\ u.warn = q.warn /\ u.due = q.due
       /\ u.stage = q.stage /\ u.next = q.next /\ u.breached = q.breached
       /\ u.worked = q.worked /\ u.overran = q.overran
  BY <1>11 DEF Row
<1> HIDE DEF u
<1>15. ResponseSet(calendar, u) /\ ResolutionSet(calendar, u)
  BY <1>11, <1>12, <1>14 DEF ResponseSet, ResolutionSet
<1>16. Measured(calendar, u, now)
  <2>1. /\ u.worked["response"] = timed.worked["response"] /\ u.worked["resolution"] = 0
        /\ u.started = now /\ u.since = S!Never /\ u.paused = 0
    BY <1>9, <1>12, <1>14 DEF SameButTimes
  <2>2. timed.worked["response"] = WorkBefore(calendar, now) /\ now <= now
    BY <1>1 DEF RowKept, Measured
  <2>3. WorkBefore(calendar, now) \in Nat
    BY <1>1, WorkGrows
  <2> QED BY <2>1, <2>2, <2>3 DEF Measured
<1>17. Stored(u)
  <2>1. /\ u.stage["resolution"] = 0 /\ u.stage["response"] = timed.stage["response"]
        /\ u.breached = timed.breached
    BY <1>9, <1>12, <1>14 DEF SameButTimes
  <2>2. Stored(timed)
    BY <1>1 DEF RowKept
  <2>3. \A c \in S!Clocks : c = "response" \/ c = "resolution"
    BY DEF S!Clocks
  <2> QED BY <2>1, <2>2, <2>3 DEF Stored
<1>18. BreachedTruly(u)
  <2>1. u.breached = timed.breached /\ u.overran = timed.overran
    BY <1>9, <1>12, <1>14 DEF SameButTimes
  <2> QED BY <1>1, <1>6, <1>14, <2>1 DEF RowKept, BreachedTruly
<1>19. Unset(u, enabled)
  <2> SUFFICES ASSUME ~enabled, "reopened_off" \notin u.marks PROVE \A c \in S!Clocks : u.minutes[c] = 0
    BY DEF Unset
  <2>1. u.minutes = timed.minutes
    BY <1>9, <1>11, <1>14
  <2> QED BY <1>7, <1>14, <2>1
<1>20. Scheduled(calendar, u, now, enabled)
  BY <1>1, <1>12, <1>13, <1>14, LooksNow
<1>21. RowKept(calendar, u, now, enabled)
  BY <1>13, <1>15, <1>16, <1>17, <1>18, <1>19, <1>20 DEF RowKept
<1> QED BY <1>5, <1>21, BecomesKept

\* Switching SLA off unsets the clocks, switching it on sets those of a row where nothing is set.
LEMMA SwitchStep ==
  ASSUME ClocksKept, S!Switch
  PROVE  ClocksKept'
<1>1. /\ calendar \in Calendars /\ now \in Nat /\ now \in 0 .. MaxTime /\ enabled \in BOOLEAN
      /\ RowKept(calendar, timed, now, enabled) /\ timed \in Row /\ Noted(timed)
  BY SlaAssumption DEF ClocksKept, RowKept
<1>2. calendar' = calendar /\ now' = now /\ enabled' = ~enabled
  BY DEF S!Switch
<1>3. CASE enabled /\ S!Running(timed)
  <2> DEFINE first == S!Untimed(timed, "response")
             both  == S!Untimed(first, "resolution")
             u     == [both EXCEPT !.next = S!Never]
  <2>1. timed' = u /\ enabled' = FALSE
    BY <1>2, <1>3 DEF S!Switch
  <2>2. /\ first \in Row /\ SameButClock(first, timed, "response")
        /\ first.minutes["response"] = 0 /\ first.due["response"] = S!Never
    BY <1>1, UntimedRow DEF S!Clocks
  <2> HIDE DEF first
  <2>3. /\ both \in Row /\ SameButClock(both, first, "resolution")
        /\ both.minutes["resolution"] = 0 /\ both.due["resolution"] = S!Never
    BY <2>2, UntimedRow DEF S!Clocks
  <2> HIDE DEF both
  <2>4. both.minutes["response"] = 0 /\ both.due["response"] = S!Never
    BY <2>2, <2>3 DEF SameButClock, S!Clocks
  <2>5. SameButTimes(both, timed)
    BY <2>2, <2>3 DEF SameButClock, SameButTimes
  <2>6. u \in Row
    BY <2>3 DEF Row, Instants
  <2>7. SameButTimes(u, both) /\ u.minutes = both.minutes /\ u.due = both.due
    BY <2>3 DEF Row, SameButTimes
  <2> HIDE DEF u
  <2>8. SameButTimes(u, timed)
    BY <2>5, <2>7 DEF SameButTimes
  <2>9. \A c \in S!Clocks : u.minutes[c] = 0 /\ u.due[c] = S!Never
    BY <2>3, <2>4, <2>7 DEF S!Clocks
  <2>10. ResponseSet(calendar, u) /\ ResolutionSet(calendar, u) /\ Unset(u, FALSE) /\ Noted(u)
    BY <2>9 DEF ResponseSet, ResolutionSet, Unset, Noted, S!Clocks
  <2>11. Scheduled(calendar, u, now, FALSE)
    BY DEF Scheduled
  <2>12. Measured(calendar, u, now) /\ Stored(u) /\ BreachedTruly(u)
    BY <1>1, <2>8, SameKept DEF RowKept
  <2>13. RowKept(calendar, u, now, FALSE)
    BY <2>6, <2>10, <2>11, <2>12 DEF RowKept
  <2>14. RowKept(calendar', timed', now', enabled') /\ Noted(timed')
    BY <1>2, <2>1, <2>10, <2>13
  <2> QED BY <1>1, <1>2, <2>1, <2>14 DEF ClocksKept
<1>4. CASE ~enabled /\ S!Running(timed) /\ \A c \in S!Clocks : timed.minutes[c] = 0
  <2>1. timed' = S!Counted(S!Reclassified(timed, TRUE)) /\ enabled' = TRUE
    BY <1>2, <1>4 DEF S!Switch
  <2>2. RowKept(calendar, S!Reclassified(timed, TRUE), now, TRUE)
    BY <1>1, <1>4, ReclassifiedKept DEF RowKept
  <2> QED BY <1>1, <1>2, <2>1, <2>2, Becoming
<1>5. CASE /\ ~(enabled /\ S!Running(timed))
           /\ ~(~enabled /\ S!Running(timed) /\ \A c \in S!Clocks : timed.minutes[c] = 0)
  <2>1. timed' = timed
    BY <1>5 DEF S!Switch
  <2>2. ~S!Running(timed) \/ (~enabled /\ "reopened_off" \in timed.marks)
    BY <1>1, <1>5 DEF RowKept, Unset
  <2>3. Unset(timed, ~enabled) /\ Scheduled(calendar, timed, now, ~enabled)
    BY <2>2 DEF Unset, Scheduled, S!Active
  <2>4. RowKept(calendar, timed, now, ~enabled)
    BY <1>1, <2>3 DEF RowKept
  <2>5. RowKept(calendar', timed', now', enabled') /\ Noted(timed')
    BY <1>1, <1>2, <2>1, <2>4
  <2> QED BY <1>1, <1>2, <2>5 DEF ClocksKept
<1> QED BY <1>3, <1>4, <1>5

\* The stage the timer finds: not an earlier one, and a breach only when the deadline has come.
LEMMA StageTyped ==
  ASSUME NEW t \in Row, NEW c \in S!Clocks, S!Active(t, c), calendar \in Calendars, now \in Nat
  PROVE  /\ S!Stage(t, c) \in S!Stages /\ t.stage[c] <= S!Stage(t, c)
         /\ \A n \in 1 .. 3 : S!Checkpoints(t, c)[n] = Point(calendar, t, c, n)
         /\ S!Stage(t, c) >= S!Breached /\ t.stage[c] < 2 => t.due[c] <= now
<1> DEFINE reached == {n \in 1 .. 3 : S!Checkpoints(t, c)[n] <= now}
           k       == Cardinality(reached)
           stage   == t.stage[c]
<1>1. \A n \in 1 .. 3 : S!Checkpoints(t, c)[n] = Point(calendar, t, c, n)
  BY DEF S!Checkpoints, Point
<1>2. S!Stage(t, c) = S!Larger(stage, k)
  BY DEF S!Stage, S!Cardinality, Cardinality
<1>3. stage \in 0 .. 3
  BY DEF Row, S!Stages
<1>4. /\ \A n \in 1 .. 3 : S!Checkpoints(t, c)[n] \in Nat
      /\ S!Checkpoints(t, c)[2] = t.due[c] /\ t.due[c] \in Nat
      /\ t.due[c] <= S!Checkpoints(t, c)[3]
  BY <1>1, PointTyped
<1>5. reached \subseteq 1 .. 3
  OBVIOUS
<1>6. ~(t.due[c] <= now) => reached \subseteq {1}
  <2> SUFFICES ASSUME ~(t.due[c] <= now), NEW n \in reached PROVE n = 1
    OBVIOUS
  <2>1. n \in 1 .. 3 /\ S!Checkpoints(t, c)[n] <= now
    OBVIOUS
  <2> HIDE DEF reached
  <2>2. n # 2
    BY <1>4, <2>1
  <2>3. n # 3
    BY <1>4, <2>1
  <2>4. n = 1 \/ n = 2 \/ n = 3
    BY <2>1
  <2> QED BY <2>2, <2>3, <2>4
<1> HIDE DEF reached
<1>7. k \in Nat /\ k <= 3
  <2>1. IsFiniteSet(1 .. 3) /\ Cardinality(1 .. 3) = (IF 1 > 3 THEN 0 ELSE 3 - 1 + 1)
    BY 1 \in Int, 3 \in Int, FS_Interval
  <2>2. Cardinality(1 .. 3) = 3
    BY <2>1
  <2> QED BY <1>5, <2>1, <2>2, FS_Subset, FS_CardinalityType
<1>8. ~(t.due[c] <= now) => k <= 1
  <2>1. IsFiniteSet({1}) /\ Cardinality({1}) = 1
    BY FS_Singleton
  <2> QED BY <1>6, <2>1, FS_Subset
<1> HIDE DEF k, stage
<1>9. /\ S!Larger(stage, k) \in 0 .. 3 /\ stage <= S!Larger(stage, k)
      /\ S!Larger(stage, k) >= 2 /\ stage < 2 => ~(k <= 1)
  BY <1>3, <1>7 DEF S!Larger
<1> QED BY <1>1, <1>2, <1>8, <1>9 DEF stage, S!Stages, S!Breached

\* The next instant to look: there is one while a clock has a stage ahead, and it is not after that stage.
LEMMA NextTyped ==
  ASSUME NEW t \in Row, NEW clocks \in SUBSET S!Clocks, \A c \in clocks : S!Active(t, c),
         calendar \in Calendars, now \in Nat
  PROVE  /\ S!NextCheck(t, clocks) \in Instants
         /\ \A c \in clocks : S!Stage(t, c) < 3 =>
               /\ S!NextCheck(t, clocks) \in Nat
               /\ S!NextCheck(t, clocks) <= Point(calendar, t, c, S!Stage(t, c) + 1)
<1> DEFINE ahead == {S!Checkpoints(t, c)[S!Stage(t, c) + 1] : c \in {k \in clocks : S!Stage(t, k) < 3}}
           least == CHOOSE p \in ahead : \A q \in ahead : p <= q
<1>1. S!NextCheck(t, clocks) = IF ahead = {} THEN S!Never ELSE least
  BY DEF S!NextCheck
<1>2. ASSUME NEW c \in clocks, S!Stage(t, c) < 3
      PROVE  /\ S!Checkpoints(t, c)[S!Stage(t, c) + 1] = Point(calendar, t, c, S!Stage(t, c) + 1)
             /\ Point(calendar, t, c, S!Stage(t, c) + 1) \in Nat
  <2>1. c \in S!Clocks /\ S!Active(t, c)
    OBVIOUS
  <2>2. S!Stage(t, c) + 1 \in 1 .. 3
    <3>1. S!Stage(t, c) \in 0 .. 3
      BY <2>1, StageTyped DEF S!Stages
    <3> QED BY <1>2, <3>1
  <2> QED BY <2>1, <2>2, StageTyped, PointTyped
<1>3. ahead \subseteq Nat
  BY <1>2
<1>4. \A c \in clocks : S!Stage(t, c) < 3 => Point(calendar, t, c, S!Stage(t, c) + 1) \in ahead
  BY <1>2
<1> HIDE DEF ahead
<1>5. ahead # {} => least \in ahead /\ \A q \in ahead : least <= q
  BY <1>3, LeastNat
<1> HIDE DEF least
<1>6. S!NextCheck(t, clocks) \in Instants
  BY <1>1, <1>3, <1>5 DEF Instants
<1>7. \A c \in clocks : S!Stage(t, c) < 3 =>
         /\ S!NextCheck(t, clocks) \in Nat
         /\ S!NextCheck(t, clocks) <= Point(calendar, t, c, S!Stage(t, c) + 1)
  BY <1>1, <1>3, <1>4, <1>5
<1> QED BY <1>6, <1>7

\* The timer: what it stores as breached has run over.
LEMMA CheckStep ==
  ASSUME ClocksKept, S!CheckTicket
  PROVE  ClocksKept'
<1> DEFINE clocks == IF enabled THEN {c \in S!Clocks : S!Active(timed, c)} ELSE {}
           stage  == [c \in S!Clocks |-> IF c \in clocks THEN S!Stage(timed, c) ELSE timed.stage[c]]
           set    == timed.breached \cup {c \in clocks : S!Stage(timed, c) >= S!Breached}
           next   == S!NextCheck(timed, clocks)
           u      == [timed EXCEPT !.stage = stage, !.breached = set, !.next = next]
<1>1. /\ calendar \in Calendars /\ now \in Nat /\ now \in 0 .. MaxTime /\ enabled \in BOOLEAN
      /\ RowKept(calendar, timed, now, enabled) /\ timed \in Row /\ Noted(timed)
  BY SlaAssumption DEF ClocksKept, RowKept
<1>2. S!Becomes(u)
  BY DEF S!CheckTicket
<1>3. clocks \in SUBSET S!Clocks /\ \A c \in clocks : S!Active(timed, c)
  OBVIOUS
<1>4. \A c \in S!Clocks : enabled /\ S!Active(timed, c) => c \in clocks
  OBVIOUS
<1> HIDE DEF clocks
<1>5. \A c \in clocks : /\ S!Stage(timed, c) \in S!Stages /\ timed.stage[c] <= S!Stage(timed, c)
                        /\ S!Stage(timed, c) >= S!Breached /\ timed.stage[c] < 2 => timed.due[c] <= now
  BY <1>1, <1>3, StageTyped
<1>6. stage \in [S!Clocks -> S!Stages]
  BY <1>1, <1>5 DEF Row
<1>7. \A c \in S!Clocks : /\ c \in clocks => stage[c] = S!Stage(timed, c)
                          /\ c \notin clocks => stage[c] = timed.stage[c]
  OBVIOUS
<1>8. \A c \in S!Clocks : timed.stage[c] <= stage[c]
  <2>1. \A c \in S!Clocks : timed.stage[c] <= timed.stage[c]
    <3>1. \A c \in S!Clocks : timed.stage[c] \in 0 .. 3
      BY <1>1 DEF Row, S!Stages
    <3> QED BY <3>1
  <2> HIDE DEF stage
  <2> QED BY <1>5, <1>7, <2>1
<1> HIDE DEF stage
<1>9. set \in SUBSET S!Clocks /\ timed.breached \subseteq set
  BY <1>1, <1>3 DEF Row
<1>10. \A c \in S!Clocks : stage[c] >= 2 => c \in set
  BY <1>1, <1>7 DEF RowKept, Stored, S!Breached
<1>11. "closed_waiting" \notin timed.marks => set \subseteq timed.overran
  <2> SUFFICES ASSUME "closed_waiting" \notin timed.marks, NEW c \in clocks, S!Stage(timed, c) >= S!Breached
               PROVE  c \in timed.overran
    BY <1>1 DEF RowKept, BreachedTruly
  <2>1. c \in S!Clocks /\ S!Active(timed, c)
    BY <1>3
  <2>2. timed.stage[c] \in 0 .. 3
    BY <1>1, <2>1 DEF Row, S!Stages
  <2>3. CASE timed.stage[c] >= 2
    BY <1>1, <2>1, <2>3 DEF RowKept, Stored, BreachedTruly
  <2>4. CASE timed.stage[c] < 2
    <3>1. timed.due[c] <= now /\ timed.due[c] # S!Never /\ timed.minutes[c] # 0
      BY <1>5, <2>1, <2>4 DEF S!Active
    <3>2. timed.minutes[c] <= timed.worked[c]
      <4>1. CASE c = "response"
        BY <1>1, <3>1, <4>1, ResponseDue DEF RowKept
      <4>2. CASE c = "resolution"
        BY <1>1, <2>1, <2>4, <3>1, <4>2, ResolutionDue DEF RowKept, S!Active
      <4> QED BY <2>1, <4>1, <4>2 DEF S!Clocks
    <3>3. timed.minutes[c] \in Nat /\ timed.worked[c] \in Nat
      BY <1>1, <2>1 DEF Row
    <3> QED BY <1>1, <2>1, <3>1, <3>2, <3>3 DEF Noted
  <2> QED BY <2>2, <2>3, <2>4
<1> HIDE DEF set
<1>12. next \in Instants
  BY <1>1, <1>3, NextTyped
<1>13. \A c \in clocks : S!Stage(timed, c) < 3 =>
          next \in Nat /\ next <= Point(calendar, timed, c, S!Stage(timed, c) + 1)
  BY <1>1, <1>3, NextTyped
<1> HIDE DEF next
<1>14. u \in Row
  BY <1>1, <1>6, <1>9, <1>12 DEF Row
<1>15. /\ u.status = timed.status /\ u.answered = timed.answered
       /\ u.started = timed.started /\ u.since = timed.since /\ u.paused = timed.paused
       /\ u.minutes = timed.minutes /\ u.warn = timed.warn /\ u.due = timed.due
       /\ u.stage = stage /\ u.next = next /\ u.breached = set
       /\ u.worked = timed.worked /\ u.overran = timed.overran /\ u.marks = timed.marks
  BY <1>1 DEF Row
<1> HIDE DEF u
<1>16. ResponseSet(calendar, u) /\ Measured(calendar, u, now) /\ Unset(u, enabled)
  BY <1>1, <1>15 DEF RowKept, ResponseSet, Measured, Unset, S!Running
<1>17. ResolutionSet(calendar, u)
  <2>1. stage["resolution"] < 2 => timed.stage["resolution"] < 2
    <3>1. /\ timed.stage["resolution"] \in 0 .. 3 /\ stage["resolution"] \in 0 .. 3
          /\ timed.stage["resolution"] <= stage["resolution"]
      BY <1>1, <1>6, <1>8 DEF Row, S!Stages, S!Clocks
    <3> QED BY <3>1
  <2> QED BY <1>1, <1>15, <2>1 DEF RowKept, ResolutionSet
<1>18. Stored(u)
  BY <1>10, <1>15 DEF Stored
<1>19. BreachedTruly(u)
  BY <1>11, <1>15 DEF BreachedTruly
<1>20. Scheduled(calendar, u, now, enabled)
  <2> SUFFICES ASSUME NEW c \in S!Clocks, enabled, S!Active(u, c), u.stage[c] < 3
               PROVE  u.next # S!Never /\ u.next <= S!Larger(now, Point(calendar, u, c, u.stage[c] + 1))
    BY DEF Scheduled
  <2>1. c \in clocks
    <3>1. S!Active(timed, c)
      BY <1>15 DEF S!Active, S!Running
    <3> QED BY <1>4, <3>1
  <2>2. u.stage[c] = S!Stage(timed, c)
    BY <1>7, <1>15, <2>1
  <2> DEFINE point == Point(calendar, timed, c, S!Stage(timed, c) + 1)
  <2>3. Point(calendar, u, c, u.stage[c] + 1) = point
    BY <1>15, <2>2 DEF Point
  <2>4. next \in Nat /\ next <= point
    BY <1>13, <2>1, <2>2
  <2>5. point \in Nat
    <3>1. S!Stage(timed, c) + 1 \in 1 .. 3
      <4>1. S!Stage(timed, c) \in 0 .. 3
        BY <1>5, <2>1 DEF S!Stages
      <4> QED BY <2>2, <4>1
    <3> QED BY <1>1, <1>3, <2>1, <3>1, PointTyped
  <2> HIDE DEF point
  <2>6. next # S!Never /\ next <= S!Larger(now, point)
    BY <1>1, <2>4, <2>5 DEF S!Never, S!Larger
  <2> QED BY <1>15, <2>3, <2>6
<1>21. RowKept(calendar, u, now, enabled)
  BY <1>14, <1>16, <1>17, <1>18, <1>19, <1>20 DEF RowKept
<1> QED BY <1>2, <1>21, BecomesKept

LEMMA ClocksInit ==
  ASSUME S!Init
  PROVE  ClocksKept
<1>1. /\ calendar \in Calendars /\ now = 0 /\ enabled \in BOOLEAN
      /\ 0 \in Nat /\ 0 \in 0 .. MaxTime
  BY SlaAssumption DEF S!Init
<1> DEFINE FreshRow(class) ==
             [status |-> "open", class |-> class, answered |-> FALSE, started |-> 0, since |-> S!Never,
              paused |-> 0, minutes |-> [c \in S!Clocks |-> 0], warn |-> [c \in S!Clocks |-> S!Never],
              due |-> [c \in S!Clocks |-> S!Never], stage |-> [c \in S!Clocks |-> 0], next |-> S!Never,
              breached |-> {}, worked |-> [c \in S!Clocks |-> 0], overran |-> {}, marks |-> {}]
<1>2. PICK class \in Classes :
         timed = IF enabled /\ Targets[class]["response"] # 0
                 THEN [S!ResolutionTimed(S!ResponseTimed(FreshRow(class)), Targets[class]["resolution"]) EXCEPT
                         !.next = S!Smaller(
                           S!ResolutionTimed(S!ResponseTimed(FreshRow(class)), Targets[class]["resolution"]).warn["response"],
                           S!ResolutionTimed(S!ResponseTimed(FreshRow(class)), Targets[class]["resolution"]).warn["resolution"])]
                 ELSE FreshRow(class)
  BY DEF S!Init
<1> DEFINE row      == FreshRow(class)
           target   == Targets[class]["resolution"]
           response == S!ResponseTimed(row)
           both     == S!ResolutionTimed(response, target)
           u        == [both EXCEPT !.next = S!Smaller(both.warn["response"], both.warn["resolution"])]
<1>3. row \in Row
  <2>1. S!Never \in Instants /\ 0 \in S!Stages
    BY DEF Instants, S!Stages
  <2> QED BY <1>1, <2>1 DEF Row
<1>4. /\ row.class = class /\ row.started = 0 /\ row.since = S!Never /\ row.paused = 0
      /\ row.stage = [c \in S!Clocks |-> 0] /\ row.worked = [c \in S!Clocks |-> 0]
      /\ row.minutes = [c \in S!Clocks |-> 0] /\ row.due = [c \in S!Clocks |-> S!Never]
      /\ row.breached = {} /\ row.next = S!Never
  OBVIOUS
<1>5. timed = IF enabled /\ Targets[class]["response"] # 0 THEN u ELSE row
  BY <1>2
<1> HIDE DEF row, FreshRow
<1>6. Measured(calendar, row, 0)
  <2>1. WorkBefore(calendar, 0) = 0
    BY <1>1, WorkGrows
  <2> QED BY <1>4, <2>1 DEF Measured, S!Clocks
<1>7. Stored(row) /\ BreachedTruly(row)
  BY <1>4 DEF Stored, BreachedTruly
<1>8. CASE enabled /\ Targets[class]["response"] # 0
  <2>1. timed = u /\ enabled = TRUE
    BY <1>1, <1>5, <1>8
  <2>2. target \in Nat /\ target # 0
    <3>1. Targets[class]["resolution"] \in Nat
      BY TargetsTyped DEF S!Clocks
    <3>2. Targets[class]["resolution"] # 0
      BY <1>8, TargetsTyped
    <3> QED BY <3>1, <3>2
  <2>3. /\ response \in Row /\ SameButClock(response, row, "response") /\ ResponseSet(calendar, response)
        /\ response.warn["response"] \in Nat
    BY <1>1, <1>3, <1>4, <1>8, ResponseRow, ResponseIsSet
  <2>4. target # 0 => \E k \in Classes : target = Targets[k]["resolution"]
    OBVIOUS
  <2> HIDE DEF response, target
  <2>5. /\ both \in Row /\ SameButClock(both, response, "resolution") /\ ResolutionSet(calendar, both)
        /\ both.warn["resolution"] \in Nat
    BY <1>1, <2>2, <2>3, <2>4, ResolutionRow, ResolutionIsSet
  <2> HIDE DEF both
  <2>6. ResponseSet(calendar, both) /\ both.warn["response"] \in Nat
    <3>1. both.warn["response"] = response.warn["response"]
      BY <2>5 DEF SameButClock, S!Clocks
    <3> QED BY <2>3, <2>5, <3>1, OtherClockSet
  <2>7. SameButTimes(both, row)
    BY <2>3, <2>5 DEF SameButClock, SameButTimes
  <2> DEFINE next == S!Smaller(both.warn["response"], both.warn["resolution"])
  <2>8. next \in Nat /\ \A c \in S!Clocks : both.warn[c] \in Nat /\ next <= both.warn[c]
    BY <2>5, <2>6 DEF S!Smaller, S!Clocks
  <2> HIDE DEF next
  <2>9. u \in Row
    BY <2>5, <2>8 DEF Row, Instants, next
  <2>10. /\ SameButTimes(u, both) /\ u.next = next
         /\ u.minutes = both.minutes /\ u.warn = both.warn /\ u.due = both.due
    BY <2>5 DEF Row, SameButTimes, next
  <2> HIDE DEF u
  <2>11. SameButTimes(u, row)
    BY <2>7, <2>10 DEF SameButTimes
  <2>12. ResponseSet(calendar, u) /\ ResolutionSet(calendar, u)
    BY <2>5, <2>6, <2>10 DEF ResponseSet, ResolutionSet, SameButTimes
  <2>13. Measured(calendar, u, 0) /\ Stored(u) /\ BreachedTruly(u)
    BY <1>6, <1>7, <2>11, SameKept
  <2>14. Scheduled(calendar, u, 0, TRUE)
    <3> SUFFICES ASSUME NEW c \in S!Clocks, S!Active(u, c)
                 PROVE  u.next # S!Never /\ u.next <= S!Larger(0, Point(calendar, u, c, u.stage[c] + 1))
      BY DEF Scheduled
    <3>1. u.stage[c] = 0
      BY <1>4, <2>11 DEF SameButTimes
    <3>2. Point(calendar, u, c, u.stage[c] + 1) = both.warn[c]
      <4>1. u.stage[c] + 1 = 1
        BY <3>1
      <4> QED BY <1>1, <2>9, <2>10, <4>1, PointTyped
    <3>3. next # S!Never /\ next <= S!Larger(0, both.warn[c])
      BY <2>8 DEF S!Larger, S!Never
    <3> QED BY <2>10, <3>2, <3>3
  <2>15. Unset(u, TRUE)
    BY DEF Unset
  <2>16. Noted(u)
    <3>1. \A c \in S!Clocks : u.worked[c] = 0 /\ u.minutes[c] \in Nat
      BY <1>4, <2>9, <2>11 DEF SameButTimes, Row
    <3>2. \A k \in Nat : ~(k # 0 /\ 0 >= k)
      OBVIOUS
    <3> QED BY <3>1, <3>2 DEF Noted
  <2>17. RowKept(calendar, u, 0, TRUE)
    BY <2>9, <2>12, <2>13, <2>14, <2>15 DEF RowKept
  <2> QED BY <1>1, <2>1, <2>16, <2>17 DEF ClocksKept
<1>9. CASE ~(enabled /\ Targets[class]["response"] # 0)
  <2>1. timed = row
    BY <1>5, <1>9
  <2>2. \A c \in S!Clocks : row.minutes[c] = 0 /\ row.due[c] = S!Never
    BY <1>4
  <2>3. ResponseSet(calendar, row) /\ ResolutionSet(calendar, row) /\ Unset(row, enabled) /\ Noted(row)
    BY <2>2 DEF ResponseSet, ResolutionSet, Unset, Noted, S!Clocks
  <2>4. Scheduled(calendar, row, 0, enabled)
    BY <2>2 DEF Scheduled, S!Active
  <2>5. RowKept(calendar, row, 0, enabled)
    BY <1>3, <1>6, <1>7, <2>3, <2>4 DEF RowKept
  <2> QED BY <1>1, <2>1, <2>3, <2>5 DEF ClocksKept
<1> QED BY <1>8, <1>9

LEMMA ClocksNext ==
  ASSUME ClocksKept, S!Next \/ UNCHANGED sla
  PROVE  ClocksKept'
<1>1. CASE UNCHANGED sla
  <2>1. calendar' = calendar /\ now' = now /\ enabled' = enabled /\ timed' = timed
    BY <1>1 DEF sla
  <2>2. /\ calendar \in Calendars /\ now \in 0 .. MaxTime /\ enabled \in BOOLEAN
        /\ RowKept(calendar, timed, now, enabled) /\ Noted(timed)
    BY DEF ClocksKept
  <2>3. RowKept(calendar', timed', now', enabled') /\ Noted(timed')
    BY <2>1, <2>2
  <2> QED BY <2>1, <2>2, <2>3 DEF ClocksKept
<1>2. CASE S!Next
  BY <1>2, TickStep, StatusStep, ClassifyStep, AnswerStep, WaitStep, ResumeStep, CloseStep, ReopenStep,
     SwitchStep, CheckStep DEF S!Next
<1> QED BY <1>1, <1>2

\* The three properties of a row follow from the invariant.
LEMMA ClocksProperties ==
  ASSUME ClocksKept
  PROVE  S!ClockIsFair /\ S!ChecksAreScheduled /\ S!BreachIsTrue
<1>1. /\ calendar \in Calendars /\ now \in Nat /\ now \in 0 .. MaxTime
      /\ RowKept(calendar, timed, now, enabled) /\ timed \in Row
  BY SlaAssumption DEF ClocksKept, RowKept
<1>2. S!ClockIsFair
  <2> SUFFICES ASSUME S!Active(timed, "resolution"), timed.stage["resolution"] < 2
               PROVE  now >= timed.due["resolution"] <=> timed.worked["resolution"] >= timed.minutes["resolution"]
    BY DEF S!ClockIsFair, S!Breached
  <2>1. timed.due["resolution"] <= now <=> timed.minutes["resolution"] <= timed.worked["resolution"]
    BY <1>1, ResolutionDue DEF RowKept, S!Active
  <2>2. /\ timed.due["resolution"] \in Nat
        /\ timed.minutes["resolution"] \in Nat /\ timed.worked["resolution"] \in Nat
    BY <1>1 DEF Row, Instants, S!Clocks, S!Active
  <2> QED BY <1>1, <2>1, <2>2
<1>3. S!ChecksAreScheduled
  <2> SUFFICES ASSUME NEW c \in S!Clocks, enabled, S!Active(timed, c), timed.stage[c] < 3,
                      "reopened_off" \notin timed.marks
               PROVE  timed.next # S!Never
                      /\ timed.next <= S!Larger(now, S!Checkpoints(timed, c)[timed.stage[c] + 1])
    BY DEF S!ChecksAreScheduled
  <2>1. timed.stage[c] + 1 \in 1 .. 3
    <3>1. timed.stage[c] \in 0 .. 3
      BY <1>1 DEF Row, S!Stages
    <3> QED BY <3>1
  <2>2. S!Checkpoints(timed, c)[timed.stage[c] + 1] = Point(calendar, timed, c, timed.stage[c] + 1)
    BY <1>1, <2>1, StageTyped
  <2> QED BY <1>1, <2>2 DEF RowKept, Scheduled
<1>4. S!BreachIsTrue
  BY <1>1 DEF RowKept, BreachedTruly, S!BreachIsTrue
<1> QED BY <1>2, <1>3, <1>4

ClocksInv == part = "sla" => ClocksKept

LEMMA ClocksAlways == Spec => []ClocksInv
<1>1. Init => ClocksInv
  BY ClocksInit DEF Init, ClocksInv
<1>2. ClocksInv /\ [Next]_vars => ClocksInv'
  <2> SUFFICES ASSUME ClocksInv, [Next]_vars, part' = "sla" PROVE ClocksKept'
    BY DEF ClocksInv
  <2>1. part = "sla" /\ (S!Next \/ UNCHANGED sla)
    BY DEF Next, vars
  <2> QED BY <2>1, ClocksNext DEF ClocksInv
<1> QED BY <1>1, <1>2, PTL DEF Spec

\* However often a ticket waits, is released, gets another urgency, or SLA is switched off and on, the
\* deadline of its solution has come exactly when the clock has run its target in working time.
THEOREM ClockFair == Spec => []ClockIsFair
<1>1. ClocksInv => ClockIsFair
  BY ClocksProperties DEF ClocksInv, ClockIsFair
<1> QED BY <1>1, ClocksAlways, PTL

\* A clock that runs is never forgotten by the timer.
THEOREM ChecksScheduled == Spec => []ChecksAreScheduled
<1>1. ClocksInv => ChecksAreScheduled
  BY ClocksProperties DEF ClocksInv, ChecksAreScheduled
<1> QED BY <1>1, ClocksAlways, PTL

\* A ticket is counted as breached only if the clock did reach its target.
THEOREM BreachTrue == Spec => []BreachIsTrue
<1>1. ClocksInv => BreachIsTrue
  BY ClocksProperties DEF ClocksInv, BreachIsTrue
<1> QED BY <1>1, ClocksAlways, PTL

-----------------------------------------------------------------------------
(* Types.  The parts that have proofs of their own first.                  *)

RoutingTyped == part = "routing" => RP!RoutingInv /\ RP!Members /\ RP!Bounds

LEMMA RoutingTypes ==
  /\ Init => RoutingTyped
  /\ RoutingTyped /\ [Next]_vars => RoutingTyped'
  /\ RoutingTyped /\ part = "routing" => R!TypeOK
<1>0. MaxTurns["routing"] \in Nat
  BY BoundsAssumption
<1>1. Init => RoutingTyped
  BY <1>0, SameRouting, RP!InitInv, RP!BoundsInit DEF Init, RoutingTyped
<1>2. RoutingTyped /\ [Next]_vars => RoutingTyped'
  <2> SUFFICES ASSUME RoutingTyped, [Next]_vars, part' = "routing"
               PROVE  RP!RoutingInv' /\ RP!Members' /\ RP!Bounds'
    BY DEF RoutingTyped
  <2>1. part = "routing"
    BY DEF Next, vars
  <2>2. [RP!Next]_(RP!vars)
    BY <2>1, SameRouting DEF Next, vars, routing, RP!vars
  <2>3. RP!RoutingInv /\ RP!Members /\ RP!Bounds
    BY <2>1 DEF RoutingTyped
  <2>4. RP!RoutingInv' /\ RP!Members'
    BY <2>2, <2>3, RP!StepInv, TeamsAssumption
  <2>5. RP!Bounds'
    BY <1>0, <2>2, <2>3, RP!BoundsStep
  <2> QED BY <2>4, <2>5
<1>3. RoutingTyped /\ part = "routing" => RP!TypeOK
  BY RP!Typed DEF RoutingTyped
<1>4. RP!TypeOK => R!TypeOK
  BY DEF RP!TypeOK, R!TypeOK, RP!Ticket, R!Ticket, RP!Blocking, R!Blocking, RP!NoOne, R!NoOne, RP!NoTeam, R!NoTeam
<1> QED BY <1>1, <1>2, <1>3, <1>4

IncidentsTyped == part = "incidents" => IP!IncidentsInv /\ IP!Bounds

LEMMA IncidentsTypes ==
  /\ Init => IncidentsTyped
  /\ IncidentsTyped /\ [Next]_vars => IncidentsTyped'
  /\ IncidentsTyped /\ part = "incidents" => I!TypeOK
<1>0. IP!Sized
  BY SameIncidents, IncidentsAssumption, BoundsAssumption DEF IP!Sized
<1>1. Init => IncidentsTyped
  BY <1>0, SameIncidents, IP!InitInv, IP!BoundsInit DEF Init, IncidentsTyped
<1>2. IncidentsTyped /\ [Next]_vars => IncidentsTyped'
  <2> SUFFICES ASSUME IncidentsTyped, [Next]_vars, part' = "incidents"
               PROVE  IP!IncidentsInv' /\ IP!Bounds'
    BY DEF IncidentsTyped
  <2>1. part = "incidents"
    BY DEF Next, vars
  <2>2. [IP!Next]_(IP!vars)
    BY <2>1, SameIncidents DEF Next, vars, incidents, IP!vars
  <2>3. IP!IncidentsInv /\ IP!Bounds
    BY <2>1 DEF IncidentsTyped
  <2>4. IP!IncidentsInv'
    BY <2>2, <2>3, SameIncidents, IP!StepInv
  <2>5. IP!Bounds'
    BY <1>0, <2>2, <2>3, IP!BoundsStep
  <2> QED BY <2>4, <2>5
<1>3. IncidentsTyped /\ part = "incidents" => IP!TypeOK
  BY <1>0, IP!Typed DEF IncidentsTyped
<1>4. IP!TypeOK => I!TypeOK
  BY DEF IP!TypeOK, I!TypeOK, IP!Ticket, I!Ticket, IP!Incident, I!Incident, IP!Update, I!Update,
         IP!Run, I!Run, IP!Keys, I!Keys, IP!NoIncident, I!NoIncident
<1> QED BY <1>1, <1>2, <1>3, <1>4

WorkflowsTyped == part = "workflows" => WP!WorkflowsInv /\ WP!Bounds

LEMMA WorkflowsTypes ==
  /\ Init => WorkflowsTyped
  /\ WorkflowsTyped /\ [Next]_vars => WorkflowsTyped'
  /\ WorkflowsTyped /\ part = "workflows" => W!TypeOK
<1>0. WP!Limits
  BY BoundsAssumption DEF WP!Limits
<1>1. Init => WorkflowsTyped
  BY <1>0, SameWorkflows, WP!InitInv, WP!BoundsInit DEF Init, WorkflowsTyped
<1>2. WorkflowsTyped /\ [Next]_vars => WorkflowsTyped'
  <2> SUFFICES ASSUME WorkflowsTyped, [Next]_vars, part' = "workflows"
               PROVE  WP!WorkflowsInv' /\ WP!Bounds'
    BY DEF WorkflowsTyped
  <2>1. part = "workflows"
    BY DEF Next, vars
  <2>2. [WP!Next]_(WP!vars)
    BY <2>1, SameWorkflows DEF Next, vars, workflows, WP!vars
  <2>3. WP!WorkflowsInv /\ WP!Bounds
    BY <2>1 DEF WorkflowsTyped
  <2>4. WP!WorkflowsInv'
    BY <2>2, <2>3, SameWorkflows, WP!StepInv
  <2>5. WP!Bounds'
    BY <1>0, <2>2, <2>3, SameWorkflows, WP!BoundsStep
  <2> QED BY <2>4, <2>5
<1>3. WorkflowsTyped /\ part = "workflows" => WP!TypeOK
  BY <1>0, WP!Typed DEF WorkflowsTyped
<1>4. WP!TypeOK => W!TypeOK
  BY DEF WP!TypeOK, W!TypeOK, WP!Revisions, W!Revisions, WP!Ticket, W!Ticket, WP!Closure, W!Closure,
         WP!Record, W!Record, WP!Kinds, W!Kinds, WP!Job, W!Job, WP!Run, W!Run, WP!Phases, W!Phases,
         WP!Steps, W!Steps, WP!Replies, W!Replies, WP!TriageSteps, W!TriageSteps,
         WP!LearningSteps, W!LearningSteps, WP!Extracts, W!Extracts
<1> QED BY <1>1, <1>2, <1>3, <1>4

(* Files.                                                                  *)

FilesTyped == part = "files" => FilesKept /\ object \in BOOLEAN /\ fileTurns \in 0 .. MaxTurns["files"]

LEMMA FilesTypes ==
  /\ Init => FilesTyped
  /\ FilesTyped /\ [Next]_vars => FilesTyped'
  /\ FilesTyped /\ part = "files" => F!TypeOK
<1>0. MaxTurns["files"] \in Nat
  BY BoundsAssumption
<1>1. Init => FilesTyped
  <2> SUFFICES ASSUME F!Init
               PROVE  FilesKept /\ object \in BOOLEAN /\ fileTurns \in 0 .. MaxTurns["files"]
    BY DEF Init, FilesTyped
  <2>1. object = FALSE /\ fileTurns = 0
    BY DEF F!Init
  <2>2. FilesKept
    BY FilesBegin
  <2>3. object \in BOOLEAN
    BY <2>1
  <2>4. fileTurns \in 0 .. MaxTurns["files"]
    BY <1>0, <2>1
  <2> QED BY <2>2, <2>3, <2>4
<1>2. FilesTyped /\ [Next]_vars => FilesTyped'
  <2> SUFFICES ASSUME FilesTyped, [Next]_vars, part' = "files"
               PROVE  FilesKept' /\ object' \in BOOLEAN /\ fileTurns' \in 0 .. MaxTurns["files"]
    BY DEF FilesTyped
  <2>1. part = "files"
    BY DEF Next, vars
  <2>2. [F!Next]_(F!vars)
    BY <2>1 DEF Next, vars, files, F!vars
  <2>3. FilesKept /\ object \in BOOLEAN /\ fileTurns \in 0 .. MaxTurns["files"]
    BY <2>1 DEF FilesTyped
  <2>4. object' \in BOOLEAN
    BY <2>2, <2>3 DEF F!vars, F!Next, F!People, F!ClientSends, F!PrepareUpload, F!CancelDraftUpload, F!Reply,
         F!Withdraw, F!Purge, F!Jobs, F!RecoverJob, F!RetryFailedJob, F!EndRun, F!FailRun, F!Crash, F!Claim,
         F!Transfer, F!BeginDownload, F!CheckDownload, F!ReceiveUpload, F!FailUpload, F!StoreObject, F!StoreRow,
         F!ScanOrPurge, F!BeginScan, F!FinishScan, F!BeginPurge, F!DeleteObject, F!ForgetKey
  <2>5. F!TakeTurn \/ UNCHANGED fileTurns
    BY <2>2 DEF F!vars, F!Next, F!People, F!ClientSends, F!PrepareUpload, F!CancelDraftUpload, F!Reply,
         F!Withdraw, F!Purge, F!Jobs, F!RecoverJob, F!RetryFailedJob, F!EndRun, F!FailRun, F!Crash, F!Claim,
         F!Transfer, F!BeginDownload, F!CheckDownload, F!ReceiveUpload, F!FailUpload, F!StoreObject, F!StoreRow,
         F!ScanOrPurge, F!BeginScan, F!FinishScan, F!BeginPurge, F!DeleteObject, F!ForgetKey
  <2>6. fileTurns' \in 0 .. MaxTurns["files"]
    BY <1>0, <2>3, <2>5 DEF F!TakeTurn
  <2> QED BY <2>2, <2>3, <2>4, <2>6, FilesStep
<1>3. FilesTyped /\ part = "files" => F!TypeOK
  BY DEF FilesTyped, FilesKept, FileShape, F!TypeOK
<1> QED BY <1>1, <1>2, <1>3

(* The clocks.  Of a ticket that goes on, ClocksKept bounds what has run;  *)
(* of one that is closed, it has not changed since.                        *)

\* What a clock has run, and the pauses, are no longer than the time that has passed.
Lasted(t, x) == t.paused <= x /\ t.worked["resolution"] <= x

HasClocks(t) == {"worked", "paused", "status"} \subseteq DOMAIN t

\* Setting a clock is not running it.
SameRun(u, t) == HasClocks(u) /\ u.worked = t.worked /\ u.paused = t.paused /\ u.status = t.status

LEMMA SetIsSameRun ==
  ASSUME NEW t, HasClocks(t)
  PROVE  /\ \A c, start, minutes, target : SameRun(S!Timed(t, c, start, minutes, target), t)
         /\ \A c : SameRun(S!Untimed(t, c), t)
         /\ SameRun(S!Counted(t), t)
<1>1. \A c, start, minutes, target : SameRun(S!Timed(t, c, start, minutes, target), t)
  BY DEF HasClocks, SameRun, S!Timed
<1>2. \A c : SameRun(S!Untimed(t, c), t)
  BY DEF HasClocks, SameRun, S!Untimed
<1>3. SameRun(S!Counted(t), t)
  BY DEF HasClocks, SameRun, S!Counted
<1> QED BY <1>1, <1>2, <1>3

LEMMA TimedIsSameRun ==
  ASSUME NEW t, HasClocks(t)
  PROVE  /\ SameRun(S!ResponseTimed(t), t)
         /\ \A target : SameRun(S!ResolutionTimed(t, target), t)
<1>1. SameRun(S!ResponseTimed(t), t)
  BY SetIsSameRun DEF S!ResponseTimed
<1>2. \A target : SameRun(S!ResolutionTimed(t, target), t)
  BY SetIsSameRun DEF S!ResolutionTimed
<1> QED BY <1>1, <1>2

LEMMA ReclassifiedIsSameRun ==
  ASSUME NEW t, HasClocks(t), NEW on
  PROVE  SameRun(S!Reclassified(t, on), t)
<1> DEFINE response   == IF ~t.answered /\ t.stage["response"] < S!Breached THEN S!ResponseTimed(t) ELSE t
           resolution == IF t.stage["resolution"] < S!Breached
                         THEN S!ResolutionTimed(response, Targets[t.class]["resolution"]) ELSE response
           u          == [resolution EXCEPT !.next = now]
<1>1. SameRun(response, t)
  BY TimedIsSameRun DEF SameRun
<1>2. S!Reclassified(t, on) = IF on /\ S!Running(t) THEN u ELSE t
  BY DEF S!Reclassified
<1> HIDE DEF response
<1>3. SameRun(resolution, response)
  <2>1. HasClocks(response)
    BY <1>1 DEF SameRun
  <2> QED BY <2>1, TimedIsSameRun DEF SameRun
<1> HIDE DEF resolution
<1>4. SameRun(u, resolution)
  BY <1>3 DEF SameRun, HasClocks
<1> HIDE DEF u
<1>5. SameRun(u, t)
  BY <1>1, <1>3, <1>4 DEF SameRun
<1>6. SameRun(t, t)
  BY DEF SameRun
<1> QED BY <1>2, <1>5, <1>6

\* The invariant says how long the clock of a ticket that goes on has run.
LEMMA RunningLasts ==
  ASSUME NEW cal, NEW t \in Row, NEW x \in Nat, Measured(cal, t, x), S!Running(t)
  PROVE  Lasted(t, x)
<1> DEFINE end  == IF t.since = S!Never THEN x ELSE t.since
           ran  == t.worked["resolution"]
           before == WorkBefore(cal, t.started)
           work == WorkBefore(cal, end)
<1>1. ran \in Nat /\ t.paused \in Nat /\ t.started \in Nat /\ end \in Nat /\ end <= x
  BY DEF Row, Instants, S!Clocks, Measured
<1>2. ran + t.paused + before = work
  BY DEF Measured
<1> HIDE DEF end, ran
<1>3. before \in Nat /\ work \in Nat /\ work <= end
  BY <1>1, WorkGrows
<1> HIDE DEF before, work
<1>4. t.paused <= x /\ ran <= x
  BY <1>1, <1>2, <1>3
<1> QED BY <1>4 DEF Lasted, ran

\* The steps that leave the clock what it has run.
LEMMA SameRunStep ==
  ASSUME HasClocks(timed),
         \/ S!Assign \/ S!Release \/ S!Classify \/ S!MarkFirstResponse \/ S!Wait \/ S!Close \/ S!AutoClose
         \/ S!CloseForIncident \/ S!FinishRating \/ S!Switch \/ S!CheckTicket
  PROVE  timed'.worked = timed.worked /\ timed'.paused = timed.paused /\ now' = now
<1>1. ASSUME NEW u, S!Becomes(u), HasClocks(u), u.worked = timed.worked, u.paused = timed.paused
      PROVE  timed'.worked = timed.worked /\ timed'.paused = timed.paused /\ now' = now
  BY <1>1, SetIsSameRun DEF S!Becomes, SameRun
<1>2. CASE S!Assign \/ S!Release
  <2>1. PICK status : S!Becomes([timed EXCEPT !.status = status])
    BY <1>2 DEF S!Assign, S!Release
  <2> DEFINE u == [timed EXCEPT !.status = status]
  <2>2. HasClocks(u) /\ u.worked = timed.worked /\ u.paused = timed.paused /\ S!Becomes(u)
    BY <2>1 DEF HasClocks
  <2> HIDE DEF u
  <2> QED BY <1>1, <2>2
<1>3. CASE S!Classify
  <2>1. PICK class : S!Becomes(S!Reclassified([timed EXCEPT !.class = class], enabled))
    BY <1>3 DEF S!Classify
  <2> DEFINE t == [timed EXCEPT !.class = class]
  <2>2. HasClocks(t) /\ t.worked = timed.worked /\ t.paused = timed.paused
    BY DEF HasClocks
  <2>3. S!Becomes(S!Reclassified(t, enabled))
    BY <2>1
  <2> HIDE DEF t
  <2> QED BY <1>1, <2>2, <2>3, ReclassifiedIsSameRun DEF SameRun
<1>4. CASE S!MarkFirstResponse
  <2>1. PICK set : S!Becomes([timed EXCEPT !.answered = TRUE, !.next = now, !.breached = set])
    BY <1>4 DEF S!MarkFirstResponse
  <2> DEFINE u == [timed EXCEPT !.answered = TRUE, !.next = now, !.breached = set]
  <2>2. HasClocks(u) /\ u.worked = timed.worked /\ u.paused = timed.paused /\ S!Becomes(u)
    BY <2>1 DEF HasClocks
  <2> HIDE DEF u
  <2> QED BY <1>1, <2>2
<1>5. CASE S!Wait
  <2> DEFINE u == S!Paused(timed)
  <2>1. HasClocks(u) /\ u.worked = timed.worked /\ u.paused = timed.paused /\ S!Becomes(u)
    BY <1>5 DEF HasClocks, S!Wait, S!Paused
  <2> HIDE DEF u
  <2> QED BY <1>1, <2>1
<1>6. ASSUME NEW t, HasClocks(t)
      PROVE  SameRun(S!Stopped(t), t)
  BY <1>6 DEF HasClocks, SameRun, S!Stopped
<1>7. CASE S!Close \/ S!CloseForIncident
  <2>1. PICK status, since, marks :
          S!Becomes(S!Stopped([timed EXCEPT !.status = status, !.since = since, !.marks = marks]))
       \/ S!Becomes(S!Stopped([timed EXCEPT !.status = status]))
    BY <1>7 DEF S!Close, S!CloseForIncident
  <2> DEFINE a == [timed EXCEPT !.status = status, !.since = since, !.marks = marks]
             b == [timed EXCEPT !.status = status]
  <2>2. HasClocks(a) /\ a.worked = timed.worked /\ a.paused = timed.paused
    BY DEF HasClocks
  <2>3. HasClocks(b) /\ b.worked = timed.worked /\ b.paused = timed.paused
    BY DEF HasClocks
  <2>4. S!Becomes(S!Stopped(a)) \/ S!Becomes(S!Stopped(b))
    BY <2>1
  <2> HIDE DEF a, b
  <2> QED BY <1>1, <1>6, <2>2, <2>3, <2>4 DEF SameRun
<1>8. CASE S!AutoClose
  <2> DEFINE t == S!Stopped(timed)
             u == [t EXCEPT !.status = "closed"]
  <2>1. S!Becomes(u)
    BY <1>8 DEF S!AutoClose
  <2>2. SameRun(t, timed)
    BY <1>6
  <2> HIDE DEF t
  <2>3. HasClocks(u) /\ u.worked = timed.worked /\ u.paused = timed.paused
    BY <2>2 DEF SameRun, HasClocks
  <2> HIDE DEF u
  <2> QED BY <1>1, <2>1, <2>3
<1>9. CASE S!FinishRating
  <2> DEFINE u == [timed EXCEPT !.status = "closed"]
  <2>1. HasClocks(u) /\ u.worked = timed.worked /\ u.paused = timed.paused /\ S!Becomes(u)
    BY <1>9 DEF HasClocks, S!FinishRating
  <2> HIDE DEF u
  <2> QED BY <1>1, <2>1
<1>10. CASE S!Switch
  <2> DEFINE half == S!Untimed(timed, "response")
             bare == S!Untimed(half, "resolution")
             off  == [bare EXCEPT !.next = S!Never]
             set  == S!Reclassified(timed, TRUE)
  <2>1. now' = now /\ (timed' = off \/ timed' = S!Counted(set) \/ timed' = timed)
    BY <1>10 DEF S!Switch
  <2>2. SameRun(half, timed)
    BY SetIsSameRun
  <2> HIDE DEF half
  <2>3. SameRun(bare, half)
    BY <2>2, SetIsSameRun DEF SameRun
  <2> HIDE DEF bare
  <2>4. off.worked = bare.worked /\ off.paused = bare.paused
    BY <2>3 DEF SameRun, HasClocks
  <2> HIDE DEF off
  <2>5. SameRun(set, timed)
    BY ReclassifiedIsSameRun
  <2> HIDE DEF set
  <2>6. SameRun(S!Counted(set), set)
    BY <2>5, SetIsSameRun DEF SameRun
  <2> QED BY <2>1, <2>2, <2>3, <2>4, <2>5, <2>6 DEF SameRun
<1>11. CASE S!CheckTicket
  <2>1. PICK stage, breached, next :
          S!Becomes([timed EXCEPT !.stage = stage, !.breached = breached, !.next = next])
    BY <1>11 DEF S!CheckTicket
  <2> DEFINE u == [timed EXCEPT !.stage = stage, !.breached = breached, !.next = next]
  <2>2. HasClocks(u) /\ u.worked = timed.worked /\ u.paused = timed.paused /\ S!Becomes(u)
    BY <2>1 DEF HasClocks
  <2> HIDE DEF u
  <2> QED BY <1>1, <2>2
<1> QED BY <1>2, <1>3, <1>4, <1>5, <1>7, <1>8, <1>9, <1>10, <1>11

LEMMA ResumedGoesOn ==
  ASSUME HasClocks(timed), S!Resume
  PROVE  timed'.status = timed.status /\ now' = now /\ S!Running(timed)
<1> DEFINE sum == timed.paused + S!BusinessMinutesBetween(calendar, timed.since, now)
           row == [timed EXCEPT !.since = S!Never, !.next = now, !.paused = sum]
           u   == S!Resumed(timed)
<1>1. u = row \/ u = S!ResolutionTimed(row, timed.minutes["resolution"])
  BY DEF S!Resumed
<1>2. timed' = S!Counted(u) /\ now' = now /\ S!Running(timed)
  BY DEF S!Resume, S!Becomes
<1> HIDE DEF sum, u
<1>3. HasClocks(row) /\ row.status = timed.status
  BY DEF HasClocks
<1> HIDE DEF row
<1>4. HasClocks(u) /\ u.status = timed.status
  BY <1>1, <1>3, TimedIsSameRun DEF SameRun
<1>5. timed'.status = u.status
  BY <1>2, <1>4, SetIsSameRun DEF SameRun
<1> QED BY <1>2, <1>4, <1>5

LEMMA ReopenedGoesOn ==
  ASSUME HasClocks(timed), S!Reopen
  PROVE  timed'.status = "in_progress" /\ now' = now
<1> DEFINE q == S!Restarted(timed)
<1>1. PICK marks : S!Becomes([q EXCEPT !.status = "in_progress", !.marks = marks])
  BY DEF S!Reopen
<1> DEFINE row == [timed EXCEPT !.started = now, !.paused = 0, !.stage["resolution"] = 0, !.since = S!Never,
                                !.warn["resolution"] = S!Never, !.due["resolution"] = S!Never, !.next = now,
                                !.worked["resolution"] = 0]
           u   == [q EXCEPT !.status = "in_progress", !.marks = marks]
<1>2. q = row \/ \E target : q = S!ResolutionTimed(row, target)
  BY DEF S!Restarted
<1>3. HasClocks(row)
  BY DEF HasClocks
<1> HIDE DEF row, q
<1>4. HasClocks(q)
  BY <1>2, <1>3, TimedIsSameRun DEF SameRun
<1>5. HasClocks(u) /\ u.status = "in_progress"
  BY <1>4 DEF HasClocks
<1>6. timed' = S!Counted(u) /\ now' = now
  BY <1>1 DEF S!Becomes
<1> HIDE DEF u
<1> QED BY <1>5, <1>6, SetIsSameRun DEF SameRun

LEMMA TickLasts ==
  ASSUME HasClocks(timed), timed.paused \in Nat, timed.worked["resolution"] \in Nat, now \in Nat,
         Lasted(timed, now), S!Tick
  PROVE  Lasted(timed', now')
<1> DEFINE ticks == {c \in S!Clocks : S!IsWorkingTime(calendar, now) /\ (c = "resolution" => timed.since = S!Never)}
           ran   == [c \in S!Clocks |-> IF c \in ticks THEN timed.worked[c] + 1 ELSE timed.worked[c]]
           u     == [timed EXCEPT !.worked = ran]
<1>1. now' = now + 1 /\ timed' = S!Counted(u)
  BY DEF S!Tick
<1> HIDE DEF ticks
<1>2. ran["resolution"] <= timed.worked["resolution"] + 1 /\ ran["resolution"] \in Nat
  BY DEF S!Clocks
<1> HIDE DEF ran
<1>3. HasClocks(u) /\ u.paused = timed.paused /\ u.worked = ran
  BY DEF HasClocks
<1> HIDE DEF u
<1>4. timed'.paused = timed.paused /\ timed'.worked = ran
  BY <1>1, <1>3, SetIsSameRun DEF SameRun
<1>5. timed.paused <= now + 1 /\ ran["resolution"] <= now + 1
  BY <1>2 DEF Lasted
<1> QED BY <1>1, <1>4, <1>5 DEF Lasted

LEMMA LastedNext ==
  ASSUME ClocksKept, ClocksKept', Lasted(timed, now), S!Next \/ UNCHANGED sla
  PROVE  Lasted(timed', now')
<1>1. /\ HasClocks(timed) /\ timed \in Row /\ now \in Nat
      /\ timed.paused \in Nat /\ timed.worked["resolution"] \in Nat
  BY SlaAssumption DEF ClocksKept, RowKept, Row, HasClocks, S!Clocks
<1>2. ASSUME S!Running(timed)'
      PROVE  Lasted(timed', now')
  <2>1. timed' \in Row /\ now' \in Nat /\ Measured(calendar', timed', now')
    BY SlaAssumption DEF ClocksKept, RowKept
  <2>2. S!Running(timed')
    BY <1>2 DEF S!Running
  <2> QED BY <2>1, <2>2, RunningLasts
<1>3. CASE UNCHANGED sla
  BY <1>3 DEF sla
<1>4. CASE S!Tick
  BY <1>1, <1>4, TickLasts
<1>5. CASE S!Resume
  BY <1>1, <1>2, <1>5, ResumedGoesOn DEF S!Running
<1>6. CASE S!Reopen
  BY <1>1, <1>2, <1>6, ReopenedGoesOn DEF S!Running
<1>7. CASE \/ S!Assign \/ S!Release \/ S!Classify \/ S!MarkFirstResponse \/ S!Wait \/ S!Close \/ S!AutoClose
           \/ S!CloseForIncident \/ S!FinishRating \/ S!Switch \/ S!CheckTicket
  BY <1>1, <1>7, SameRunStep DEF Lasted
<1> QED BY <1>3, <1>4, <1>5, <1>6, <1>7 DEF S!Next

LEMMA SlaTurns ==
  ASSUME S!Next \/ UNCHANGED sla, slaTurns \in 0 .. MaxTurns["sla"], MaxTurns["sla"] \in Nat
  PROVE  slaTurns' \in 0 .. MaxTurns["sla"]
<1>1. S!TakeTurn \/ UNCHANGED slaTurns
  BY DEF S!Next, S!Tick, S!Assign, S!Release, S!Classify, S!MarkFirstResponse, S!Wait, S!Resume, S!Close,
         S!AutoClose, S!CloseForIncident, S!FinishRating, S!Reopen, S!Switch, S!CheckTicket, sla
<1> QED BY <1>1 DEF S!TakeTurn

SlaTyped == part = "sla" => ClocksKept /\ Lasted(timed, now) /\ slaTurns \in 0 .. MaxTurns["sla"]

LEMMA SlaTypes ==
  /\ Init => SlaTyped
  /\ SlaTyped /\ [Next]_vars => SlaTyped'
  /\ SlaTyped /\ part = "sla" => S!TypeOK
<1>0. MaxTurns["sla"] \in Nat
  BY BoundsAssumption
<1>1. Init => SlaTyped
  <2> SUFFICES ASSUME S!Init
               PROVE  ClocksKept /\ Lasted(timed, now) /\ slaTurns \in 0 .. MaxTurns["sla"]
    BY DEF Init, SlaTyped
  <2>1. ClocksKept
    BY ClocksInit
  <2>2. slaTurns = 0 /\ timed.status = "open" /\ now = 0
    <3> DEFINE Row0(class) ==
                 [status |-> "open", class |-> class, answered |-> FALSE, started |-> 0, since |-> S!Never,
                  paused |-> 0, minutes |-> [c \in S!Clocks |-> 0], warn |-> [c \in S!Clocks |-> S!Never],
                  due |-> [c \in S!Clocks |-> S!Never], stage |-> [c \in S!Clocks |-> 0], next |-> S!Never,
                  breached |-> {}, worked |-> [c \in S!Clocks |-> 0], overran |-> {}, marks |-> {}]
    <3>1. PICK class \in Classes :
             \/ timed = Row0(class)
             \/ \E next : timed = [S!ResolutionTimed(S!ResponseTimed(Row0(class)), Targets[class]["resolution"])
                                      EXCEPT !.next = next]
      BY DEF S!Init
    <3>2. HasClocks(Row0(class)) /\ Row0(class).status = "open"
      BY DEF HasClocks
    <3> DEFINE half == S!ResponseTimed(Row0(class))
               both == S!ResolutionTimed(half, Targets[class]["resolution"])
    <3> HIDE DEF Row0
    <3>3. HasClocks(half) /\ half.status = "open"
      BY <3>2, TimedIsSameRun DEF SameRun
    <3>4. timed = Row0(class) \/ \E next : timed = [both EXCEPT !.next = next]
      BY <3>1
    <3> HIDE DEF half
    <3>5. HasClocks(both) /\ both.status = "open"
      BY <3>3, TimedIsSameRun DEF SameRun
    <3> HIDE DEF both
    <3>6. timed.status = "open"
      BY <3>2, <3>4, <3>5 DEF HasClocks
    <3>7. slaTurns = 0 /\ now = 0
      BY DEF S!Init
    <3> QED BY <3>6, <3>7
  <2>3. Lasted(timed, now)
    BY <2>1, <2>2, RunningLasts DEF ClocksKept, RowKept, S!Running
  <2> QED BY <1>0, <2>1, <2>2, <2>3
<1>2. SlaTyped /\ [Next]_vars => SlaTyped'
  <2> SUFFICES ASSUME SlaTyped, [Next]_vars, part' = "sla"
               PROVE  ClocksKept' /\ Lasted(timed', now') /\ slaTurns' \in 0 .. MaxTurns["sla"]
    BY DEF SlaTyped
  <2>1. part = "sla" /\ (S!Next \/ UNCHANGED sla)
    BY DEF Next, vars
  <2>2. ClocksKept /\ Lasted(timed, now) /\ slaTurns \in 0 .. MaxTurns["sla"]
    BY <2>1 DEF SlaTyped
  <2>3. ClocksKept'
    BY <2>1, <2>2, ClocksNext
  <2>4. Lasted(timed', now')
    BY <2>1, <2>2, <2>3, LastedNext
  <2>5. slaTurns' \in 0 .. MaxTurns["sla"]
    BY <1>0, <2>1, <2>2, SlaTurns
  <2> QED BY <2>3, <2>4, <2>5
<1>3. SlaTyped /\ part = "sla" => S!TypeOK
  <2> SUFFICES ASSUME ClocksKept, Lasted(timed, now), slaTurns \in 0 .. MaxTurns["sla"]
               PROVE  S!TypeOK
    BY DEF SlaTyped
  <2>1. timed \in Row /\ now \in 0 .. MaxTime /\ MaxTime \in Nat /\ Measured(calendar, timed, now)
    BY SlaAssumption DEF ClocksKept, RowKept
  <2>2. timed.paused \in 0 .. MaxTime
    BY <2>1 DEF Row, Lasted
  <2>3. timed.worked \in [S!Clocks -> 0 .. MaxTime]
    <3>1. timed.worked["resolution"] \in 0 .. MaxTime
      BY <2>1 DEF Row, Lasted, S!Clocks
    <3>2. timed.worked["response"] \in 0 .. MaxTime
      <4>1. timed.worked["response"] = WorkBefore(calendar, now) /\ now \in Nat /\ now <= MaxTime
        BY <2>1 DEF Measured
      <4>2. WorkBefore(calendar, now) \in Nat /\ WorkBefore(calendar, now) <= now
        BY <4>1, WorkGrows
      <4> QED BY <2>1, <4>1, <4>2
    <3>3. timed.worked \in [S!Clocks -> Nat]
      BY <2>1 DEF Row
    <3> QED BY <3>1, <3>2, <3>3 DEF S!Clocks
  <2>4. timed \in S!Ticket
    BY <2>1, <2>2, <2>3 DEF Row, Instants, S!Ticket, S!Times
  <2> QED BY <2>4 DEF S!TypeOK, ClocksKept
<1> QED BY <1>1, <1>2, <1>3

\* The state of every part always has its type, with the bounds: of the clocks, that no more working time
\* and no longer pauses are counted than time has passed; of the jobs of the workflows, that none is
\* claimed or tried more often than the bounds of the code let.
THEOREM DeskTyped == Spec => []TypeOK
<1> DEFINE Typed == SlaTyped /\ RoutingTyped /\ IncidentsTyped /\ WorkflowsTyped /\ FilesTyped
<1>1. Init => Typed
  BY SlaTypes, RoutingTypes, IncidentsTypes, WorkflowsTypes, FilesTypes
<1>2. Typed /\ [Next]_vars => Typed'
  BY SlaTypes, RoutingTypes, IncidentsTypes, WorkflowsTypes, FilesTypes
<1>3. Typed => TypeOK
  BY SlaTypes, RoutingTypes, IncidentsTypes, WorkflowsTypes, FilesTypes DEF TypeOK
<1> HIDE DEF Typed
<1> QED BY <1>1, <1>2, <1>3, PTL DEF Spec
=============================================================================
