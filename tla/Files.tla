------------------------------- MODULE Files -------------------------------
(***************************************************************************)
(* One file of a ticket, sent by the client or put in by the staff: its    *)
(* row in attachments, the object in the storage, and its jobs 'file'      *)
(* (download), 'scan' and 'attachment_purge'.                              *)
(*                                                                         *)
(* Downloads, uploads, scans and removals take long and hold no lock, so   *)
(* each is a few steps of a process that may die, or be taken for dead and *)
(* overtaken by another run of its job.  What happens to the row meanwhile *)
(* is one transaction each.                                                *)
(***************************************************************************)
EXTENDS Naturals

CONSTANTS
    Processes,
    MaxTurns        \* bound: steps of the kinds that TakeTurn lets happen

Kinds == {"file", "scan", "attachment_purge"}
Nobody == "nobody"

VARIABLES
    ticket,     \* consent: ticketHasValidConsent; purged: purged_at is set
    file,       \* row of attachments
    object,     \* the storage has an object under the key of the file
    job,        \* Kinds -> row of jobs
    run,        \* Processes -> what the process does
    turns

vars == <<ticket, file, object, job, run, turns>>

Statuses == {"none", "uploading", "receiving", "pending", "quarantined", "clean", "rejected",
             "infected", "canceled", "failed", "unavailable"}

\* sent: message_id is set.  key: object_key is set.
File == [status : Statuses, sent : BOOLEAN, key : BOOLEAN]

\* by: the process whose generation is the current one.
Job == [state : {"none", "pending", "running", "failed", "done"}, by : Processes \cup {Nobody}]

Run == [kind  : Kinds \cup {"upload"},
        phase : {"idle", "begin", "checking", "transfer", "stored", "scanning", "deleting", "forgetting", "over"}]

Idle == [kind |-> "upload", phase |-> "idle"]

TypeOK ==
    /\ ticket \in [consent : BOOLEAN, purged : BOOLEAN]
    /\ file \in File /\ object \in BOOLEAN
    /\ job \in [Kinds -> Job] /\ run \in [Processes -> Run]
    /\ turns \in 0 .. MaxTurns

Init ==
    /\ ticket = [consent |-> TRUE, purged |-> FALSE]
    /\ file = [status |-> "none", sent |-> FALSE, key |-> FALSE]
    /\ object = FALSE
    /\ job = [k \in Kinds |-> [state |-> "none", by |-> Nobody]]
    /\ run = [p \in Processes |-> Idle]
    /\ turns = 0

TakeTurn == turns < MaxTurns /\ turns' = turns + 1

SetStatus(status) == file' = [file EXCEPT !.status = status]

Goes(p, phase) == run' = [run EXCEPT ![p].phase = phase]

\* A job has a logical key: it is enqueued once.
Enqueue(k) == job' = IF job[k].state = "none" THEN [job EXCEPT ![k].state = "pending"] ELSE job

At(p, kinds, phase) == run[p].kind \in kinds /\ run[p].phase = phase

-----------------------------------------------------------------------------
(* The client and the staff.                                               *)

\* storeAttachments, with the message of the client.
ClientSends ==
    /\ file.status = "none" /\ ticket.consent /\ ~ticket.purged
    /\ file' = [file EXCEPT !.status = "pending", !.sent = TRUE]
    /\ Enqueue("file")
    /\ UNCHANGED <<ticket, object, run, turns>>

PrepareUpload ==
    /\ file.status = "none" /\ ticket.consent /\ ~ticket.purged
    /\ SetStatus("uploading")
    /\ UNCHANGED <<ticket, object, job, run, turns>>

\* A request of the browser.  The ticket is not looked at again.
ReceiveUpload(p) ==
    /\ run[p].phase = "idle"
    /\ file.status = "uploading"
    /\ SetStatus("receiving")
    /\ run' = [run EXCEPT ![p] = [kind |-> "upload", phase |-> "transfer"]]
    /\ UNCHANGED <<ticket, object, job, turns>>

CancelDraftUpload ==
    /\ ~file.sent /\ file.status \notin {"none", "receiving", "canceled"}
    /\ SetStatus("canceled")
    /\ UNCHANGED <<ticket, object, job, run, turns>>

\* lockReadyUploads
Reply ==
    /\ file.status = "clean" /\ ~file.sent
    /\ ticket.consent /\ ~ticket.purged
    /\ file' = [file EXCEPT !.sent = TRUE]
    /\ UNCHANGED <<ticket, object, job, run, turns>>

\* Consent given again belongs to later tickets.
Withdraw ==
    /\ ticket.consent
    /\ ticket' = [ticket EXCEPT !.consent = FALSE]
    /\ UNCHANGED <<file, object, job, run, turns>>

\* purgeAttachments, by retention or with the client (who has no consent then).
Purge ==
    /\ file.status # "none"
    /\ \E consent \in {ticket.consent, FALSE} : ticket' = [consent |-> consent, purged |-> TRUE]
    /\ IF file.status = "uploading" THEN UNCHANGED file ELSE SetStatus("unavailable")
    /\ IF file.key THEN Enqueue("attachment_purge") ELSE UNCHANGED job
    /\ TakeTurn
    /\ UNCHANGED <<object, run>>

-----------------------------------------------------------------------------
(* Jobs.                                                                   *)

Claim(p, k) ==
    /\ run[p].phase = "idle"
    /\ job[k].state = "pending"
    /\ job' = [job EXCEPT ![k] = [state |-> "running", by |-> p]]
    /\ run' = [run EXCEPT ![p] = [kind |-> k, phase |-> "begin"]]
    /\ UNCHANGED <<ticket, file, object, turns>>

\* What a run may still do to its job: the generation must be its own, and the job not recovered.
Holds(p) == run[p].kind \in Kinds /\ job[run[p].kind] = [state |-> "running", by |-> p]

Closed(p, state) == IF Holds(p) THEN [job EXCEPT ![run[p].kind] = [state |-> state, by |-> Nobody]] ELSE job

EndRun(p) ==
    /\ run[p].phase = "over"
    /\ job' = Closed(p, "done")
    /\ run' = [run EXCEPT ![p] = Idle]
    /\ UNCHANGED <<ticket, file, object, turns>>

\* Variants named X_... are plausible slips of X; each breaks a property (see README).
AfterFailure_Silent(p, state) == file

\* recordJobFailure: the last failure of a download is shown in the row (markDownloadFailed).
AfterFailure(p, state) ==
    IF Holds(p) /\ run[p].kind = "file" /\ state = "failed" /\ file.status = "pending"
    THEN [file EXCEPT !.status = "unavailable"] ELSE file

\* Storage, network, scanner or database: tried again, six times at most, or refused for good.
FailRun(p) ==
    /\ run[p].kind \in Kinds /\ run[p].phase \notin {"idle", "over"}
    /\ \E state \in {"pending", "failed"} :
         job' = Closed(p, state) /\ file' = AfterFailure(p, state)
    /\ run' = [run EXCEPT ![p] = Idle]
    /\ UNCHANGED <<ticket, object, turns>>

\* receiveUpload, whatever has become of the row.
FailUpload(p) ==
    /\ run[p].kind = "upload" /\ run[p].phase \in {"transfer", "stored"}
    /\ SetStatus("failed")
    /\ run' = [run EXCEPT ![p] = Idle]
    /\ UNCHANGED <<ticket, object, job, turns>>

Crash(p) ==
    /\ run[p].phase # "idle"
    /\ run' = [run EXCEPT ![p] = Idle]
    /\ TakeTurn
    /\ UNCHANGED <<ticket, file, object, job>>

\* After five minutes, also under a run that is only slow.
RecoverJob(k) ==
    /\ job[k].state = "running"
    /\ job' = [job EXCEPT ![k] = [state |-> "pending", by |-> Nobody]]
    /\ UNCHANGED <<ticket, file, object, run, turns>>

\* With reopenDownload: the row of a failed download waits again.
RetryFailedJob(k) ==
    /\ job[k].state = "failed"
    /\ job' = [job EXCEPT ![k].state = "pending"]
    /\ IF k = "file" /\ file.status = "unavailable" THEN SetStatus("pending") ELSE UNCHANGED file
    /\ UNCHANGED <<ticket, object, run, turns>>

-----------------------------------------------------------------------------
(* The work: downloadInbound, storeStream, scanAttachment, Files.purge.    *)

BeginDownload(p) ==
    /\ At(p, {"file"}, "begin")
    /\ Goes(p, IF file.status = "pending" THEN "checking" ELSE "over")
    /\ UNCHANGED <<ticket, file, object, job, turns>>

\* Without consent it is cancelled; without an address it cannot be had (markDownloadFailed).
CheckDownload(p) ==
    /\ At(p, {"file"}, "checking")
    /\ \/ ~ticket.consent /\ SetStatus("canceled") /\ Goes(p, "over")
       \/ /\ ticket.consent
          /\ file' = [file EXCEPT !.status = IF @ = "pending" THEN "unavailable" ELSE @]
          /\ Goes(p, "over")
       \/ ticket.consent /\ UNCHANGED file /\ Goes(p, "transfer")
    /\ UNCHANGED <<ticket, object, job, turns>>

\* The object has a fixed key, so it takes the place of one that is there.
StoreObject(p) ==
    /\ At(p, {"file", "upload"}, "transfer")
    /\ object' = TRUE
    /\ Goes(p, "stored")
    /\ UNCHANGED <<ticket, file, job, turns>>

StoreRow(p) ==
    /\ At(p, {"file", "upload"}, "stored")
    /\ IF file.status \in {"receiving", "pending"}
       THEN file' = [file EXCEPT !.status = "quarantined", !.key = TRUE] /\ Enqueue("scan")
       ELSE UNCHANGED <<file, job>>
    /\ Goes(p, "over")
    /\ UNCHANGED <<ticket, object, turns>>

\* If the object is gone, the run fails.
BeginScan(p) ==
    /\ At(p, {"scan"}, "begin")
    /\ \/ file.status = "quarantined" /\ file.key /\ object /\ Goes(p, "scanning")
       \/ ~(file.status = "quarantined" /\ file.key) /\ Goes(p, "over")
    /\ UNCHANGED <<ticket, file, object, job, turns>>

\* By id, whatever has become of the row; only consent is looked at again (markClean).
FinishScan(p) ==
    /\ At(p, {"scan"}, "scanning")
    /\ \/ SetStatus("rejected")
       \/ SetStatus("infected")
       \/ SetStatus(IF ticket.consent THEN "clean" ELSE "canceled")
    /\ Goes(p, "over")
    /\ UNCHANGED <<ticket, object, job, turns>>

BeginPurge(p) ==
    /\ At(p, {"attachment_purge"}, "begin")
    /\ Goes(p, IF file.key THEN "deleting" ELSE "forgetting")
    /\ UNCHANGED <<ticket, file, object, job, turns>>

DeleteObject(p) ==
    /\ At(p, {"attachment_purge"}, "deleting")
    /\ object' = FALSE
    /\ Goes(p, "forgetting")
    /\ UNCHANGED <<ticket, file, job, turns>>

ForgetKey(p) ==
    /\ At(p, {"attachment_purge"}, "forgetting")
    /\ file' = [file EXCEPT !.key = FALSE]
    /\ Goes(p, "over")
    /\ UNCHANGED <<ticket, object, job, turns>>

-----------------------------------------------------------------------------

People == ClientSends \/ PrepareUpload \/ CancelDraftUpload \/ Reply \/ Withdraw \/ Purge

Jobs ==
    \/ \E k \in Kinds : RecoverJob(k) \/ RetryFailedJob(k)
    \/ \E p \in Processes : EndRun(p) \/ FailRun(p) \/ Crash(p) \/ \E k \in Kinds : Claim(p, k)

Transfer == \E p \in Processes :
    BeginDownload(p) \/ CheckDownload(p) \/ ReceiveUpload(p) \/ FailUpload(p) \/ StoreObject(p) \/ StoreRow(p)

ScanOrPurge == \E p \in Processes :
    BeginScan(p) \/ FinishScan(p) \/ BeginPurge(p) \/ DeleteObject(p) \/ ForgetKey(p)

Next == People \/ Jobs \/ Transfer \/ ScanOrPurge

Spec == Init /\ [][Next]_vars

-----------------------------------------------------------------------------
(* Properties.                                                             *)

\* Learning waits for the files of a ticket, and so does an employee who sends one: as long as the
\* ticket has its content, a file to be fetched has a job that will fetch it or say that it cannot be
\* had, and one in quarantine has a scan, to come, running, or failed where an administrator sees it.
\* Runs that overlap, die, or end after the row was cancelled must not leave it without.
WaitingFilesMove ==
    ~ticket.purged =>
        /\ file.status = "pending" => job["file"].state \in {"pending", "running"}
        /\ file.status = "quarantined" => job["scan"].state \in {"pending", "running", "failed"}
=============================================================================
