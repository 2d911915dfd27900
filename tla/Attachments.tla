------------------------------ MODULE Attachments ------------------------------
(***************************************************************************)
(* Uploads of one content by several requests at once, and its downloads   *)
(* (platform/src/attachments.ts, migration 0017).  A request reads the row *)
(* of the content, stores the object if there is none, and commits the row *)
(* and its event in one batch.  The event id and the object's key are      *)
(* functions of the content, so every request writes the same ones; what   *)
(* differs is what each says of the content: its type and target, which    *)
(* the event repeats, and its file name, which it does not.                *)
(***************************************************************************)
EXTENDS Naturals, FiniteSets

CONSTANTS
  Uploads,          \* POST /v1/attachments requests for the content
  Kinds,            \* the content types and targets they declare
  FileNames,        \* the file names they declare
  LastSecond,       \* the clock stops here (a bound)
  MaxUploadFaults   \* calls whose acknowledgement is lost, and dead Workers (a bound)

(* "none" stands for no row; it is no content type.                        *)
ASSUME AttachmentAssumption == "none" \notin Kinds

VARIABLES
  attachment,   \* the row of attachments, or NoAttachment
  recorded,     \* the attachment.recorded event, or NoAttachment
  stored,       \* whether the object is in the bucket
  upload,       \* per request: where it is and the record it will answer with
  downloads,    \* the statuses that downloads answered with
  second,       \* the clock
  uploadFaults

attachmentVars == <<attachment, recorded, stored, upload, downloads, second, uploadFaults>>

NoAttachment == [kind |-> "none"]
Evidence(row) == [kind |-> row.kind, at |-> row.at]

AttachmentsInit ==
  /\ attachment = NoAttachment /\ recorded = NoAttachment /\ stored = FALSE
  /\ upload \in [Uploads -> {[at |-> "start", row |-> [kind |-> k, name |-> f, at |-> 0]] :
                             k \in Kinds, f \in FileNames}]
  /\ downloads = {} /\ second = 0 /\ uploadFaults = 0

UploadGoto(u, next) == upload' = [upload EXCEPT ![u] = next]
UploadFault == uploadFaults < MaxUploadFaults /\ uploadFaults' = uploadFaults + 1

AttachmentTick ==
  /\ second < LastSecond /\ second' = second + 1
  /\ UNCHANGED <<attachment, recorded, stored, upload, downloads, uploadFaults>>

(* What the row says wins over what the request says.                      *)
ReadByHash(u) ==
  /\ upload[u].at = "start"
  /\ UploadGoto(u, IF attachment # NoAttachment THEN [at |-> "commit", row |-> attachment]
                   ELSE [upload[u] EXCEPT !.at = "put"])
  /\ UNCHANGED <<attachment, recorded, stored, downloads, second, uploadFaults>>

(* The record takes its time once the object is stored.                    *)
PutBody(u) ==
  /\ upload[u].at = "put"
  /\ stored' = TRUE
  /\ UploadGoto(u, [upload[u] EXCEPT !.at = "commit", !.row.at = second])
  /\ UNCHANGED <<attachment, recorded, downloads, second, uploadFaults>>

(* INSERT OR IGNORE twice; an event with this id and other bytes aborts    *)
(* both (events_reject_payload_conflict).                                  *)
ConflictsWith(row) == recorded # NoAttachment /\ recorded # Evidence(row)
InsertBoth(row) ==
  /\ attachment' = IF attachment = NoAttachment THEN row ELSE attachment
  /\ recorded' = IF recorded = NoAttachment THEN Evidence(row) ELSE recorded

CommitAttachment(u) ==
  LET row == upload[u].row
  IN /\ upload[u].at = "commit"
     /\ IF ConflictsWith(row)
        THEN UNCHANGED <<attachment, recorded>> /\ UploadGoto(u, [upload[u] EXCEPT !.at = "500"])
        ELSE InsertBoth(row) /\ UploadGoto(u, [upload[u] EXCEPT !.at = "200"])
     /\ UNCHANGED <<stored, downloads, second, uploadFaults>>

(* A request fails at any of its calls; the call may have been made.       *)
UploadFails(u) ==
  /\ upload[u].at \in {"put", "commit"} /\ UploadFault
  /\ \/ UNCHANGED <<stored, attachment, recorded>>
     \/ upload[u].at = "put" /\ stored' = TRUE /\ UNCHANGED <<attachment, recorded>>
     \/ /\ upload[u].at = "commit" /\ ~ConflictsWith(upload[u].row)
        /\ InsertBoth(upload[u].row) /\ UNCHANGED stored
  /\ UploadGoto(u, [upload[u] EXCEPT !.at = "500"])
  /\ UNCHANGED <<downloads, second>>

(* A client tries again what was not acknowledged.                         *)
RetryUpload(u) ==
  /\ upload[u].at = "500"
  /\ UploadGoto(u, [upload[u] EXCEPT !.at = "start"])
  /\ UNCHANGED <<attachment, recorded, stored, downloads, second, uploadFaults>>

DownloadAttachment ==
  /\ downloads' = downloads \cup
       {IF attachment = NoAttachment THEN 404 ELSE IF stored THEN 200 ELSE 410}
  /\ downloads # downloads'
  /\ UNCHANGED <<attachment, recorded, stored, upload, second, uploadFaults>>

AttachmentsNext ==
  \/ AttachmentTick \/ DownloadAttachment
  \/ \E u \in Uploads :
       ReadByHash(u) \/ PutBody(u) \/ CommitAttachment(u) \/ UploadFails(u) \/ RetryUpload(u)

-------------------------------------------------------------------------------
Answers == {upload[u].row : u \in {v \in Uploads : upload[v].at = "200"}}

(* Racing uploads of one content, retried when they fail: there is a row   *)
(* when and only when there is an event, the event says of the content     *)
(* what the row says, whoever was answered 200 was told the same, and the  *)
(* object was stored before either (no download answers 410).              *)
AttachmentsAreEvidence ==
  /\ attachment = NoAttachment <=> recorded = NoAttachment
  /\ attachment # NoAttachment => recorded = Evidence(attachment) /\ stored
  /\ \A row \in Answers : Evidence(row) = recorded
  /\ 410 \notin downloads

(* "The response (and the event below) has to describe the row as it truly *)
(* is, not as this request imagined it" (platform/src/attachments.ts,      *)
(* createAttachment).                                                      *)
AnswersDescribeTheRow == \A row \in Answers : row = attachment
===============================================================================
