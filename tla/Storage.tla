------------------------------- MODULE Storage -------------------------------
(***************************************************************************)
(* The media files of the messages against their rows: files are staged in *)
(* filesDir/attachments or filesDir/voice_notes while a message is being   *)
(* composed, belong to a row once it is scheduled, and are deleted by the  *)
(* confirmed send, by cancel and resolve, and by runCleanup, which also    *)
(* sweeps both directories by age.                                         *)
(*                                                                         *)
(* A step is one SQL statement or the deletion of one message's media;     *)
(* updateStatus is one step here (SendFlow splits it).  Time is counted in *)
(* half days, the granularity of the cleanup delays.                       *)
(***************************************************************************)
EXTENDS Integers, FiniteSets

CONSTANTS
    Msgs, Files, NoMsg, NoFile,  \* NoFile: nothing is being written
    VoiceFiles,     \* the files of voice_notes/; the others are attachments
    SentDelay,      \* SENT_CLEANUP_DELAY_MS, in half days
    FailedDelay,    \* FAILED_CLEANUP_DELAY_MS, in half days
    MaxMedia,       \* bound: files staged in one behaviour
    MaxCrashes      \* bound

ASSUME StorageAssumption ==
    /\ NoMsg \notin Msgs
    /\ NoFile \notin Files
    /\ VoiceFiles \subseteq Files
    /\ SentDelay \in Nat /\ FailedDelay \in Nat /\ SentDelay <= FailedDelay
    /\ MaxMedia \in Nat
    /\ MaxCrashes \in Nat

VARIABLES
    rows,      \* status, media files and half days since terminalAtEpochMs
    disk,      \* the files that exist
    age,       \* half days since the file's lastModified
    draft,     \* the message being composed: its media, the file being written
    wk,        \* the dispatch: at most one at a time
    user,      \* cancel, resolve or resend in progress
    cleanup,   \* runCleanup in progress and the rows it has selected
    used,      \* files whose name has been given out (a millisecond timestamp)
    excused,   \* messages the user deletes, or has resent during their dispatch, or
               \* whose media are the form's or another message's too
    crashes

vars == <<rows, disk, age, draft, wk, user, cleanup, used, excused, crashes>>

Live == {"PENDING", "CLAIMED", "SENDING", "RETRYABLE_FAILURE", "NEEDS_REVIEW"}
Failed == {"FINAL_FAILURE", "NEEDS_REVIEW"}
Statuses == Live \cup {"FINAL_FAILURE", "SENT_CONFIRMED", "ABSENT", "UNUSED"}

\* media: voiceNotePath and attachmentUri
Row == [status : Statuses, media : SUBSET Files, since : 0 .. FailedDelay]
Unused == [status |-> "UNUSED", media |-> {}, since |-> 0]
Draft == [media : SUBSET Files, writing : Files \cup {NoFile}]
EmptyDraft == [media |-> {}, writing |-> NoFile]
Dispatch == [pc : {"idle", "validate", "call", "confirmed"}, id : Msgs \cup {NoMsg}]
NoDispatch == [pc |-> "idle", id |-> NoMsg]
UserOp == [act : {"none", "cancel", "resolve", "resend"}, id : Msgs \cup {NoMsg},
           fileDone : BOOLEAN]
NoOp == [act |-> "none", id |-> NoMsg, fileDone |-> FALSE]
Cleanup == [pc : {"idle", "rows", "sweep"}, todo : SUBSET Msgs, fileDone : SUBSET Msgs]
NoCleanup == [pc |-> "idle", todo |-> {}, fileDone |-> {}]

TypeOK ==
    /\ rows \in [Msgs -> Row]
    /\ disk \subseteq used
    /\ age \in [Files -> 0 .. FailedDelay]
    /\ draft \in Draft
    /\ wk \in Dispatch
    /\ user \in UserOp
    /\ cleanup \in Cleanup
    /\ used \subseteq Files
    /\ excused \subseteq Msgs
    /\ crashes \in 0 .. MaxCrashes

Init ==
    /\ rows = [id \in Msgs |-> Unused]
    /\ disk = {}
    /\ age = [f \in Files |-> 0]
    /\ draft = EmptyDraft
    /\ wk = NoDispatch
    /\ user = NoOp
    /\ cleanup = NoCleanup
    /\ used = {}
    /\ excused = {}
    /\ crashes = 0

SetRow(id, status) == rows' = [rows EXCEPT ![id].status = status, ![id].since = 0]

-----------------------------------------------------------------------------
(* Composing: importAndStage, VoiceNoteRecorder, the new-message form *)

\* dest.outputStream(), OpusRecorder.start: the file exists from here on.
BeginMedia(f) ==
    /\ draft.writing = NoFile
    /\ f \notin used
    /\ Cardinality(used) < MaxMedia
    /\ f \in VoiceFiles => draft.media \cap VoiceFiles = {}
    /\ used' = used \cup {f}
    /\ disk' = disk \cup {f}
    /\ draft' = [draft EXCEPT !.writing = f]
    /\ UNCHANGED <<rows, age, wk, user, cleanup, excused, crashes>>

SameKind(f) == IF f \in VoiceFiles THEN VoiceFiles ELSE Files \ VoiceFiles

\* A newly picked attachment replaces the earlier one in the form only.
FinishMedia ==
    /\ draft.writing # NoFile
    /\ draft' = [media |-> (draft.media \ SameKind(draft.writing)) \cup {draft.writing},
                 writing |-> NoFile]
    /\ UNCHANGED <<rows, disk, age, wk, user, cleanup, used, excused, crashes>>

\* Too short or cancelled: stop() and cancel() delete the recording.  A copy
\* that fails leaves its partial file behind.
AbortMedia ==
    /\ draft.writing # NoFile
    /\ disk' = disk \ ({draft.writing} \cap VoiceFiles)
    /\ draft' = [draft EXCEPT !.writing = NoFile]
    /\ UNCHANGED <<rows, age, wk, user, cleanup, used, excused, crashes>>

\* The dialog's Delete and Re-record: a voice note is deleted with its path.
DropVoice ==
    /\ draft.media \cap VoiceFiles # {}
    /\ disk' = disk \ (draft.media \cap VoiceFiles)
    /\ draft' = [draft EXCEPT !.media = @ \ VoiceFiles]
    /\ UNCHANGED <<rows, age, wk, user, cleanup, used, excused, crashes>>

\* onDispose cancels a recording; the form goes with its view model, its
\* finished media stays.
LeaveScreen ==
    /\ draft # EmptyDraft
    /\ disk' = disk \ ({draft.writing} \cap VoiceFiles)
    /\ draft' = EmptyDraft
    /\ UNCHANGED <<rows, age, wk, user, cleanup, used, excused, crashes>>

\* scheduleMessage inserts the row.
Inserts(id) ==
    /\ rows[id].status = "UNUSED"
    /\ draft.media # {} /\ draft.writing = NoFile
    /\ rows' = [rows EXCEPT ![id] = [status |-> "PENDING", media |-> draft.media, since |-> 0]]
    /\ UNCHANGED <<disk, age, wk, user, cleanup, used, crashes>>

\* Some row has the form's media already.
Scheduled == \E id \in Msgs : rows[id].media \cap draft.media # {}

\* The success resets the form.
Schedule(id) ==
    /\ Inserts(id)
    /\ draft' = EmptyDraft
    /\ excused' = IF Scheduled THEN excused \cup {id} ELSE excused

\* scheduleExact throws: the row stays, and so does the form, from which the user
\* may delete the media of the row, or schedule them once more.
ScheduleFails(id) ==
    /\ Inserts(id)
    /\ excused' = excused \cup {id}
    /\ UNCHANGED draft

-----------------------------------------------------------------------------
(* NodeBridge.sendMessage, as far as files are concerned *)

Claim(id) ==
    /\ wk.pc = "idle"
    /\ rows[id].status = "PENDING"
    /\ SetRow(id, "CLAIMED")
    /\ wk' = [pc |-> "validate", id |-> id]
    /\ UNCHANGED <<disk, age, draft, user, cleanup, used, excused, crashes>>

\* An attachment that is gone fails for good; voice notes are not checked.
\* A deleted row ends the dispatch.
Validate ==
    LET id == wk.id
        missing == ~(rows[id].media \subseteq disk \cup VoiceFiles)
    IN
    /\ wk.pc = "validate"
    /\ IF rows[id].status = "ABSENT"
       THEN UNCHANGED rows /\ wk' = NoDispatch
       ELSE IF missing
       THEN SetRow(id, "FINAL_FAILURE") /\ wk' = NoDispatch
       ELSE SetRow(id, "SENDING") /\ wk' = [wk EXCEPT !.pc = "call"]
    /\ UNCHANGED <<disk, age, draft, user, cleanup, used, excused, crashes>>

\* updateStatus of a row that has been deleted does nothing.
Settle(id, status) == IF rows[id].status = "ABSENT" THEN UNCHANGED rows ELSE SetRow(id, status)

\* Mutated: every attempt, failed or not, deletes the media it has sent.
CallEndsDeleting ==
    /\ wk.pc = "call"
    /\ \E s \in {"SENT_CONFIRMED", "RETRYABLE_FAILURE", "FINAL_FAILURE"} : Settle(wk.id, s)
    /\ disk' = disk \ rows[wk.id].media
    /\ wk' = NoDispatch
    /\ UNCHANGED <<age, draft, user, cleanup, used, excused, crashes>>

\* Node cannot send a file that is gone; a failed send keeps its file.
CallEnds ==
    /\ wk.pc = "call"
    /\ \/ /\ rows[wk.id].media \subseteq disk
          /\ Settle(wk.id, "SENT_CONFIRMED")
          /\ wk' = [wk EXCEPT !.pc = "confirmed"]
       \/ /\ \E s \in {"RETRYABLE_FAILURE", "FINAL_FAILURE", "NEEDS_REVIEW"} :
                Settle(wk.id, s)
          /\ wk' = NoDispatch
    /\ UNCHANGED <<disk, age, draft, user, cleanup, used, excused, crashes>>

\* "delete on confirmed success ONLY": the dispatch has the path in memory.
DeleteSentMedia ==
    /\ wk.pc = "confirmed"
    /\ disk' = disk \ rows[wk.id].media
    /\ wk' = NoDispatch
    /\ UNCHANGED <<rows, age, draft, user, cleanup, used, excused, crashes>>

\* RetryWorker, or a pass of reconcile.
Requeue(id) ==
    /\ \/ rows[id].status = "RETRYABLE_FAILURE"
       \/ rows[id].status = "CLAIMED" /\ wk.id # id
    /\ SetRow(id, "PENDING")
    /\ UNCHANGED <<disk, age, draft, wk, user, cleanup, used, excused, crashes>>

\* reconcile does not know a live media send from a dead one (SendFlow).
MarkReview(id) ==
    /\ rows[id].status = "SENDING"
    /\ SetRow(id, "NEEDS_REVIEW")
    /\ UNCHANGED <<disk, age, draft, wk, user, cleanup, used, excused, crashes>>

MarkMissed(id) ==
    /\ rows[id].status = "PENDING"
    /\ SetRow(id, "FINAL_FAILURE")
    /\ UNCHANGED <<disk, age, draft, wk, user, cleanup, used, excused, crashes>>

-----------------------------------------------------------------------------
(* cancelPendingMessage, resolveNeedsReview, resendNeedsReview: read and    *)
(* test the row, delete its file, then delete the row (or update it).       *)

UserReads(act, id) ==
    /\ user = NoOp
    /\ rows[id].status = IF act = "cancel" THEN "PENDING" ELSE "NEEDS_REVIEW"
    /\ user' = [NoOp EXCEPT !.act = act, !.id = id]
    /\ excused' = IF act # "resend" \/ wk.id = id THEN excused \cup {id} ELSE excused
    /\ UNCHANGED <<rows, disk, age, draft, wk, cleanup, used, crashes>>

UserDeletesFile ==
    /\ user.act \in {"cancel", "resolve"}
    /\ ~user.fileDone
    /\ disk' = disk \ rows[user.id].media
    /\ user' = [user EXCEPT !.fileDone = TRUE]
    /\ UNCHANGED <<rows, age, draft, wk, cleanup, used, excused, crashes>>

UserDeletesRow ==
    /\ user.act \in {"cancel", "resolve"}
    /\ user.fileDone
    /\ SetRow(user.id, "ABSENT")
    /\ user' = NoOp
    /\ UNCHANGED <<disk, age, draft, wk, cleanup, used, excused, crashes>>

UserResends ==
    /\ user.act = "resend"
    /\ Settle(user.id, "PENDING")
    /\ user' = NoOp
    /\ UNCHANGED <<disk, age, draft, wk, cleanup, used, excused, crashes>>

-----------------------------------------------------------------------------
(* runCleanup *)

Expired(r) ==
    \/ r.status = "SENT_CONFIRMED" /\ r.since >= SentDelay
    \/ r.status \in Failed /\ r.since >= FailedDelay

\* getSentForCleanup, getFailedForCleanup: the rows as they are now.
CleanupReads ==
    /\ cleanup.pc = "idle"
    /\ cleanup' = [pc |-> "rows", todo |-> {id \in Msgs : Expired(rows[id])}, fileDone |-> {}]
    /\ UNCHANGED <<rows, disk, age, draft, wk, user, used, excused, crashes>>

CleanupDeletesFile(id) ==
    /\ cleanup.pc = "rows"
    /\ id \in cleanup.todo \ cleanup.fileDone
    /\ disk' = disk \ rows[id].media
    /\ cleanup' = [cleanup EXCEPT !.fileDone = @ \cup {id}]
    /\ UNCHANGED <<rows, age, draft, wk, user, used, excused, crashes>>

\* Mutated: the row goes first and its file after it.
CleanupRowFirst(id) ==
    /\ cleanup.pc = "rows"
    /\ id \in cleanup.todo
    /\ SetRow(id, "ABSENT")
    /\ cleanup' = [cleanup EXCEPT !.todo = @ \ {id}]
    /\ UNCHANGED <<disk, age, draft, wk, user, used, excused, crashes>>

CleanupDeletesRow(id) ==
    /\ cleanup.pc = "rows"
    /\ id \in cleanup.todo \cap cleanup.fileDone
    /\ SetRow(id, "ABSENT")
    /\ cleanup' = [cleanup EXCEPT !.todo = @ \ {id}]
    /\ UNCHANGED <<disk, age, draft, wk, user, used, excused, crashes>>

\* Mutated: the sweep of the attachments directory is forgotten.
SweepVoiceNotes ==
    /\ cleanup.pc = "rows" /\ cleanup.todo = {}
    /\ disk' = {f \in disk : f \notin VoiceFiles \/ age[f] < FailedDelay}
    /\ cleanup' = NoCleanup
    /\ UNCHANGED <<rows, age, draft, wk, user, used, excused, crashes>>

\* Both directories, by lastModified alone: no row is looked at.
Sweep ==
    /\ cleanup.pc = "rows" /\ cleanup.todo = {}
    /\ disk' = {f \in disk : age[f] < FailedDelay}
    /\ cleanup' = NoCleanup
    /\ UNCHANGED <<rows, age, draft, wk, user, used, excused, crashes>>

-----------------------------------------------------------------------------
(* Time and faults *)

Later(n) == IF n < FailedDelay THEN n + 1 ELSE n

\* A cleanup pass takes less.
HalfDay ==
    /\ cleanup = NoCleanup
    /\ age' = [f \in Files |-> IF f \in used THEN Later(age[f]) ELSE 0]
    /\ rows' = [id \in Msgs |->
                   IF rows[id].status \in Failed \cup {"SENT_CONFIRMED"}
                   THEN [rows[id] EXCEPT !.since = Later(@)] ELSE rows[id]]
    /\ UNCHANGED <<disk, draft, wk, user, cleanup, used, excused, crashes>>

Crash ==
    /\ crashes < MaxCrashes
    /\ crashes' = crashes + 1
    /\ draft' = EmptyDraft /\ wk' = NoDispatch /\ user' = NoOp /\ cleanup' = NoCleanup
    /\ UNCHANGED <<rows, disk, age, used, excused>>

-----------------------------------------------------------------------------
Compose ==
    \/ \E f \in Files : BeginMedia(f)
    \/ FinishMedia \/ AbortMedia \/ DropVoice \/ LeaveScreen
    \/ \E id \in Msgs : Schedule(id) \/ ScheduleFails(id)

DispatchStep == Validate \/ CallEnds \/ DeleteSentMedia

UserStep == UserDeletesFile \/ UserDeletesRow \/ UserResends

CleanupStep ==
    \/ CleanupReads \/ Sweep
    \/ \E id \in Msgs : CleanupDeletesFile(id) \/ CleanupDeletesRow(id)

Next ==
    \/ Compose
    \/ \E id \in Msgs :
          \/ Claim(id) \/ Requeue(id) \/ MarkReview(id) \/ MarkMissed(id)
          \/ UserReads("cancel", id) \/ UserReads("resolve", id) \/ UserReads("resend", id)
    \/ DispatchStep \/ UserStep \/ CleanupStep
    \/ HalfDay \/ Crash

Spec == Init /\ [][Next]_vars

\* Started work goes on, the periodic backstop cleans up again and again, and
\* time passes although a pass may be running whenever one looks.
FairSpec ==
    /\ Spec
    /\ WF_vars(DispatchStep) /\ WF_vars(UserStep) /\ WF_vars(CleanupStep)
    /\ SF_vars(HalfDay)

-----------------------------------------------------------------------------
(* Properties *)

\* The media of a message that may still be sent, retried or resent is on disk
\* until it is a day old, in whatever order sends, retries, reviews, cleanups
\* and crashes come (NodeBridge.kt:329-331: "Failed rows keep the file so
\* retries work").
MediaThere ==
    \A id \in Msgs : \A f \in rows[id].media :
        (rows[id].status \in Live /\ id \notin excused /\ age[f] < FailedDelay)
        => f \in disk

\* No media survives its row: file first, then row, so that a crash in between
\* leaves a row that the next pass finds again and never an unowned file.
NoMediaWithoutRow == \A id \in Msgs : rows[id].status = "ABSENT" => rows[id].media \cap disk = {}

\* A file that nothing refers to (given up compositions, failed copies,
\* replaced attachments, crashes) does not stay for ever.
Referenced(f) ==
    \/ f \in draft.media \cup {draft.writing}
    \/ \E id \in Msgs : f \in rows[id].media /\ rows[id].status # "ABSENT"
NoLeak == \A f \in Files : (f \in disk /\ ~Referenced(f)) ~> (f \notin disk)

\* ScheduleRepository.kt:164-167: the sweep is for files without a row, "any
\* active message's attachment would be far newer".
SweepSparesLiveMedia ==
    [][Sweep => \A id \in Msgs :
          rows[id].status \in Live => rows[id].media \cap disk \subseteq disk']_vars

=============================================================================
