---------------------------- MODULE StorageProofs ----------------------------
(***************************************************************************)
(* What Storage promises for every set of messages and of files, every     *)
(* pair of cleanup delays and every number of crashes: no media outlives   *)
(* its row, and the media of a message that may still be sent is on disk   *)
(* until it is a day old.                                                  *)
(*                                                                         *)
(* Neither is inductive.  Files are deleted by four operations that read   *)
(* the row first and delete later, so the invariant says of each what it   *)
(* may find of the row by then (WorkFit, UserFit, CleanupFit); a cleanup   *)
(* deletes files of rows that may be resent meanwhile, which is harmless   *)
(* since a row is no older than its files (Aged); and no row shares a file *)
(* with another one or with the form, unless its message is excused        *)
(* (Owned).                                                                *)
(***************************************************************************)
EXTENDS Storage, TLAPS

\* Every file is known by the name that was given out for it, and belongs to one
\* message or to the composition; an excused message may share its files.
Owned ==
    /\ \A id \in Msgs : /\ rows[id].media \subseteq used
                        /\ draft.writing \notin rows[id].media
                        /\ rows[id].status = "UNUSED" => rows[id].media = {}
    /\ draft.media \subseteq used
    /\ draft.writing # NoFile => draft.writing \in used
    /\ draft.writing \notin draft.media
    /\ \A id \in Msgs \ excused :
          /\ rows[id].media \cap draft.media = {}
          /\ \A n \in Msgs : n # id => rows[id].media \cap rows[n].media = {}

\* A row has been as it is for no longer than its files exist.
Aged == \A id \in Msgs : \A f \in rows[id].media : rows[id].since <= age[f]

\* The media of the composition is on disk until it is swept, unless a row has it
\* already: then whoever deletes the media of the row takes it.
InRow(f) == \E id \in Msgs : f \in rows[id].media
DraftThere == \A f \in draft.media : age[f] < FailedDelay => f \in disk \/ InRow(f)
WritingThere == draft.writing # NoFile /\ age[draft.writing] < FailedDelay => draft.writing \in disk

\* What a dispatch, an operation of the user and a cleanup may find of the row
\* they have read; a message resent during its dispatch is excused.
Status(id) == rows[id].status
WorkFit ==
    /\ wk.pc # "idle" => wk.id \in Msgs /\ Status(wk.id) # "UNUSED"
    /\ wk.pc \in {"validate", "call"} /\ wk.id \notin excused =>
          Status(wk.id) \in {"CLAIMED", "SENDING", "NEEDS_REVIEW", "ABSENT"}
    /\ wk.pc = "confirmed" /\ wk.id \notin excused => Status(wk.id) \in {"SENT_CONFIRMED", "ABSENT"}

UserFit ==
    /\ user.act # "none" => user.id \in Msgs /\ Status(user.id) # "UNUSED"
    /\ user.act \in {"cancel", "resolve"} => user.id \in excused
    /\ user.act = "resend" /\ user.id \notin excused =>
          wk.id # user.id /\ Status(user.id) \in {"NEEDS_REVIEW", "ABSENT"}

\* A file a cleanup is about to delete is a day old, or its message is no longer
\* to be sent.
Old(id) == \A f \in rows[id].media : age[f] >= FailedDelay
CleanupFit ==
    /\ \A id \in cleanup.todo \cup cleanup.fileDone : Status(id) # "UNUSED"
    /\ \A id \in cleanup.todo \ excused :
          Old(id) \/ Status(id) \in {"SENT_CONFIRMED", "ABSENT"}

\* A row that is about to go has lost its files.
Gone(id) == rows[id].media \cap disk = {}
DeletedFirst ==
    /\ user.act # "none" /\ user.fileDone => Gone(user.id)
    /\ \A id \in cleanup.fileDone : Gone(id)
    /\ NoMediaWithoutRow

FilesInv == Owned /\ Aged /\ DraftThere /\ WritingThere
ReadersInv == WorkFit /\ UserFit /\ CleanupFit

-----------------------------------------------------------------------------
(* Rows and ages *)

\* SetRow changes the status of one row and restarts its age.
LEMMA RowSet ==
  ASSUME TypeOK, NEW id \in Msgs, NEW s \in Statuses, SetRow(id, s)
  PROVE  /\ rows' \in [Msgs -> Row]
         /\ \A n \in Msgs : rows'[n].media = rows[n].media
         /\ \A n \in Msgs : n # id => rows'[n] = rows[n]
         /\ rows'[id].status = s /\ rows'[id].since = 0
  <1>1. 0 \in 0 .. FailedDelay
    BY StorageAssumption
  <1>2. rows \in [Msgs -> Row]
    BY DEF TypeOK
  <1>3. rows' = [rows EXCEPT ![id] = [[rows[id] EXCEPT !.status = s] EXCEPT !.since = 0]]
    <2>1. rows' = [rows EXCEPT ![id].status = s, ![id].since = 0]
      BY DEF SetRow
    <2>. QED
      BY <1>2, <2>1 DEF Row
  <1>4. rows[id] \in [status : Statuses, media : SUBSET Files, since : 0 .. FailedDelay]
    BY <1>2 DEF Row
  <1>5. rows'[id] = [[rows[id] EXCEPT !.status = s] EXCEPT !.since = 0]
    BY <1>2, <1>3
  <1>6. /\ rows'[id] \in [status : Statuses, media : SUBSET Files, since : 0 .. FailedDelay]
        /\ rows'[id].media = rows[id].media /\ rows'[id].status = s /\ rows'[id].since = 0
    BY <1>1, <1>4, <1>5
  <1>7. DOMAIN rows' = Msgs /\ \A n \in Msgs : n # id => rows'[n] = rows[n]
    BY <1>2, <1>3
  <1>8. rows' \in [Msgs -> Row]
    BY <1>2, <1>3, <1>6, <1>7 DEF Row
  <1>. QED
    BY <1>6, <1>7, <1>8

\* A step that keeps the rows, or sets one that is in use
RowsKept == /\ rows' \in [Msgs -> Row]
            /\ \A n \in Msgs : /\ rows'[n].media = rows[n].media
                               /\ rows'[n].since <= rows[n].since
                               /\ rows'[n].status = "UNUSED" <=> rows[n].status = "UNUSED"

LEMMA SetKeeps ==
  ASSUME TypeOK, NEW id \in Msgs, NEW s \in Statuses \ {"UNUSED"}, SetRow(id, s),
         Status(id) # "UNUSED"
  PROVE  RowsKept
  <1>1. \A n \in Msgs : rows[n].since \in Nat
    BY StorageAssumption DEF TypeOK, Row
  <1>. QED
    BY <1>1, RowSet DEF RowsKept, Status

LEMMA SettleKeeps ==
  ASSUME TypeOK, NEW id \in Msgs, NEW s \in Statuses \ {"UNUSED"}, Settle(id, s),
         Status(id) # "UNUSED"
  PROVE  RowsKept
  <1>1. CASE rows[id].status = "ABSENT"
    <2>1. rows' = rows
      BY <1>1 DEF Settle
    <2>2. \A n \in Msgs : rows[n].since \in Nat
      BY StorageAssumption DEF TypeOK, Row
    <2>. QED
      BY <2>1, <2>2 DEF RowsKept, TypeOK
  <1>2. CASE rows[id].status # "ABSENT"
    BY <1>2, SetKeeps DEF Settle
  <1>. QED
    BY <1>1, <1>2

LEMMA RowsMove ==
  ASSUME TypeOK, ReadersInv, [Next]_vars
  PROVE  \/ RowsKept \/ HalfDay
         \/ \E id \in Msgs : Inserts(id) /\ (Schedule(id) \/ ScheduleFails(id))
  <1>. USE DEF Live, Failed, Statuses
  <1>0. ASSUME UNCHANGED rows PROVE RowsKept
    <2>1. \A n \in Msgs : rows[n].since \in Nat
      BY StorageAssumption DEF TypeOK, Row
    <2>. QED
      BY <1>0, <2>1 DEF RowsKept, TypeOK
  <1>1. CASE UNCHANGED vars
    BY <1>0, <1>1 DEF vars
  <1>2. CASE \/ \E f \in Files : BeginMedia(f)
             \/ FinishMedia \/ AbortMedia \/ DropVoice \/ LeaveScreen
    BY <1>0, <1>2 DEF BeginMedia, FinishMedia, AbortMedia, DropVoice, LeaveScreen
  <1>3. ASSUME NEW id \in Msgs, Claim(id) \/ Requeue(id) \/ MarkReview(id) \/ MarkMissed(id)
        PROVE  RowsKept
    BY <1>3, SetKeeps DEF Claim, Requeue, MarkReview, MarkMissed, Status
  <1>4. ASSUME NEW id \in Msgs, NEW act, UserReads(act, id) PROVE RowsKept
    BY <1>0, <1>4 DEF UserReads
  <1>5. CASE Validate
    <2>1. wk.id \in Msgs /\ Status(wk.id) # "UNUSED"
      BY <1>5 DEF Validate, ReadersInv, WorkFit
    <2>2. UNCHANGED rows \/ SetRow(wk.id, "FINAL_FAILURE") \/ SetRow(wk.id, "SENDING")
      BY <1>5 DEF Validate
    <2>. QED
      BY <1>0, <2>1, <2>2, SetKeeps
  <1>6. CASE CallEnds
    <2>1. wk.id \in Msgs /\ Status(wk.id) # "UNUSED"
      BY <1>6 DEF CallEnds, ReadersInv, WorkFit
    <2>2. \E s \in {"SENT_CONFIRMED", "RETRYABLE_FAILURE", "FINAL_FAILURE", "NEEDS_REVIEW"} :
             Settle(wk.id, s)
      BY <1>6 DEF CallEnds
    <2>. QED
      BY <2>1, <2>2, SettleKeeps
  <1>7. CASE DeleteSentMedia
    BY <1>0, <1>7 DEF DeleteSentMedia
  <1>8. CASE UserDeletesFile
    BY <1>0, <1>8 DEF UserDeletesFile
  <1>9. CASE UserDeletesRow \/ UserResends
    <2>1. user.id \in Msgs /\ Status(user.id) # "UNUSED"
      BY <1>9 DEF UserDeletesRow, UserResends, ReadersInv, UserFit
    <2>2. SetRow(user.id, "ABSENT") \/ Settle(user.id, "PENDING")
      BY <1>9 DEF UserDeletesRow, UserResends
    <2>. QED
      BY <2>1, <2>2, SetKeeps, SettleKeeps
  <1>10. CASE CleanupReads \/ Sweep
    BY <1>0, <1>10 DEF CleanupReads, Sweep
  <1>11. ASSUME NEW id \in Msgs, CleanupDeletesFile(id) PROVE RowsKept
    BY <1>0, <1>11 DEF CleanupDeletesFile
  <1>12. ASSUME NEW id \in Msgs, CleanupDeletesRow(id) PROVE RowsKept
    <2>1. Status(id) # "UNUSED" /\ SetRow(id, "ABSENT")
      BY <1>12 DEF CleanupDeletesRow, ReadersInv, CleanupFit
    <2>. QED
      BY <2>1, SetKeeps
  <1>13. CASE Crash
    BY <1>0, <1>13 DEF Crash
  <1>. QED
    BY <1>1, <1>2, <1>3, <1>4, <1>5, <1>6, <1>7, <1>8, <1>9, <1>10, <1>11, <1>12, <1>13
       DEF Next, Compose, DispatchStep, UserStep, CleanupStep, Schedule, ScheduleFails

\* Time ages the files of a message and its row alike.
LEMMA TimePasses ==
  ASSUME TypeOK, HalfDay
  PROVE  /\ rows' \in [Msgs -> Row]
         /\ age' \in [Files -> 0 .. FailedDelay]
         /\ \A n \in Msgs : /\ rows'[n].media = rows[n].media
                            /\ rows'[n].status = rows[n].status
                            /\ rows'[n].since \in {rows[n].since, Later(rows[n].since)}
         /\ \A f \in used : age'[f] = Later(age[f]) /\ age'[f] >= age[f]
  <1>1. \A n \in 0 .. FailedDelay : Later(n) \in 0 .. FailedDelay /\ Later(n) >= n
    BY StorageAssumption DEF Later
  <1>2. /\ rows \in [Msgs -> Row] /\ age \in [Files -> 0 .. FailedDelay] /\ used \subseteq Files
        /\ 0 \in 0 .. FailedDelay
    BY StorageAssumption DEF TypeOK
  <1>3. /\ age' = [f \in Files |-> IF f \in used THEN Later(age[f]) ELSE 0]
        /\ rows' = [id \in Msgs |->
                       IF rows[id].status \in Failed \cup {"SENT_CONFIRMED"}
                       THEN [rows[id] EXCEPT !.since = Later(@)] ELSE rows[id]]
    BY DEF HalfDay
  <1>. HIDE DEF Later
  <1>4. age' \in [Files -> 0 .. FailedDelay] /\ \A f \in used : age'[f] = Later(age[f]) /\ age'[f] >= age[f]
    BY <1>1, <1>2, <1>3
  <1>5. ASSUME NEW n \in Msgs
        PROVE  /\ rows'[n] \in Row /\ rows'[n].media = rows[n].media
               /\ rows'[n].status = rows[n].status
               /\ rows'[n].since \in {rows[n].since, Later(rows[n].since)}
    <2>1. rows[n] \in Row /\ rows[n].since \in 0 .. FailedDelay
      BY <1>2 DEF Row
    <2>2. Later(rows[n].since) \in 0 .. FailedDelay
      BY <1>1, <2>1
    <2>3. rows'[n] \in {rows[n], [rows[n] EXCEPT !.since = Later(@)]}
      BY <1>3
    <2>. QED
      BY <2>1, <2>2, <2>3 DEF Row
  <1>6. rows' \in [Msgs -> Row]
    BY <1>3, <1>5
  <1>. QED
    BY <1>4, <1>5, <1>6

\* Scheduling, which may fail after it, puts the composed message into an unused row.
LEMMA RowAdded ==
  ASSUME TypeOK, NEW id \in Msgs, Inserts(id)
  PROVE  /\ rows' \in [Msgs -> Row]
         /\ \A n \in Msgs : n # id => rows'[n] = rows[n]
         /\ rows'[id] = [status |-> "PENDING", media |-> draft.media, since |-> 0]
         /\ Status(id) = "UNUSED"
  BY StorageAssumption DEF TypeOK, Inserts, Row, Draft, Status, Statuses, Live

\* Only time ages files.
LEMMA AgesMove ==
  ASSUME [Next]_vars
  PROVE  HalfDay \/ UNCHANGED age
  BY DEF Next, Compose, DispatchStep, UserStep, CleanupStep, BeginMedia, FinishMedia, AbortMedia,
         DropVoice, LeaveScreen, Schedule, ScheduleFails, Inserts, Claim, Requeue, MarkReview,
         MarkMissed, UserReads, Validate, CallEnds, DeleteSentMedia, UserDeletesFile,
         UserDeletesRow, UserResends, CleanupReads, CleanupDeletesFile, CleanupDeletesRow, Sweep,
         Crash, vars

LEMMA TypeKeeps ==
  ASSUME TypeOK, ReadersInv, [Next]_vars
  PROVE  TypeOK'
  <1>1. rows' \in [Msgs -> Row]
    BY RowsMove, TimePasses, RowAdded DEF RowsKept
  <1>2. age' \in [Files -> 0 .. FailedDelay]
    BY AgesMove, TimePasses DEF TypeOK
  <1>. DEFINE Rest == /\ disk \subseteq used /\ draft \in Draft /\ wk \in Dispatch /\ user \in UserOp
                      /\ cleanup \in Cleanup /\ used \subseteq Files /\ excused \subseteq Msgs
                      /\ crashes \in 0 .. MaxCrashes
  <1>0. Rest
    BY DEF TypeOK
  <1>3. CASE UNCHANGED vars
    BY <1>3, <1>0, <1>1, <1>2 DEF vars, TypeOK
  <1>4. CASE \/ \E f \in Files : BeginMedia(f)
             \/ FinishMedia \/ AbortMedia \/ DropVoice \/ LeaveScreen
             \/ \E id \in Msgs : Schedule(id) \/ ScheduleFails(id)
    <2>1. UNCHANGED <<wk, user, cleanup, crashes>> /\ excused' \subseteq Msgs
      BY <1>0, <1>4 DEF BeginMedia, FinishMedia, AbortMedia, DropVoice, LeaveScreen, Schedule,
                        ScheduleFails, Inserts
    <2>2. disk' \subseteq used' /\ used' \subseteq Files
      BY <1>0, <1>4 DEF BeginMedia, FinishMedia, AbortMedia, DropVoice, LeaveScreen, Schedule,
                        ScheduleFails, Inserts
    <2>3. draft' \in Draft
      BY <1>0, <1>4 DEF BeginMedia, FinishMedia, AbortMedia, DropVoice, LeaveScreen, Schedule,
                        ScheduleFails, Inserts, Draft, EmptyDraft
    <2>. QED
      BY <1>0, <1>1, <1>2, <2>1, <2>2, <2>3 DEF TypeOK
  <1>5. ASSUME NEW id \in Msgs, Claim(id) \/ Requeue(id) \/ MarkReview(id) \/ MarkMissed(id)
        PROVE  TypeOK'
    <2>1. UNCHANGED <<disk, draft, user, cleanup, used, excused, crashes>>
      BY <1>5 DEF Claim, Requeue, MarkReview, MarkMissed
    <2>2. wk' = wk \/ wk' = [pc |-> "validate", id |-> id]
      BY <1>5 DEF Claim, Requeue, MarkReview, MarkMissed
    <2>3. wk' \in Dispatch
      BY <1>0, <2>2 DEF Dispatch
    <2>. QED
      BY <1>0, <1>1, <1>2, <2>1, <2>3 DEF TypeOK
  <1>6. ASSUME NEW id \in Msgs, NEW act \in {"cancel", "resolve", "resend"}, UserReads(act, id)
        PROVE  TypeOK'
    <2>1. UNCHANGED <<disk, draft, wk, cleanup, used, crashes>>
      BY <1>6 DEF UserReads
    <2>2. user' \in UserOp /\ excused' \subseteq Msgs
      BY <1>0, <1>6 DEF UserReads, UserOp, NoOp
    <2>. QED
      BY <1>0, <1>1, <1>2, <2>1, <2>2 DEF TypeOK
  <1>7. CASE DispatchStep
    <2>1. UNCHANGED <<draft, user, cleanup, used, excused, crashes>> /\ disk' \subseteq disk
      BY <1>7 DEF DispatchStep, Validate, CallEnds, DeleteSentMedia
    <2>2. wk' \in {NoDispatch, [wk EXCEPT !.pc = "call"], [wk EXCEPT !.pc = "confirmed"]}
      BY <1>7 DEF DispatchStep, Validate, CallEnds, DeleteSentMedia
    <2>3. wk' \in Dispatch
      BY <1>0, <2>2 DEF Dispatch, NoDispatch
    <2>. QED
      BY <1>0, <1>1, <1>2, <2>1, <2>3 DEF TypeOK
  <1>8. CASE UserStep
    <2>1. UNCHANGED <<draft, wk, cleanup, used, excused, crashes>> /\ disk' \subseteq disk
      BY <1>8 DEF UserStep, UserDeletesFile, UserDeletesRow, UserResends
    <2>2. user' \in {NoOp, [user EXCEPT !.fileDone = TRUE]}
      BY <1>8 DEF UserStep, UserDeletesFile, UserDeletesRow, UserResends
    <2>3. user' \in UserOp
      <3>1. NoOp \in UserOp
        BY DEF UserOp, NoOp
      <3>2. [user EXCEPT !.fileDone = TRUE] \in UserOp
        BY <1>0 DEF UserOp
      <3>. QED
        BY <2>2, <3>1, <3>2
    <2>. QED
      BY <1>0, <1>1, <1>2, <2>1, <2>3 DEF TypeOK
  <1>9. CASE CleanupStep
    <2>1. UNCHANGED <<draft, wk, user, used, excused, crashes>> /\ disk' \subseteq disk
      BY <1>9 DEF CleanupStep, CleanupReads, Sweep, CleanupDeletesFile, CleanupDeletesRow
    <2>2. cleanup' \in Cleanup
      BY <1>0, <1>9 DEF CleanupStep, CleanupReads, Sweep, CleanupDeletesFile, CleanupDeletesRow,
                        Cleanup, NoCleanup
    <2>. QED
      BY <1>0, <1>1, <1>2, <2>1, <2>2 DEF TypeOK
  <1>10. CASE HalfDay
    BY <1>0, <1>1, <1>2, <1>10 DEF HalfDay, TypeOK
  <1>11. CASE Crash
    <2>1. UNCHANGED <<disk, used, excused>>
      BY <1>11 DEF Crash
    <2>2. draft' \in Draft /\ wk' \in Dispatch /\ user' \in UserOp /\ cleanup' \in Cleanup
      BY <1>11 DEF Crash, Draft, EmptyDraft, Dispatch, NoDispatch, UserOp, NoOp, Cleanup,
                   NoCleanup
    <2>3. crashes' \in 0 .. MaxCrashes
      BY <1>0, <1>11, StorageAssumption DEF Crash
    <2>. QED
      BY <1>0, <1>1, <1>2, <2>1, <2>2, <2>3 DEF TypeOK
  <1>. QED
    BY <1>3, <1>4, <1>5, <1>6, <1>7, <1>8, <1>9, <1>10, <1>11 DEF Next, Compose

-----------------------------------------------------------------------------
(* Whose file is whose *)

\* A step that gives the form no new file
LEMMA OwnedStays ==
  ASSUME TypeOK, Owned, used \subseteq used', excused \subseteq excused',
         \A n \in Msgs : /\ rows'[n].media = rows[n].media
                         /\ rows'[n].status = "UNUSED" => rows[n].status = "UNUSED",
         draft'.media \subseteq draft.media, draft'.writing \in {draft.writing, NoFile}
  PROVE  Owned'
  <1>1. \A n \in Msgs : rows[n].media \subseteq Files
    BY DEF TypeOK, Row
  <1>2. draft.media \subseteq Files /\ NoFile \notin Files
    BY StorageAssumption DEF TypeOK, Draft
  <1>. QED
    BY <1>1, <1>2 DEF Owned

\* The form begins a file, finishes one or gives files up.
LEMMA DraftMoves ==
  ASSUME TypeOK, [Next]_vars
  PROVE  \/ draft'.media \subseteq draft.media /\ draft'.writing \in {draft.writing, NoFile}
         \/ \E f \in Files : BeginMedia(f)
         \/ FinishMedia
  <1>1. UNCHANGED draft \/ DropVoice \/ draft' = EmptyDraft \/ draft' = [draft EXCEPT !.writing = NoFile]
        \/ FinishMedia \/ \E f \in Files : BeginMedia(f)
    BY DEF Next, Compose, DispatchStep, UserStep, CleanupStep, AbortMedia, LeaveScreen, Schedule,
           ScheduleFails, Inserts, Claim, Requeue, MarkReview, MarkMissed, UserReads, Validate,
           CallEnds, DeleteSentMedia, UserDeletesFile, UserDeletesRow, UserResends, CleanupReads,
           CleanupDeletesFile, CleanupDeletesRow, Sweep, HalfDay, Crash, vars
  <1>2. draft \in [media : SUBSET Files, writing : Files \cup {NoFile}]
    BY DEF TypeOK, Draft
  <1>3. CASE DropVoice
    <2>1. draft' = [draft EXCEPT !.media = @ \ VoiceFiles]
      BY <1>3 DEF DropVoice
    <2>. QED
      BY <1>2, <2>1
  <1>. QED
    BY <1>1, <1>2, <1>3 DEF EmptyDraft

LEMMA UsedGrows ==
  ASSUME [Next]_vars
  PROVE  used \subseteq used'
  BY DEF Next, Compose, DispatchStep, UserStep, CleanupStep, BeginMedia, FinishMedia, AbortMedia,
         DropVoice, LeaveScreen, Schedule, ScheduleFails, Inserts, Claim, Requeue, MarkReview,
         MarkMissed, UserReads, Validate, CallEnds, DeleteSentMedia, UserDeletesFile,
         UserDeletesRow, UserResends, CleanupReads, CleanupDeletesFile, CleanupDeletesRow, Sweep,
         HalfDay, Crash, vars

\* An excused message stays one.
LEMMA ExcusedGrows ==
  ASSUME [Next]_vars
  PROVE  excused \subseteq excused'
  BY DEF Next, Compose, DispatchStep, UserStep, CleanupStep, BeginMedia, FinishMedia, AbortMedia,
         DropVoice, LeaveScreen, Schedule, ScheduleFails, Inserts, Claim, Requeue, MarkReview,
         MarkMissed, UserReads, Validate, CallEnds, DeleteSentMedia, UserDeletesFile,
         UserDeletesRow, UserResends, CleanupReads, CleanupDeletesFile, CleanupDeletesRow, Sweep,
         HalfDay, Crash, vars

LEMMA OwnedKeeps ==
  ASSUME TypeOK, Owned, ReadersInv, [Next]_vars
  PROVE  Owned'
  <1>1. ASSUME NEW id \in Msgs, Schedule(id) \/ ScheduleFails(id) PROVE Owned'
    <2>1. Inserts(id)
      BY <1>1 DEF Schedule, ScheduleFails
    <2>2. /\ \A n \in Msgs : n # id => rows'[n] = rows[n]
          /\ rows'[id].media = draft.media /\ rows'[id].status = "PENDING"
      BY <2>1, RowAdded
    <2>3. UNCHANGED used /\ draft.writing = NoFile /\ excused \subseteq excused'
      BY <2>1, ExcusedGrows DEF Inserts
    <2>4. draft'.media \subseteq draft.media /\ draft'.writing = NoFile
      BY <1>1, <2>3 DEF Schedule, ScheduleFails, EmptyDraft
    <2>5. \A n \in Msgs : NoFile \notin rows'[n].media /\ rows'[n].media \subseteq used'
      BY <2>2, <2>3, StorageAssumption DEF TypeOK, Row, Draft, Owned
    <2>6. CASE id \in excused'
      BY <2>2, <2>3, <2>4, <2>5, <2>6 DEF Owned
    <2>7. CASE id \notin excused'
      <3>1. draft'.media = {} /\ \A n \in Msgs : rows[n].media \cap draft.media = {}
        BY <1>1, <2>7 DEF Schedule, ScheduleFails, Scheduled, EmptyDraft
      <3>. QED
        BY <2>2, <2>3, <2>4, <2>5, <3>1 DEF Owned
    <2>. QED
      BY <2>6, <2>7
  <1>2. ASSUME NEW f \in Files, BeginMedia(f) PROVE Owned'
    <2>1. UNCHANGED <<rows, excused>> /\ used' = used \cup {f} /\ f \notin used
      BY <1>2 DEF BeginMedia
    <2>2. draft'.media = draft.media /\ draft'.writing = f
      BY <1>2 DEF BeginMedia, TypeOK, Draft
    <2>. QED
      BY <2>1, <2>2 DEF Owned
  <1>3. CASE FinishMedia
    <2>1. UNCHANGED <<rows, used, excused>> /\ draft.writing # NoFile
      BY <1>3 DEF FinishMedia
    <2>2. draft'.media \subseteq draft.media \cup {draft.writing} /\ draft'.writing = NoFile
      BY <1>3 DEF FinishMedia
    <2>3. \A n \in Msgs : NoFile \notin rows[n].media
      BY StorageAssumption DEF TypeOK, Row
    <2>4. NoFile \notin draft.media
      BY StorageAssumption DEF TypeOK, Draft
    <2>. QED
      BY <2>1, <2>2, <2>3, <2>4 DEF Owned
  <1>4. CASE RowsKept \/ HalfDay
    <2>1. \A n \in Msgs : /\ rows'[n].media = rows[n].media
                          /\ rows'[n].status = "UNUSED" => rows[n].status = "UNUSED"
      BY <1>4, TimePasses DEF RowsKept
    <2>. QED
      BY <1>2, <1>3, <2>1, DraftMoves, UsedGrows, ExcusedGrows, OwnedStays
  <1>. QED
    BY <1>1, <1>4, RowsMove

LEMMA AgedKeeps ==
  ASSUME TypeOK, Owned, Aged, ReadersInv, [Next]_vars
  PROVE  Aged'
  <1>0. \A n \in Msgs : rows[n].media \subseteq used /\ rows[n].media \subseteq Files
    BY DEF Owned, TypeOK, Row
  <1>1. CASE \E id \in Msgs : Inserts(id)
    <2>1. PICK id \in Msgs : Inserts(id)
      BY <1>1
    <2>2. /\ \A n \in Msgs : n # id => rows'[n] = rows[n]
          /\ rows'[id].media = draft.media /\ rows'[id].since = 0
      BY <2>1, RowAdded
    <2>3. UNCHANGED age
      BY <2>1 DEF Inserts
    <2>4. \A f \in draft.media : age[f] >= 0
      BY StorageAssumption DEF TypeOK, Draft
    <2>. QED
      BY <2>2, <2>3, <2>4 DEF Aged
  <1>2. CASE HalfDay
    <2>1. SUFFICES ASSUME NEW n \in Msgs, NEW f \in rows[n].media
                   PROVE  rows'[n].since <= age'[f]
      BY <1>2, TimePasses DEF Aged
    <2>2. rows'[n].since \in {rows[n].since, Later(rows[n].since)} /\ age'[f] = Later(age[f])
      BY <1>0, <1>2, TimePasses
    <2>3. rows[n].since <= age[f] /\ rows[n].since \in 0 .. FailedDelay /\ age[f] \in 0 .. FailedDelay
      BY <1>0 DEF Aged, TypeOK, Row
    <2>. QED
      BY <2>2, <2>3, StorageAssumption DEF Later
  <1>3. CASE RowsKept /\ ~HalfDay
    <2>1. SUFFICES ASSUME NEW n \in Msgs, NEW f \in rows[n].media
                   PROVE  rows'[n].since <= age'[f]
      BY <1>3 DEF Aged, RowsKept
    <2>2. rows'[n].since <= rows[n].since /\ age' = age
      BY <1>3, AgesMove DEF RowsKept
    <2>3. rows[n].since <= age[f] /\ rows[n].since \in 0 .. FailedDelay /\ age[f] \in 0 .. FailedDelay
      BY <1>0 DEF Aged, TypeOK, Row
    <2>4. rows'[n].since \in 0 .. FailedDelay
      BY <1>3 DEF RowsKept, Row
    <2>. QED
      BY <2>2, <2>3, <2>4, StorageAssumption
  <1>. QED
    BY <1>1, <1>2, <1>3, RowsMove

-----------------------------------------------------------------------------
(* Who deletes what *)

\* A file that goes is the form's to give up, a day old, or of a row that its
\* dispatch has confirmed, the user deletes or a cleanup has selected.
LEMMA WhoDeletes ==
  ASSUME TypeOK, Owned, [Next]_vars, NEW f \in disk, f \notin disk'
  PROVE  \/ /\ f \in draft.media \cup {draft.writing}
            /\ f \notin draft'.media \cup {draft'.writing}
         \/ age[f] >= FailedDelay
         \/ wk.pc = "confirmed" /\ f \in rows[wk.id].media
         \/ user.act \in {"cancel", "resolve"} /\ f \in rows[user.id].media
         \/ \E id \in cleanup.todo : f \in rows[id].media
  <1>0. f \in Files /\ f # NoFile /\ age[f] \in 0 .. FailedDelay
    BY StorageAssumption DEF TypeOK
  <1>1. \/ AbortMedia \/ DropVoice \/ LeaveScreen \/ DeleteSentMedia \/ UserDeletesFile \/ Sweep
        \/ \E id \in Msgs : CleanupDeletesFile(id)
    BY DEF Next, Compose, DispatchStep, UserStep, CleanupStep, BeginMedia, FinishMedia, Schedule,
           ScheduleFails, Inserts, Claim, Requeue, MarkReview, MarkMissed, UserReads, Validate,
           CallEnds, UserDeletesRow, UserResends, CleanupReads, CleanupDeletesRow, HalfDay,
           Crash, vars
  <1>2. CASE AbortMedia
    <2>1. f = draft.writing /\ draft'.writing = NoFile /\ draft'.media = draft.media
      BY <1>2 DEF AbortMedia, TypeOK, Draft
    <2>. QED
      BY <1>0, <2>1 DEF Owned
  <1>3. CASE DropVoice
    <2>1. /\ f \in draft.media \cap VoiceFiles
          /\ draft'.media = draft.media \ VoiceFiles /\ draft'.writing = draft.writing
      BY <1>3 DEF DropVoice, TypeOK, Draft
    <2>. QED
      BY <2>1 DEF Owned
  <1>4. CASE LeaveScreen
    BY <1>0, <1>4 DEF LeaveScreen, EmptyDraft
  <1>5. CASE DeleteSentMedia
    BY <1>5 DEF DeleteSentMedia
  <1>6. CASE UserDeletesFile
    BY <1>6 DEF UserDeletesFile
  <1>7. CASE Sweep
    <2>1. ~(age[f] < FailedDelay)
      BY <1>7 DEF Sweep
    <2>. QED
      BY <1>0, <2>1, StorageAssumption
  <1>8. CASE \E id \in Msgs : CleanupDeletesFile(id)
    BY <1>8 DEF CleanupDeletesFile
  <1>. QED
    BY <1>1, <1>2, <1>3, <1>4, <1>5, <1>6, <1>7, <1>8

-----------------------------------------------------------------------------
(* What the readers of a row may find of it *)

\* Who changes the status of a message, and from what to what
LEMMA StatusMoves ==
  ASSUME TypeOK, ReadersInv, [Next]_vars, NEW id \in Msgs
  PROVE  \/ Status(id)' = Status(id)
         \/ Inserts(id)
         \/ Claim(id) /\ Status(id)' = "CLAIMED"
         \/ Requeue(id) /\ Status(id)' = "PENDING"
         \/ MarkReview(id) /\ Status(id)' = "NEEDS_REVIEW"
         \/ MarkMissed(id) /\ Status(id)' = "FINAL_FAILURE"
         \/ Validate /\ wk.id = id /\ Status(id) # "ABSENT"
            /\ Status(id)' \in {"SENDING", "FINAL_FAILURE"}
         \/ CallEnds /\ wk.id = id /\ Status(id) # "ABSENT" /\ Status(id)' # "ABSENT"
         \/ UserDeletesRow /\ user.id = id /\ Status(id)' = "ABSENT"
         \/ UserResends /\ user.id = id /\ Status(id) # "ABSENT" /\ Status(id)' = "PENDING"
         \/ CleanupDeletesRow(id) /\ Status(id)' = "ABSENT"
  <1>. USE DEF Status, Statuses, Live
  <1>1. ASSUME NEW n \in Msgs, NEW t \in Statuses, SetRow(n, t)
        PROVE  IF n = id THEN Status(id)' = t ELSE Status(id)' = Status(id)
    BY <1>1, RowSet
  <1>2. CASE \E n \in Msgs : Inserts(n)
    BY <1>2, RowAdded
  <1>3. ASSUME NEW n \in Msgs, Claim(n) \/ Requeue(n) \/ MarkReview(n) \/ MarkMissed(n)
        PROVE  \/ Status(id)' = Status(id)
               \/ Claim(id) /\ Status(id)' = "CLAIMED"
               \/ Requeue(id) /\ Status(id)' = "PENDING"
               \/ MarkReview(id) /\ Status(id)' = "NEEDS_REVIEW"
               \/ MarkMissed(id) /\ Status(id)' = "FINAL_FAILURE"
    BY <1>1, <1>3 DEF Claim, Requeue, MarkReview, MarkMissed
  <1>4. CASE Validate
    <2>1. wk.id \in Msgs
      BY <1>4 DEF Validate, ReadersInv, WorkFit
    <2>2. \/ UNCHANGED rows
          \/ /\ Status(wk.id) # "ABSENT"
             /\ SetRow(wk.id, "FINAL_FAILURE") \/ SetRow(wk.id, "SENDING")
      BY <1>4 DEF Validate
    <2>. QED
      BY <1>1, <1>4, <2>1, <2>2
  <1>5. CASE CallEnds
    <2>1. wk.id \in Msgs
      BY <1>5 DEF CallEnds, ReadersInv, WorkFit
    <2>2. \/ UNCHANGED rows
          \/ Status(wk.id) # "ABSENT" /\ \E t \in Statuses \ {"ABSENT"} : SetRow(wk.id, t)
      BY <1>5 DEF CallEnds, Settle
    <2>. QED
      BY <1>1, <1>5, <2>1, <2>2
  <1>6. CASE UserDeletesRow \/ UserResends
    <2>1. user.id \in Msgs
      BY <1>6 DEF UserDeletesRow, UserResends, ReadersInv, UserFit
    <2>2. \/ UNCHANGED rows
          \/ UserDeletesRow /\ SetRow(user.id, "ABSENT")
          \/ UserResends /\ Status(user.id) # "ABSENT" /\ SetRow(user.id, "PENDING")
      BY <1>6 DEF UserDeletesRow, UserResends, Settle
    <2>. QED
      BY <1>1, <2>1, <2>2
  <1>7. ASSUME NEW n \in Msgs, CleanupDeletesRow(n)
        PROVE  Status(id)' = Status(id) \/ (CleanupDeletesRow(id) /\ Status(id)' = "ABSENT")
    BY <1>1, <1>7 DEF CleanupDeletesRow
  <1>8. CASE HalfDay
    BY <1>8, TimePasses
  <1>9. CASE UNCHANGED rows
    BY <1>9
  <1>. QED
    BY <1>2, <1>3, <1>4, <1>5, <1>6, <1>7, <1>8, <1>9
       DEF Next, Compose, DispatchStep, UserStep, CleanupStep, BeginMedia, FinishMedia,
           AbortMedia, DropVoice, LeaveScreen, Schedule, ScheduleFails, UserReads,
           DeleteSentMedia, UserDeletesFile, CleanupReads, CleanupDeletesFile, Sweep, Crash, vars

\* No step brings a row back that is sent or deleted, but a resend the user
\* began during the message's dispatch.
LEMMA DoneStays ==
  ASSUME TypeOK, ReadersInv, [Next]_vars, NEW id \in Msgs, id \notin excused',
         Status(id) \in {"SENT_CONFIRMED", "ABSENT"}
  PROVE  Status(id)' \in {"SENT_CONFIRMED", "ABSENT"}
  <1>1. id \notin excused
    BY ExcusedGrows
  <1>2. /\ ~Inserts(id) /\ ~Claim(id) /\ ~Requeue(id) /\ ~MarkReview(id) /\ ~MarkMissed(id)
    BY DEF Status, Inserts, Claim, Requeue, MarkReview, MarkMissed
  <1>3. /\ Validate \/ CallEnds => wk.id # id \/ Status(id) = "ABSENT"
        /\ UserResends => user.id # id \/ Status(id) = "ABSENT"
    BY <1>1 DEF Validate, CallEnds, UserResends, ReadersInv, WorkFit, UserFit
  <1>. QED
    BY <1>2, <1>3, StatusMoves

\* A message that becomes one to be sent is one already, or new, or excused.
LEMMA LiveBefore ==
  ASSUME TypeOK, ReadersInv, [Next]_vars, NEW id \in Msgs, id \notin excused',
         Status(id)' \in Live
  PROVE  Status(id) \in Live \/ Inserts(id)
  <1>1. id \notin excused
    BY ExcusedGrows
  <1>2. Claim(id) \/ Requeue(id) \/ MarkReview(id) \/ MarkMissed(id) => Status(id) \in Live
    BY DEF Status, Claim, Requeue, MarkReview, MarkMissed, Live
  <1>3. /\ (Validate \/ CallEnds) /\ wk.id = id => Status(id) \in Live \cup {"ABSENT"}
        /\ UserResends /\ user.id = id => Status(id) \in Live \cup {"ABSENT"}
    BY <1>1 DEF Validate, CallEnds, UserResends, ReadersInv, WorkFit, UserFit, Live
  <1>4. "ABSENT" \notin Live
    BY DEF Live
  <1>. QED
    BY <1>2, <1>3, <1>4, StatusMoves

\* Nobody but the user, and then it is excused, disturbs the row of a dispatch.
LEMMA TakenStays ==
  ASSUME TypeOK, ReadersInv, [Next]_vars, NEW id \in Msgs, wk.id = id,
         wk.pc \in {"validate", "call"}, id \notin excused', ~Validate, ~CallEnds
  PROVE  Status(id)' \in {"CLAIMED", "SENDING", "NEEDS_REVIEW", "ABSENT"}
  <1>0. id \notin excused
    BY ExcusedGrows
  <1>1. Status(id) \in {"CLAIMED", "SENDING", "NEEDS_REVIEW", "ABSENT"}
    BY <1>0 DEF ReadersInv, WorkFit
  <1>2. ~Inserts(id) /\ ~Claim(id) /\ ~Requeue(id) /\ ~MarkMissed(id)
    BY <1>1 DEF Status, Inserts, Claim, Requeue, MarkMissed
  <1>3. UserResends => user.id # id
    BY <1>0 DEF UserResends, ReadersInv, UserFit
  <1>4. \/ Status(id)' = Status(id)
        \/ Status(id)' \in {"NEEDS_REVIEW", "ABSENT"}
    BY <1>2, <1>3, StatusMoves
  <1>. QED
    BY <1>1, <1>4

\* A row in use stays one.
LEMMA InUse ==
  ASSUME TypeOK, ReadersInv, [Next]_vars, NEW id \in Msgs, Status(id) # "UNUSED"
  PROVE  Status(id)' # "UNUSED"
  <1>1. CASE RowsKept \/ HalfDay
    BY <1>1, TimePasses DEF RowsKept, Status
  <1>2. CASE \E n \in Msgs : Inserts(n)
    <2>1. PICK n \in Msgs : Inserts(n)
      BY <1>2
    <2>2. /\ rows'[n] = [status |-> "PENDING", media |-> draft.media, since |-> 0]
          /\ \A m \in Msgs : m # n => rows'[m] = rows[m]
      BY <2>1, RowAdded
    <2>. QED
      BY <2>2 DEF Status
  <1>. QED
    BY <1>1, <1>2, RowsMove

LEMMA WorkKeeps ==
  ASSUME TypeOK, ReadersInv, [Next]_vars
  PROVE  WorkFit'
  <1>1. \/ UNCHANGED wk \/ wk' = NoDispatch
        \/ \E id \in Msgs : Claim(id)
        \/ Validate \/ CallEnds
    BY DEF Next, Compose, DispatchStep, UserStep, CleanupStep, BeginMedia, FinishMedia,
           AbortMedia, DropVoice, LeaveScreen, Schedule, ScheduleFails, Inserts, Requeue,
           MarkReview, MarkMissed, UserReads, DeleteSentMedia, UserDeletesFile, UserDeletesRow,
           UserResends, CleanupReads, CleanupDeletesFile, CleanupDeletesRow, Sweep, HalfDay,
           Crash, vars
  <1>2. CASE wk' = NoDispatch
    BY <1>2 DEF WorkFit, NoDispatch
  <1>3. ASSUME NEW id \in Msgs, Claim(id) PROVE WorkFit'
    <2>1. wk' = [pc |-> "validate", id |-> id] /\ SetRow(id, "CLAIMED")
      BY <1>3 DEF Claim
    <2>2. rows'[id].status = "CLAIMED"
      BY <2>1, RowSet DEF Statuses, Live
    <2>. QED
      BY <2>1, <2>2 DEF WorkFit, Status
  <1>4. ASSUME NEW id \in Msgs, wk.id = id, Validate PROVE WorkFit'
    <2>1. CASE wk' = NoDispatch
      BY <1>2, <2>1
    <2>2. CASE wk' # NoDispatch
      <3>1. wk' = [wk EXCEPT !.pc = "call"] /\ SetRow(id, "SENDING")
        BY <1>4, <2>2 DEF Validate
      <3>2. rows'[id].status = "SENDING"
        BY <3>1, RowSet DEF Statuses, Live
      <3>3. wk'.pc = "call" /\ wk'.id = id
        BY <1>4, <3>1 DEF TypeOK, Dispatch
      <3>. QED
        BY <3>2, <3>3 DEF WorkFit, Status
    <2>. QED
      BY <2>1, <2>2
  <1>5. ASSUME NEW id \in Msgs, wk.id = id, CallEnds PROVE WorkFit'
    <2>1. CASE wk' = NoDispatch
      BY <1>2, <2>1
    <2>2. CASE wk' # NoDispatch
      <3>1. wk' = [wk EXCEPT !.pc = "confirmed"] /\ Settle(id, "SENT_CONFIRMED")
        BY <1>5, <2>2 DEF CallEnds
      <3>2. rows'[id].status \in {"SENT_CONFIRMED", "ABSENT"}
        BY <3>1, RowSet DEF Settle, Statuses
      <3>3. wk'.pc = "confirmed" /\ wk'.id = id
        BY <1>5, <3>1 DEF TypeOK, Dispatch
      <3>. QED
        BY <3>2, <3>3 DEF WorkFit, Status
    <2>. QED
      BY <2>1, <2>2
  <1>6. CASE UNCHANGED wk /\ wk.pc = "idle"
    BY <1>6 DEF WorkFit
  <1>7. ASSUME NEW id \in Msgs, wk.id = id, UNCHANGED wk, ~Validate, ~CallEnds, wk.pc # "idle"
        PROVE  WorkFit'
    <2>1. Status(id) # "UNUSED" /\ Status(id)' # "UNUSED"
      <3>1. Status(id) # "UNUSED"
        BY <1>7 DEF ReadersInv, WorkFit
      <3>. QED
        BY <3>1, InUse
    <2>2. wk.pc \in {"validate", "call"} /\ id \notin excused' =>
             Status(id)' \in {"CLAIMED", "SENDING", "NEEDS_REVIEW", "ABSENT"}
      BY <1>7, TakenStays
    <2>3. wk.pc = "confirmed" /\ id \notin excused' => Status(id)' \in {"SENT_CONFIRMED", "ABSENT"}
      <3>1. SUFFICES ASSUME wk.pc = "confirmed", id \notin excused'
                     PROVE  Status(id)' \in {"SENT_CONFIRMED", "ABSENT"}
        OBVIOUS
      <3>2. Status(id) \in {"SENT_CONFIRMED", "ABSENT"}
        BY <1>7, <3>1, ExcusedGrows DEF ReadersInv, WorkFit
      <3>. QED
        BY <3>1, <3>2, DoneStays
    <2>. QED
      BY <1>7, <2>1, <2>2, <2>3 DEF WorkFit, Status
  <1>8. wk.pc # "idle" => wk.id \in Msgs
    BY DEF ReadersInv, WorkFit
  <1>9. Validate \/ CallEnds => wk.pc # "idle"
    BY DEF Validate, CallEnds
  <1>. QED
    BY <1>1, <1>2, <1>3, <1>4, <1>5, <1>6, <1>7, <1>8, <1>9

LEMMA UserKeeps ==
  ASSUME TypeOK, ReadersInv, [Next]_vars
  PROVE  UserFit'
  <1>1. \/ UNCHANGED user \/ user' = NoOp
        \/ UserDeletesFile
        \/ \E id \in Msgs, act \in {"cancel", "resolve", "resend"} : UserReads(act, id)
    BY DEF Next, Compose, DispatchStep, UserStep, CleanupStep, BeginMedia, FinishMedia,
           AbortMedia, DropVoice, LeaveScreen, Schedule, ScheduleFails, Inserts, Claim, Requeue,
           MarkReview, MarkMissed, Validate, CallEnds, DeleteSentMedia, UserDeletesRow,
           UserResends, CleanupReads, CleanupDeletesFile, CleanupDeletesRow, Sweep, HalfDay,
           Crash, vars
  <1>2. CASE user' = NoOp
    BY <1>2 DEF UserFit, NoOp
  <1>3. ASSUME NEW id \in Msgs, NEW act \in {"cancel", "resolve", "resend"}, UserReads(act, id)
        PROVE  UserFit'
    <2>1. UNCHANGED <<rows, wk>> /\ user' = [act |-> act, id |-> id, fileDone |-> FALSE]
      BY <1>3 DEF UserReads, NoOp
    <2>2. /\ Status(id) = IF act = "cancel" THEN "PENDING" ELSE "NEEDS_REVIEW"
          /\ excused' = IF act # "resend" \/ wk.id = id THEN excused \cup {id} ELSE excused
      BY <1>3 DEF UserReads, Status
    <2>3. user'.act = act /\ user'.id = id /\ Status(id)' = Status(id) /\ wk'.id = wk.id
      BY <2>1 DEF Status
    <2>. QED
      BY <2>2, <2>3 DEF UserFit, Status
  <1>4. CASE UserDeletesFile
    <2>1. UNCHANGED <<rows, wk, excused>> /\ user' = [user EXCEPT !.fileDone = TRUE]
      BY <1>4 DEF UserDeletesFile
    <2>2. user'.act = user.act /\ user'.id = user.id
      BY <2>1 DEF TypeOK, UserOp
    <2>. QED
      BY <2>1, <2>2 DEF ReadersInv, UserFit, Status
  <1>5. CASE UNCHANGED user /\ user.act = "none"
    BY <1>5 DEF UserFit
  <1>6. ASSUME NEW id \in Msgs, user.id = id, UNCHANGED user, user.act # "none",
               user' # NoOp
        PROVE  UserFit'
    <2>1. Status(id) # "UNUSED" /\ Status(id)' # "UNUSED"
      <3>1. Status(id) # "UNUSED"
        BY <1>6 DEF ReadersInv, UserFit
      <3>. QED
        BY <3>1, InUse
    <2>2. user.act \in {"cancel", "resolve"} => id \in excused'
      BY <1>6, ExcusedGrows DEF ReadersInv, UserFit
    <2>3. ASSUME user.act = "resend", id \notin excused'
          PROVE  wk'.id # id /\ Status(id)' \in {"NEEDS_REVIEW", "ABSENT"}
      <3>1. wk.id # id /\ Status(id) \in {"NEEDS_REVIEW", "ABSENT"}
        BY <1>6, <2>3, ExcusedGrows DEF ReadersInv, UserFit
      <3>2. ~Inserts(id) /\ ~Claim(id) /\ ~Requeue(id) /\ ~MarkMissed(id)
        BY <3>1 DEF Status, Inserts, Claim, Requeue, MarkMissed
      <3>3. ~UserResends
        BY <1>6 DEF UserResends
      <3>4. Status(id)' = Status(id) \/ Status(id)' \in {"NEEDS_REVIEW", "ABSENT"}
        BY <3>1, <3>2, <3>3, StatusMoves
      <3>5. \/ wk'.id = wk.id \/ wk' = NoDispatch
            \/ \E n \in Msgs : Claim(n)
        BY DEF TypeOK, Dispatch, Next, Compose, DispatchStep, UserStep, CleanupStep, BeginMedia,
               FinishMedia, AbortMedia, DropVoice, LeaveScreen, Schedule, ScheduleFails, Inserts,
               Requeue, MarkReview, MarkMissed, UserReads, Validate, CallEnds, DeleteSentMedia,
               UserDeletesFile, UserDeletesRow, UserResends, CleanupReads, CleanupDeletesFile,
               CleanupDeletesRow, Sweep, HalfDay, Crash, vars
      <3>6. ASSUME NEW n \in Msgs, Claim(n) PROVE wk'.id = n /\ n # id
        BY <3>2, <3>6 DEF Claim
      <3>7. wk' = NoDispatch => wk'.id # id
        BY StorageAssumption DEF NoDispatch
      <3>. QED
        BY <3>1, <3>4, <3>5, <3>6, <3>7
    <2>. QED
      BY <1>6, <2>1, <2>2, <2>3 DEF UserFit, Status
  <1>7. user.act # "none" => user.id \in Msgs
    BY DEF ReadersInv, UserFit
  <1>. QED
    BY <1>1, <1>2, <1>3, <1>4, <1>5, <1>6, <1>7

LEMMA CleanupKeeps ==
  ASSUME TypeOK, Owned, Aged, ReadersInv, [Next]_vars
  PROVE  CleanupFit'
  <1>0. cleanup.todo \subseteq Msgs /\ cleanup.fileDone \subseteq Msgs
    BY DEF TypeOK, Cleanup
  <1>1. \/ /\ cleanup'.todo \subseteq cleanup.todo /\ ~HalfDay
           /\ cleanup'.fileDone \subseteq cleanup.todo \cup cleanup.fileDone
        \/ cleanup'.todo = {} /\ cleanup'.fileDone = {}
        \/ CleanupReads
    <2>1. \/ UNCHANGED cleanup \/ cleanup' = NoCleanup \/ CleanupReads
          \/ \E id \in Msgs : CleanupDeletesFile(id) \/ CleanupDeletesRow(id)
      BY DEF Next, Compose, DispatchStep, UserStep, CleanupStep, BeginMedia, FinishMedia,
             AbortMedia, DropVoice, LeaveScreen, Schedule, ScheduleFails, Inserts, Claim,
             Requeue, MarkReview, MarkMissed, UserReads, Validate, CallEnds, DeleteSentMedia,
             UserDeletesFile, UserDeletesRow, UserResends, Sweep, HalfDay, Crash, vars
    <2>2. cleanup \in [pc : {"idle", "rows", "sweep"}, todo : SUBSET Msgs, fileDone : SUBSET Msgs]
      BY DEF TypeOK, Cleanup
    <2>3. HalfDay => cleanup' = NoCleanup
      BY DEF HalfDay
    <2>4. cleanup' = NoCleanup => cleanup'.todo = {} /\ cleanup'.fileDone = {}
      BY DEF NoCleanup
    <2>5. ASSUME NEW id \in Msgs, CleanupDeletesFile(id) \/ CleanupDeletesRow(id)
          PROVE  /\ cleanup'.todo \subseteq cleanup.todo
                 /\ cleanup'.fileDone \subseteq cleanup.todo \cup cleanup.fileDone
      BY <2>2, <2>5 DEF CleanupDeletesFile, CleanupDeletesRow
    <2>. QED
      BY <2>1, <2>3, <2>4, <2>5
  <1>2. CASE cleanup'.todo = {} /\ cleanup'.fileDone = {}
    BY <1>2 DEF CleanupFit
  <1>3. CASE CleanupReads
    <2>1. UNCHANGED <<rows, age>> /\ cleanup'.todo = {id \in Msgs : Expired(rows[id])}
          /\ cleanup'.fileDone = {}
      BY <1>3 DEF CleanupReads
    <2>2. ASSUME NEW id \in Msgs, Expired(rows[id])
          PROVE  Status(id) # "UNUSED" /\ (Old(id) \/ Status(id) = "SENT_CONFIRMED")
      <3>1. rows[id].status = "SENT_CONFIRMED" \/ (rows[id].status \in Failed /\ rows[id].since >= FailedDelay)
        BY <2>2 DEF Expired
      <3>2. ASSUME rows[id].since >= FailedDelay PROVE Old(id)
        <4>1. \A f \in rows[id].media : rows[id].since <= age[f] /\ age[f] \in 0 .. FailedDelay
          BY DEF Aged, TypeOK, Row
        <4>2. rows[id].since \in 0 .. FailedDelay
          BY DEF TypeOK, Row
        <4>. QED
          BY <3>2, <4>1, <4>2, StorageAssumption DEF Old
      <3>. QED
        BY <3>1, <3>2 DEF Status, Failed
    <2>. QED
      BY <2>1, <2>2 DEF CleanupFit, Status, Old
  <1>4. CASE /\ cleanup'.todo \subseteq cleanup.todo /\ ~HalfDay
             /\ cleanup'.fileDone \subseteq cleanup.todo \cup cleanup.fileDone
    <2>1. ASSUME NEW id \in cleanup.todo \cup cleanup.fileDone PROVE Status(id)' # "UNUSED"
      <3>1. id \in Msgs /\ Status(id) # "UNUSED"
        BY <1>0 DEF ReadersInv, CleanupFit
      <3>. QED
        BY <3>1, InUse
    <2>2. ASSUME NEW id \in cleanup.todo, id \notin excused'
          PROVE  Old(id)' \/ Status(id)' \in {"SENT_CONFIRMED", "ABSENT"}
      <3>1. id \in Msgs /\ (Old(id) \/ Status(id) \in {"SENT_CONFIRMED", "ABSENT"})
            /\ Status(id) # "UNUSED"
        BY <1>0, <2>2, ExcusedGrows DEF ReadersInv, CleanupFit
      <3>2. rows'[id].media = rows[id].media /\ age' = age
        <4>1. ~Inserts(id)
          BY <3>1 DEF Inserts, Status
        <4>. QED
          BY <1>4, <3>1, <4>1, RowsMove, AgesMove, RowAdded DEF RowsKept
      <3>3. Old(id) => Old(id)'
        BY <3>2 DEF Old
      <3>. QED
        BY <2>2, <3>1, <3>3, DoneStays
    <2>. QED
      BY <1>4, <2>1, <2>2 DEF CleanupFit
  <1>. QED
    BY <1>1, <1>2, <1>3, <1>4

-----------------------------------------------------------------------------
(* Which files are there *)

\* No step makes a file younger that is known.
LEMMA OlderOnly ==
  ASSUME TypeOK, [Next]_vars, NEW f \in used
  PROVE  age[f] \in 0 .. FailedDelay /\ age'[f] \in 0 .. FailedDelay /\ age[f] <= age'[f]
  <1>1. f \in Files /\ age[f] \in 0 .. FailedDelay
    BY DEF TypeOK
  <1>2. CASE HalfDay
    BY <1>1, <1>2, TimePasses
  <1>3. CASE UNCHANGED age
    BY <1>1, <1>3, StorageAssumption
  <1>. QED
    BY <1>2, <1>3, AgesMove

\* A young file of the form that no row has is deleted only when the form gives it up.
LEMMA FormKeeps ==
  ASSUME TypeOK, Owned, ReadersInv, [Next]_vars,
         NEW f \in draft.media \cup {draft.writing}, f \in disk,
         f \in draft'.media \cup {draft'.writing}, age[f] < FailedDelay, ~InRow(f)
  PROVE  f \in disk'
  <1>. SUFFICES ASSUME f \notin disk' PROVE FALSE
    OBVIOUS
  <1>1. \A id \in Msgs : f \notin rows[id].media
    BY DEF InRow
  <1>2. age[f] \in 0 .. FailedDelay /\ FailedDelay \in Nat
    BY StorageAssumption DEF TypeOK
  <1>3. \A id \in cleanup.todo : id \in Msgs
    BY DEF TypeOK, Cleanup
  <1>4. wk.pc = "confirmed" => wk.id \in Msgs
    BY DEF ReadersInv, WorkFit
  <1>5. user.act \in {"cancel", "resolve"} => user.id \in Msgs
    BY DEF ReadersInv, UserFit
  <1>. QED
    BY <1>1, <1>2, <1>3, <1>4, <1>5, WhoDeletes

\* A file some row has stays one.
LEMMA InRowStays ==
  ASSUME TypeOK, Owned, ReadersInv, [Next]_vars, NEW f, InRow(f)
  PROVE  InRow(f)'
  <1>1. PICK id \in Msgs : f \in rows[id].media
    BY DEF InRow
  <1>2. ~Inserts(id)
    BY <1>1 DEF Inserts, Owned
  <1>3. rows'[id].media = rows[id].media
    BY <1>2, RowsMove, TimePasses, RowAdded DEF RowsKept
  <1>. QED
    BY <1>1, <1>3 DEF InRow

LEMMA DraftKeeps ==
  ASSUME TypeOK, FilesInv, ReadersInv, [Next]_vars
  PROVE  DraftThere' /\ WritingThere'
  <1>. USE DEF FilesInv
  <1>1. ASSUME NEW f \in draft.media \cup {draft.writing}, f # NoFile,
               f \in draft'.media \cup {draft'.writing}, age'[f] < FailedDelay
        PROVE  f \in disk' \/ InRow(f)'
    <2>1. f \in used
      BY <1>1 DEF Owned
    <2>2. age[f] < FailedDelay
      BY <1>1, <2>1, OlderOnly, StorageAssumption
    <2>3. f \in disk \/ InRow(f)
      BY <1>1, <2>2 DEF DraftThere, WritingThere
    <2>. QED
      BY <1>1, <2>2, <2>3, FormKeeps, InRowStays
  <1>2. NoFile \notin draft.media
    BY StorageAssumption DEF TypeOK, Draft
  <1>3. \A id \in Msgs : draft'.writing \notin rows'[id].media
    BY OwnedKeeps DEF Owned
  <1>4. CASE draft'.media \subseteq draft.media /\ draft'.writing \in {draft.writing, NoFile}
    BY <1>1, <1>2, <1>3, <1>4 DEF DraftThere, WritingThere, InRow
  <1>5. ASSUME NEW f \in Files, BeginMedia(f) PROVE DraftThere' /\ WritingThere'
    <2>1. disk' = disk \cup {f} /\ draft'.media = draft.media /\ draft'.writing = f
      BY <1>5 DEF BeginMedia, TypeOK, Draft
    <2>. QED
      BY <1>1, <1>2, <2>1 DEF DraftThere, WritingThere, InRow
  <1>6. CASE FinishMedia
    <2>1. /\ draft.writing # NoFile /\ draft'.writing = NoFile
          /\ draft'.media \subseteq draft.media \cup {draft.writing}
      BY <1>6 DEF FinishMedia
    <2>. QED
      BY <1>1, <1>2, <2>1 DEF DraftThere, WritingThere, InRow
  <1>. QED
    BY <1>4, <1>5, <1>6, DraftMoves

\* Files that are gone do not come back: no name is given out twice.
LEMMA GoneStays ==
  ASSUME TypeOK, Owned, ReadersInv, [Next]_vars, NEW id \in Msgs, Status(id) # "UNUSED", Gone(id)
  PROVE  Gone(id)'
  <1>1. ~Inserts(id)
    BY DEF Inserts, Status
  <1>2. rows'[id].media = rows[id].media
    BY <1>1, RowsMove, TimePasses, RowAdded DEF RowsKept
  <1>3. disk' \ disk \subseteq Files \ used
    BY DEF Next, Compose, DispatchStep, UserStep, CleanupStep, BeginMedia, FinishMedia,
           AbortMedia, DropVoice, LeaveScreen, Schedule, ScheduleFails, Inserts, Claim, Requeue,
           MarkReview, MarkMissed, UserReads, Validate, CallEnds, DeleteSentMedia,
           UserDeletesFile, UserDeletesRow, UserResends, CleanupReads, CleanupDeletesFile,
           CleanupDeletesRow, Sweep, HalfDay, Crash, vars
  <1>. QED
    BY <1>2, <1>3 DEF Gone, Owned

LEMMA DeletedKeeps ==
  ASSUME TypeOK, Owned, ReadersInv, DeletedFirst, [Next]_vars
  PROVE  DeletedFirst'
  <1>1. ASSUME NEW id \in Msgs, user'.act # "none", user'.fileDone, user'.id = id
        PROVE  Gone(id)'
    <2>1. \/ UNCHANGED user \/ user'.fileDone = FALSE \/ UserDeletesFile
      <3>1. \/ UNCHANGED user \/ user' = NoOp \/ UserDeletesFile
            \/ \E n \in Msgs, act \in {"cancel", "resolve", "resend"} : UserReads(act, n)
        BY DEF Next, Compose, DispatchStep, UserStep, CleanupStep, BeginMedia, FinishMedia,
               AbortMedia, DropVoice, LeaveScreen, Schedule, ScheduleFails, Inserts, Claim,
               Requeue, MarkReview, MarkMissed, Validate, CallEnds, DeleteSentMedia,
               UserDeletesRow, UserResends, CleanupReads, CleanupDeletesFile, CleanupDeletesRow,
               Sweep, HalfDay, Crash, vars
      <3>2. NoOp.fileDone = FALSE
        BY DEF NoOp
      <3>3. ASSUME NEW n \in Msgs, NEW act, UserReads(act, n) PROVE user'.fileDone = FALSE
        BY <3>3 DEF UserReads, NoOp
      <3>. QED
        BY <3>1, <3>2, <3>3
    <2>2. CASE UNCHANGED user
      <3>1. user.id = id /\ Gone(id) /\ Status(id) # "UNUSED"
        BY <1>1, <2>2 DEF DeletedFirst, ReadersInv, UserFit
      <3>. QED
        BY <3>1, GoneStays
    <2>3. CASE UserDeletesFile
      <3>1. disk' = disk \ rows[user.id].media /\ UNCHANGED rows
            /\ user' = [user EXCEPT !.fileDone = TRUE]
        BY <2>3 DEF UserDeletesFile
      <3>2. user.id = id
        BY <1>1, <3>1 DEF TypeOK, UserOp
      <3>. QED
        BY <3>1, <3>2 DEF Gone
    <2>. QED
      BY <1>1, <2>1, <2>2, <2>3
  <1>2. ASSUME NEW id \in cleanup'.fileDone PROVE Gone(id)'
    <2>0. cleanup \in [pc : {"idle", "rows", "sweep"}, todo : SUBSET Msgs, fileDone : SUBSET Msgs]
      BY DEF TypeOK, Cleanup
    <2>1. id \in cleanup.fileDone \/ CleanupDeletesFile(id)
      <3>1. \/ UNCHANGED cleanup \/ cleanup' = NoCleanup \/ CleanupReads
            \/ \E n \in Msgs : CleanupDeletesFile(n) \/ CleanupDeletesRow(n)
        BY DEF Next, Compose, DispatchStep, UserStep, CleanupStep, BeginMedia, FinishMedia,
               AbortMedia, DropVoice, LeaveScreen, Schedule, ScheduleFails, Inserts, Claim,
               Requeue, MarkReview, MarkMissed, UserReads, Validate, CallEnds, DeleteSentMedia,
               UserDeletesFile, UserDeletesRow, UserResends, Sweep, HalfDay, Crash, vars
      <3>2. cleanup' = NoCleanup \/ CleanupReads => cleanup'.fileDone = {}
        BY DEF NoCleanup, CleanupReads
      <3>3. ASSUME NEW n \in Msgs, CleanupDeletesRow(n) PROVE cleanup'.fileDone = cleanup.fileDone
        BY <2>0, <3>3 DEF CleanupDeletesRow
      <3>4. ASSUME NEW n \in Msgs, CleanupDeletesFile(n)
            PROVE  cleanup'.fileDone = cleanup.fileDone \cup {n}
        BY <2>0, <3>4 DEF CleanupDeletesFile
      <3>. QED
        BY <1>2, <3>1, <3>2, <3>3, <3>4
    <2>2. CASE id \in cleanup.fileDone
      <3>1. id \in Msgs /\ Gone(id) /\ Status(id) # "UNUSED"
        BY <2>0, <2>2 DEF DeletedFirst, ReadersInv, CleanupFit
      <3>. QED
        BY <3>1, GoneStays
    <2>3. CASE CleanupDeletesFile(id)
      BY <2>3 DEF CleanupDeletesFile, Gone
    <2>. QED
      BY <2>1, <2>2, <2>3
  <1>3. ASSUME NEW id \in Msgs, Status(id)' = "ABSENT" PROVE Gone(id)'
    <2>1. Status(id) # "UNUSED"
      <3>1. ~Inserts(id)
        BY <1>3, RowAdded DEF Status
      <3>. QED
        BY <1>3, <3>1, RowsMove, TimePasses, RowAdded DEF RowsKept, Status
    <2>2. Status(id) = "ABSENT" => Gone(id)
      BY DEF DeletedFirst, NoMediaWithoutRow, Gone, Status
    <2>3. UserDeletesRow /\ user.id = id => Gone(id)
      BY DEF UserDeletesRow, DeletedFirst
    <2>4. CleanupDeletesRow(id) => Gone(id)
      BY DEF CleanupDeletesRow, DeletedFirst
    <2>5. ~Inserts(id)
      BY <2>1 DEF Inserts, Status
    <2>6. Gone(id)
      BY <1>3, <2>2, <2>3, <2>4, <2>5, StatusMoves
    <2>. QED
      BY <2>1, <2>6, GoneStays
  <1>4. user'.act # "none" => user'.id \in Msgs
    BY UserKeeps DEF UserFit
  <1>. QED
    BY <1>1, <1>2, <1>3, <1>4 DEF DeletedFirst, NoMediaWithoutRow, Gone, Status

LEMMA MediaKeeps ==
  ASSUME TypeOK, FilesInv, ReadersInv, MediaThere, [Next]_vars
  PROVE  MediaThere'
  <1>. USE DEF FilesInv
  <1>. SUFFICES ASSUME NEW id \in Msgs, NEW f \in rows'[id].media, Status(id)' \in Live,
                       id \notin excused', age'[f] < FailedDelay
                PROVE  f \in disk'
    BY DEF MediaThere, Status
  <1>1. CASE Inserts(id) /\ (Schedule(id) \/ ScheduleFails(id))
    <2>1. f \in draft.media /\ UNCHANGED <<age, disk>>
      BY <1>1, RowAdded DEF Inserts
    <2>2. ~InRow(f)
      BY <1>1, <2>1 DEF Schedule, ScheduleFails, Scheduled, InRow
    <2>. QED
      BY <2>1, <2>2 DEF DraftThere
  <1>2. CASE f \in rows[id].media
    <2>1. f \in rows[id].media /\ ~Inserts(id)
      BY <1>2 DEF Owned, Inserts
    <2>2. f \in used /\ f \in Files
      BY <2>1 DEF Owned, TypeOK
    <2>3. age[f] < FailedDelay /\ age[f] \in 0 .. FailedDelay /\ FailedDelay \in Nat
      BY <2>2, OlderOnly, StorageAssumption
    <2>4. Status(id) \in Live /\ id \notin excused
      BY <2>1, LiveBefore, ExcusedGrows
    <2>5. f \in disk
      BY <2>1, <2>3, <2>4 DEF MediaThere, Status
    <2>6. SUFFICES ASSUME f \notin disk' PROVE FALSE
      OBVIOUS
    <2>7. f \notin draft.media \cup {draft.writing}
      BY <2>1, <2>4 DEF Owned
    <2>8. ~(wk.pc = "confirmed" /\ f \in rows[wk.id].media)
      <3>1. SUFFICES ASSUME wk.pc = "confirmed", f \in rows[wk.id].media PROVE FALSE
        OBVIOUS
      <3>2. wk.id \in Msgs
        BY <3>1 DEF ReadersInv, WorkFit
      <3>3. wk.id = id
        BY <2>1, <2>4, <3>1, <3>2 DEF Owned
      <3>. QED
        BY <2>4, <3>1, <3>3 DEF ReadersInv, WorkFit, Live
    <2>9. ~(user.act \in {"cancel", "resolve"} /\ f \in rows[user.id].media)
      <3>1. SUFFICES ASSUME user.act \in {"cancel", "resolve"}, f \in rows[user.id].media PROVE FALSE
        OBVIOUS
      <3>2. user.id \in Msgs /\ user.id \in excused
        BY <3>1 DEF ReadersInv, UserFit
      <3>. QED
        BY <2>1, <2>4, <3>1, <3>2 DEF Owned
    <2>10. ASSUME NEW n \in cleanup.todo, f \in rows[n].media PROVE FALSE
      <3>1. n \in Msgs
        BY DEF TypeOK, Cleanup
      <3>2. n = id
        BY <2>1, <2>4, <2>10, <3>1 DEF Owned
      <3>3. Old(id)
        BY <2>4, <2>10, <3>2 DEF ReadersInv, CleanupFit, Live
      <3>. QED
        BY <2>1, <2>3, <3>3 DEF Old
    <2>. QED
      BY <2>3, <2>5, <2>6, <2>7, <2>8, <2>9, <2>10, WhoDeletes
  <1>3. CASE f \notin rows[id].media
    <2>1. ~RowsKept /\ ~HalfDay
      BY <1>3, TimePasses DEF RowsKept
    <2>2. PICK n \in Msgs : Inserts(n) /\ (Schedule(n) \/ ScheduleFails(n))
      BY <2>1, RowsMove
    <2>3. n = id
      BY <1>3, <2>2, RowAdded
    <2>. QED
      BY <1>1, <2>2, <2>3
  <1>. QED
    BY <1>2, <1>3

-----------------------------------------------------------------------------
(* The theorems *)

StorageInv == TypeOK /\ FilesInv /\ ReadersInv /\ DeletedFirst /\ MediaThere

LEMMA InitKeeps == Init => StorageInv
  <1>. SUFFICES ASSUME Init PROVE StorageInv
    OBVIOUS
  <1>1. \A id \in Msgs : rows[id] = [status |-> "UNUSED", media |-> {}, since |-> 0]
    BY DEF Init, Unused
  <1>2. draft = [media |-> {}, writing |-> NoFile]
    BY DEF Init, EmptyDraft
  <1>3. TypeOK
    <2>1. Unused \in Row /\ 0 \in 0 .. FailedDelay /\ 0 \in 0 .. MaxCrashes
      BY StorageAssumption DEF Unused, Row, Statuses
    <2>2. NoDispatch \in Dispatch /\ NoOp \in UserOp /\ NoCleanup \in Cleanup /\ EmptyDraft \in Draft
      BY DEF NoDispatch, Dispatch, NoOp, UserOp, NoCleanup, Cleanup, EmptyDraft, Draft
    <2>. QED
      BY <2>1, <2>2 DEF Init, TypeOK
  <1>4. FilesInv
    BY <1>1, <1>2 DEF FilesInv, Owned, Aged, DraftThere, WritingThere
  <1>5. ReadersInv
    BY DEF Init, ReadersInv, WorkFit, UserFit, CleanupFit, NoDispatch, NoOp, NoCleanup
  <1>6. DeletedFirst /\ MediaThere
    BY <1>1 DEF Init, DeletedFirst, MediaThere, NoMediaWithoutRow, NoOp, NoCleanup
  <1>. QED
    BY <1>3, <1>4, <1>5, <1>6 DEF StorageInv

LEMMA StorageInvariant == Spec => []StorageInv
  <1>1. StorageInv /\ [Next]_vars => StorageInv'
    <2>. SUFFICES ASSUME StorageInv, [Next]_vars PROVE StorageInv'
      OBVIOUS
    <2>. USE DEF StorageInv
    <2>1. TypeOK'
      BY TypeKeeps
    <2>2. FilesInv'
      BY OwnedKeeps, AgedKeeps, DraftKeeps DEF FilesInv
    <2>3. ReadersInv'
      BY WorkKeeps, UserKeeps, CleanupKeeps DEF ReadersInv, FilesInv
    <2>4. DeletedFirst' /\ MediaThere'
      BY DeletedKeeps, MediaKeeps DEF FilesInv
    <2>. QED
      BY <2>1, <2>2, <2>3, <2>4
  <1>. QED
    BY <1>1, InitKeeps, PTL DEF Spec

\* Every variable keeps its type; a file exists only under a name given out.
THEOREM TypeCorrect == Spec => []TypeOK
  BY StorageInvariant, PTL DEF StorageInv

\* The media of a message that may still be sent, retried or resent is there
\* until it is a day old, for any number of messages whose sends, reviews,
\* cleanups and crashes interleave (NodeBridge.kt:329-331).
THEOREM MediaIsThere == Spec => []MediaThere
  BY StorageInvariant, PTL DEF StorageInv

\* No file outlives its row: whoever deletes a row, the user or a cleanup
\* interrupted at any point, has deleted its files before.
THEOREM FilesGoFirst == Spec => []NoMediaWithoutRow
  <1>1. StorageInv => NoMediaWithoutRow
    BY DEF StorageInv, DeletedFirst
  <1>. QED
    BY <1>1, StorageInvariant, PTL

=============================================================================
