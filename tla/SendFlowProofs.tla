--------------------------- MODULE SendFlowProofs ---------------------------
(***************************************************************************)
(* Theorems about SendFlow, for every set of messages and workers, every   *)
(* threshold and every budget of stalls and faults.                        *)
(*                                                                         *)
(* The first part holds whatever the phone does: types, no false success,  *)
(* no resurrection.  The second, "Guards", is about a prompt phone: what   *)
(* the atomic claim, the staleness threshold, the retry cap and the tests  *)
(* of the user's actions achieve together for a text message.  None of its *)
(* properties is inductive.  The invariant they follow from, Orderly, says *)
(* of one message how the dispatch that holds it, its row, the counters    *)
(* outside, a resend in progress and the copies of a backstop pass fit     *)
(* together.                                                               *)
(***************************************************************************)
EXTENDS SendFlow, FiniteSetTheorems, TLAPS

(* What the statements of MessageDao do to the type of the table *)

LEMMA NoRowType == NoRow \in Row
  BY ThresholdsAssumption DEF NoRow, Row, Age, NoStamp, Window

LEMMA OlderType ==
  ASSUME NEW r \in Row
  PROVE  Older(r) \in Row /\ Older(r).status = r.status
  BY ThresholdsAssumption DEF Older, Row, Age, NoStamp

LEMMA AgeType == NoStamp \in Age /\ 0 \in Age
  BY ThresholdsAssumption DEF Age, NoStamp

LEMMA FieldTypes ==
  ASSUME NEW r \in Row
  PROVE  /\ \A s \in Statuses : [r EXCEPT !.status = s] \in Row
         /\ \A n \in Nat : [r EXCEPT !.attempts = n] \in Row
         /\ \A a \in Age : [r EXCEPT !.age = a] \in Row
         /\ \A w \in Window : [r EXCEPT !.window = w] \in Row
  BY DEF Row, Statuses

LEMMA ClaimType ==
  ASSUME NEW t \in Table, NEW id \in Ids
  PROVE  AtomicClaim(t, id) \in Table
  <1>. DEFINE r1 == [t[id] EXCEPT !.status = "CLAIMED"]
              r2 == [r1 EXCEPT !.attempts = t[id].attempts + 1]
              r3 == [r2 EXCEPT !.age = 0]
  <1>1. t[id] \in Row /\ t[id].attempts + 1 \in Nat
    BY DEF Table, Row
  <1>2. r1 \in Row
    BY <1>1, FieldTypes DEF Statuses, MessageStatus
  <1>3. r2 \in Row
    BY <1>1, <1>2, FieldTypes
  <1>4. r3 \in Row
    BY <1>3, AgeType, FieldTypes
  <1>5. AtomicClaim(t, id) = [t EXCEPT ![id] = r3]
    BY DEF AtomicClaim
  <1>. HIDE DEF r3
  <1>. QED
    BY <1>4, <1>5 DEF Table

LEMMA RetryToPendingType ==
  ASSUME NEW t \in Table, NEW id \in Ids
  PROVE  RetryToPending(t, id) \in Table
  BY DEF RetryToPending, Table, Row, MessageStatus

LEMMA UpdateRowType ==
  ASSUME NEW t \in Table, NEW id \in Ids, NEW row \in Row
  PROVE  UpdateRow(t, id, row) \in Table
  BY DEF UpdateRow, Table

LEMMA DeleteByIdType ==
  ASSUME NEW t \in Table, NEW id \in Ids
  PROVE  DeleteById(t, id) \in Table
  BY NoRowType DEF DeleteById, Table

LEMMA ReconcileTypes ==
  ASSUME NEW t \in Table
  PROVE  /\ RevertStalePreconditionRows(t) \in Table
         /\ MarkStaleSendingAsNeedsReview(t) \in Table
         /\ ReviveStaleRetryableRows(t) \in Table
  <1>. USE DEF Table
  <1>1. ASSUME NEW id \in Ids
        PROVE  [t[id] EXCEPT !.status = "PENDING", !.age = NoStamp] \in Row
    <2>1. t[id] \in Row
      OBVIOUS
    <2>. QED
      BY <2>1, AgeType DEF Row, MessageStatus
  <1>2. ASSUME NEW id \in Ids
        PROVE  /\ [t[id] EXCEPT !.status = "NEEDS_REVIEW"] \in Row
               /\ [t[id] EXCEPT !.status = "PENDING"] \in Row
    BY DEF Row, MessageStatus
  <1>3. RevertStalePreconditionRows(t) \in Table
    BY <1>1 DEF RevertStalePreconditionRows
  <1>4. MarkStaleSendingAsNeedsReview(t) \in Table
    BY <1>2 DEF MarkStaleSendingAsNeedsReview
  <1>5. ReviveStaleRetryableRows(t) \in Table
    BY <1>2 DEF ReviveStaleRetryableRows
  <1>. QED
    BY <1>3, <1>4, <1>5

(* What a dispatch coroutine can become *)

LEMMA IdleWorkerType == IdleWorker \in Worker /\ IdleWorker.pc = "idle"
  BY NoRowType DEF IdleWorker, Worker, PcVals, Statuses, Replies

LEMMA AfterUpdateType ==
  ASSUME NEW me \in Worker
  PROVE  /\ AfterUpdate(me) \in Worker
         /\ AfterUpdate(me).pc # "idle" => AfterUpdate(me).id = me.id
  BY NoRowType, IdleWorkerType
     DEF AfterUpdate, Worker, PcVals, Statuses, MessageStatus

-----------------------------------------------------------------------------
LEMMA InitTypeOK == Init => TypeOK
  BY NoRowType, IdleWorkerType
     DEF Init, TypeOK, Table, Backstop, IdleBackstop, UserAction, IdleUser, Live


\* One worker steps from me to a record of the same message: the conjuncts of
\* TypeOK about workers survive.
LEMMA PutType ==
  ASSUME TypeOK, NEW w \in Workers, NEW record \in Worker, Put(w, record),
         record.pc # "idle" => record.id \in Ids
  PROVE  /\ wk' \in [Workers -> Worker]
         /\ \A v \in Workers : Live(v)' => wk'[v].id \in Ids
  BY DEF TypeOK, Put, Live

LEMMA FinishType ==
  ASSUME TypeOK, NEW w \in Workers, Finish(w)
  PROVE  /\ wk' \in [Workers -> Worker]
         /\ \A v \in Workers : Live(v)' => wk'[v].id \in Ids
  BY PutType, IdleWorkerType DEF Finish

LEMMA SetStatusType ==
  ASSUME TypeOK, NEW w \in Workers, NEW record \in Worker, record.id \in Ids,
         NEW status \in Statuses, SetStatus(w, record, status)
  PROVE  /\ wk' \in [Workers -> Worker]
         /\ \A v \in Workers : Live(v)' => wk'[v].id \in Ids
  <1>. DEFINE new == [record EXCEPT !.pc = "update", !.next = status]
  <1>1. new \in Worker /\ new.id = record.id
    BY DEF Worker, PcVals, Statuses
  <1>. QED
    BY <1>1, PutType DEF SetStatus

\* The fields of a busy worker.
LEMMA BusyWorker ==
  ASSUME TypeOK, NEW w \in Workers, wk[w].pc # "idle"
  PROVE  /\ wk[w] \in Worker
         /\ wk[w].id \in Ids
         /\ db[wk[w].id] \in Row
  BY DEF TypeOK, Table, Live

\* A worker whose answer is taken or given up.
LEMMA ClearedWorker ==
  ASSUME NEW me \in Worker
  PROVE  /\ [me EXCEPT !.reply = "none", !.left = 0] \in Worker
         /\ [me EXCEPT !.reply = "none", !.left = 0].id = me.id
  <1>1. [me EXCEPT !.reply = "none"] \in Worker /\ [me EXCEPT !.reply = "none"].id = me.id
    BY DEF Worker, Replies
  <1>. QED
    BY <1>1 DEF Worker

LEMMA AnswerStatusType ==
  ASSUME NEW me
  PROVE  AnswerStatus(me) \in Statuses
  BY DEF AnswerStatus, FailureStatus, Statuses, MessageStatus

LEMMA CallThrowsType ==
  ASSUME TypeOK, NEW w \in Workers, wk[w].pc = "await", CallThrows(w)
  PROVE  TypeOK'
  <1>. DEFINE me == wk[w]
  <1>1. me \in Worker /\ me.id \in Ids
    BY BusyWorker
  <1>2. /\ wk' \in [Workers -> Worker]
        /\ \A v \in Workers : Live(v)' => wk'[v].id \in Ids
    BY <1>1, ClearedWorker, SetStatusType DEF CallThrows, Statuses, MessageStatus
  <1>3. abandoned' \in [Ids -> Nat]
    BY <1>1 DEF CallThrows, TypeOK
  <1>. QED
    BY <1>2, <1>3 DEF CallThrows, TypeOK, budgets

LEMMA ReconcileStepType ==
  ASSUME TypeOK, NEW pc, NEW table \in Table,
         NEW then \in {"idle", "mark", "revive", "due", "missed"},
         Reconcile(pc, table, then)
  PROVE  TypeOK'
  <1>1. bs' \in Backstop
    BY DEF Reconcile, TypeOK, Backstop
  <1>. QED
    BY <1>1 DEF Reconcile, TypeOK, Live, outside, budgets

LEMMA IdleTypes ==
  /\ IdleBackstop \in Backstop
  /\ IdleUser \in UserAction /\ IdleUser.act = "none"
  BY NoRowType DEF IdleBackstop, Backstop, IdleUser, UserAction

LEMMA WindowMoves ==
  ASSUME NEW id \in Ids, BecomesDue(id) \/ BecomesMissed(id)
  PROVE  \E w \in Window : db' = [db EXCEPT ![id] = [db[id] EXCEPT !.window = w]]
  <1>1. CASE BecomesDue(id)
    <2>1. db' = [db EXCEPT ![id] = [db[id] EXCEPT !.window = "due"]]
      BY <1>1 DEF BecomesDue
    <2>. QED
      BY <2>1 DEF Window
  <1>2. CASE BecomesMissed(id)
    <2>1. db' = [db EXCEPT ![id] = [db[id] EXCEPT !.window = "missed"]]
      BY <1>2 DEF BecomesMissed
    <2>. QED
      BY <2>1 DEF Window
  <1>. QED
    BY <1>1, <1>2

LEMMA NextTypeOK == TypeOK /\ [Next]_vars => TypeOK'
  <1>. SUFFICES ASSUME TypeOK, [Next]_vars PROVE TypeOK'
    OBVIOUS
  <1>. USE DEF outside, budgets
  <1>1. ASSUME NEW w \in Workers, NEW id \in Ids, Claim(w, id)
        PROVE  TypeOK'
    <2>1. [IdleWorker EXCEPT !.id = id] \in Worker /\ [IdleWorker EXCEPT !.id = id].id = id
      BY IdleWorkerType DEF Worker
    <2>2. AtomicClaim(db, id) \in Table
      BY ClaimType DEF TypeOK
    <2>3. /\ wk' \in [Workers -> Worker]
          /\ \A v \in Workers : Live(v)' => wk'[v].id \in Ids
      BY <1>1, <2>1, SetStatusType DEF Claim, Statuses, MessageStatus
    <2>. QED
      BY <1>1, <2>2, <2>3 DEF Claim, TypeOK
  <1>2. ASSUME NEW w \in Workers, UpdateRead(w)
        PROVE  TypeOK'
    <2>. DEFINE me == wk[w]
    <2>1. me \in Worker /\ me.id \in Ids
      BY <1>2 DEF TypeOK, UpdateRead, Live
    <2>2. [me EXCEPT !.pc = "write", !.snap = db[me.id]] \in Worker
      BY <2>1 DEF TypeOK, Table, Worker, PcVals
    <2>3. AfterUpdate(me) \in Worker /\ (AfterUpdate(me).pc # "idle" => AfterUpdate(me).id \in Ids)
      BY <2>1, AfterUpdateType
    <2>4. /\ wk' \in [Workers -> Worker]
          /\ \A v \in Workers : Live(v)' => wk'[v].id \in Ids
      <3>1. CASE db[me.id].status = "ABSENT"
        BY <1>2, <2>3, <3>1, PutType DEF UpdateRead
      <3>2. CASE db[me.id].status # "ABSENT"
        <4>1. [me EXCEPT !.pc = "write", !.snap = db[me.id]].id \in Ids
          BY <2>1 DEF Worker
        <4>. QED
          BY <1>2, <2>2, <3>2, <4>1, PutType DEF UpdateRead
      <3>. QED
        BY <3>1, <3>2
    <2>. QED
      BY <1>2, <2>4 DEF UpdateRead, TypeOK
  <1>3. ASSUME NEW w \in Workers, UpdateWrite(w)
        PROVE  TypeOK'
    <2>. DEFINE me == wk[w]
    <2>1. me \in Worker /\ me.id \in Ids
      BY <1>3 DEF TypeOK, UpdateWrite, Live
    <2>2. [me.snap EXCEPT !.status = me.next] \in Row
      BY <2>1 DEF Worker, Row, Statuses
    <2>3. db' \in Table
      BY <1>3, <2>1, <2>2, UpdateRowType DEF UpdateWrite, TypeOK
    <2>4. /\ wk' \in [Workers -> Worker]
          /\ \A v \in Workers : Live(v)' => wk'[v].id \in Ids
      BY <1>3, <2>1, AfterUpdateType, PutType DEF UpdateWrite
    <2>. QED
      BY <1>3, <2>3, <2>4 DEF UpdateWrite, TypeOK
  <1>4. ASSUME NEW w \in Workers, Load(w)
        PROVE  TypeOK'
    <2>. DEFINE me == wk[w]
                loaded == [me EXCEPT !.attempt = db[me.id].attempts]
    <2>1. me \in Worker /\ me.id \in Ids /\ db[me.id] \in Row
      BY <1>4, BusyWorker DEF Load
    <2>2. loaded \in Worker /\ loaded.id \in Ids
      BY <2>1 DEF Worker, Row
    <2>3. /\ wk' \in [Workers -> Worker]
          /\ \A v \in Workers : Live(v)' => wk'[v].id \in Ids
      <3>1. CASE Finish(w)
        BY <3>1, FinishType
      <3>2. CASE SetStatus(w, loaded, "CONNECTING")
        BY <3>2, <2>2, SetStatusType DEF Statuses, MessageStatus
      <3>3. CASE SetStatus(w, loaded, "FINAL_FAILURE")
        BY <3>3, <2>2, SetStatusType DEF Statuses, MessageStatus
      <3>. QED
        BY <1>4, <3>1, <3>2, <3>3 DEF Load
    <2>. QED
      BY <1>4, <2>3 DEF Load, TypeOK
  <1>5. ASSUME NEW w \in Workers, Call(w)
        PROVE  TypeOK'
    <2>. DEFINE me == wk[w]
                waiting == [me EXCEPT !.pc = "await", !.left = Timeout(me.id)]
    <2>1. me \in Worker /\ me.id \in Ids
      BY <1>5, BusyWorker DEF Call
    <2>2. waiting \in Worker /\ waiting.id \in Ids
      <3>1. Timeout(me.id) \in Nat
        BY SendFlowAssumption DEF Timeout
      <3>2. [me EXCEPT !.pc = "await"] \in Worker /\ [me EXCEPT !.pc = "await"].id = me.id
        BY <2>1 DEF Worker, PcVals
      <3>. QED
        BY <2>1, <3>1, <3>2 DEF Worker
    <2>3. /\ wk' \in [Workers -> Worker]
          /\ \A v \in Workers : Live(v)' => wk'[v].id \in Ids
      <3>1. CASE Put(w, waiting)
        BY <3>1, <2>2, PutType
      <3>2. CASE SetStatus(w, me, "FINAL_FAILURE")
        BY <3>2, <2>1, SetStatusType DEF Statuses, MessageStatus
      <3>3. CASE SetStatus(w, me, "NEEDS_REVIEW")
        BY <3>3, <2>1, SetStatusType DEF Statuses, MessageStatus
      <3>. QED
        BY <1>5, <3>1, <3>2, <3>3 DEF Call
    <2>4. calls' \in [Ids -> Nat]
      BY <1>5, <2>1 DEF Call, TypeOK
    <2>. QED
      BY <1>5, <2>3, <2>4 DEF Call, TypeOK
  <1>6. ASSUME NEW w \in Workers, Answer(w)
        PROVE  TypeOK'
    <2>. DEFINE me == wk[w]
    <2>1. me \in Worker /\ me.id \in Ids
      BY <1>6, BusyWorker DEF Answer
    <2>2. /\ wk' \in [Workers -> Worker]
          /\ \A v \in Workers : Live(v)' => wk'[v].id \in Ids
      BY <1>6, <2>1, ClearedWorker, AnswerStatusType, SetStatusType DEF Answer
    <2>. QED
      BY <1>6, <2>2 DEF Answer, TypeOK
  <1>7. ASSUME NEW w \in Workers, CallTimesOut(w) \/ CallBroken(w)
        PROVE  TypeOK'
    BY <1>7, CallThrowsType DEF CallTimesOut, CallBroken
  <1>8. ASSUME NEW w \in Workers, ScheduleRetry(w)
        PROVE  TypeOK'
    <2>1. retryWork' \subseteq Ids
      BY <1>8, BusyWorker DEF ScheduleRetry, TypeOK
    <2>2. /\ wk' \in [Workers -> Worker]
          /\ \A v \in Workers : Live(v)' => wk'[v].id \in Ids
      BY <1>8, FinishType DEF ScheduleRetry
    <2>. QED
      BY <1>8, <2>1, <2>2 DEF ScheduleRetry, TypeOK
  <1>9. ASSUME NEW w \in Workers, NodeDelivers(w) \/ NodeFails(w)
        PROVE  TypeOK'
    <2>1. wk[w] \in Worker /\ wk[w].id \in Ids
      BY <1>9, BusyWorker DEF NodeDelivers, NodeFails
    <2>2. ASSUME NEW r \in Replies
          PROVE  [wk[w] EXCEPT !.reply = r] \in Worker /\ [wk[w] EXCEPT !.reply = r].id \in Ids
      BY <2>1 DEF Worker
    <2>3. /\ wk' \in [Workers -> Worker]
          /\ \A v \in Workers : Live(v)' => wk'[v].id \in Ids
      BY <1>9, <2>2, PutType DEF NodeDelivers, NodeFails, Replies
    <2>4. delivered' \in [Ids -> Nat]
      BY <1>9, <2>1 DEF NodeDelivers, NodeFails, TypeOK
    <2>. QED
      BY <1>9, <2>3, <2>4 DEF NodeDelivers, NodeFails, TypeOK
  <1>10. ASSUME NEW id \in Ids, AbandonedSendEnds(id)
         PROVE  TypeOK'
    <2>1. abandoned' \in [Ids -> Nat] /\ delivered' \in [Ids -> Nat]
      BY <1>10 DEF AbandonedSendEnds, TypeOK
    <2>. QED
      BY <1>10, <2>1 DEF AbandonedSendEnds, TypeOK, Live
  <1>11. CASE BackstopStep
    <2>1. CASE ReconcileRevert \/ ReconcileMark \/ ReconcileRevive
      BY <2>1, ReconcileTypes, ReconcileStepType
         DEF ReconcileRevert, ReconcileMark, ReconcileRevive, TypeOK
    <2>2. CASE ReadDue
      <3>. DEFINE missed == {id \in DueMessages(db) : db[id].window = "missed"}
                  new == [pc |-> "missed", missed |-> missed,
                          copies |-> [id \in Ids |-> IF id \in missed THEN db[id] ELSE NoRow]]
      <3>1. missed \subseteq Ids
        BY DEF DueMessages
      <3>2. [id \in Ids |-> IF id \in missed THEN db[id] ELSE NoRow] \in [Ids -> Row]
        BY NoRowType DEF TypeOK, Table
      <3>3. new \in Backstop
        BY <3>1, <3>2 DEF Backstop
      <3>4. bs' \in Backstop
        BY <2>2, <3>3, IdleTypes DEF ReadDue
      <3>. QED
        BY <2>2, <3>4 DEF ReadDue, TypeOK, Live
    <2>3. ASSUME NEW id \in Ids, MarkMissed(id)
          PROVE  TypeOK'
      <3>1. [bs.copies[id] EXCEPT !.status = "FINAL_FAILURE"] \in Row
        BY FieldTypes DEF TypeOK, Backstop, Statuses, MessageStatus
      <3>2. db' \in Table
        BY <2>3, <3>1, UpdateRowType DEF MarkMissed, TypeOK
      <3>3. [bs EXCEPT !.missed = @ \ {id}, !.copies[id] = NoRow] \in Backstop
        BY NoRowType DEF TypeOK, Backstop
      <3>4. bs' \in Backstop
        BY <2>3, <3>3, IdleTypes DEF MarkMissed
      <3>. QED
        BY <2>3, <3>2, <3>4 DEF MarkMissed, TypeOK, Live
    <2>. QED
      BY <1>11, <2>1, <2>2, <2>3 DEF BackstopStep
  <1>12. ASSUME NEW id \in Ids, RetryRuns(id)
         PROVE  TypeOK'
    <2>1. db' \in Table
      BY <1>12, RetryToPendingType DEF RetryRuns, TypeOK
    <2>. QED
      BY <1>12, <2>1 DEF RetryRuns, TypeOK, Live
  <1>13. CASE User
    <2>1. ASSUME NEW id \in Ids, Schedule(id)
          PROVE  TypeOK'
      <3>1. NewRow \in Row
        BY NoRowType, FieldTypes DEF NewRow, Statuses, MessageStatus
      <3>2. db' \in Table /\ requested' \in [Ids -> Nat]
        BY <2>1, <3>1 DEF Schedule, TypeOK, Table
      <3>. QED
        BY <2>1, <3>2 DEF Schedule, TypeOK, Live
    <2>2. ASSUME NEW id \in Ids, NEW act \in {"cancel", "resolve", "resend"},
                 UserReads(act, id)
          PROVE  TypeOK'
      <3>1. user' \in UserAction /\ user'.id \in Ids
        BY <2>2 DEF UserReads, TypeOK, Table, UserAction
      <3>. QED
        BY <2>2, <3>1 DEF UserReads, TypeOK, Live
    <2>3. CASE UserDeletes
      <3>1. db' \in Table
        BY <2>3, DeleteByIdType DEF UserDeletes, TypeOK
      <3>. QED
        BY <2>3, <3>1, IdleTypes DEF UserDeletes, TypeOK, Live
    <2>4. CASE UserResends
      <3>. DEFINE r1 == [user.snap EXCEPT !.status = "PENDING"]
                  r2 == [r1 EXCEPT !.attempts = 0]
                  r3 == [r2 EXCEPT !.age = NoStamp]
                  r4 == [r3 EXCEPT !.window = "due"]
      <3>1. user.snap \in Row /\ user.id \in Ids
        BY <2>4 DEF UserResends, TypeOK, UserAction
      <3>2. r1 \in Row
        BY <3>1, FieldTypes DEF Statuses, MessageStatus
      <3>3. r2 \in Row
        BY <3>2, FieldTypes
      <3>4. r3 \in Row
        BY <3>3, AgeType, FieldTypes
      <3>5. r4 \in Row
        BY <3>4, FieldTypes DEF Window
      <3>6. db' = UpdateRow(db, user.id, r4)
        BY <2>4 DEF UserResends
      <3>. HIDE DEF r4
      <3>7. db' \in Table
        BY <3>1, <3>5, <3>6, UpdateRowType DEF TypeOK
      <3>8. requested' \in [Ids -> Nat] /\ calls' \in [Ids -> Nat]
        BY <2>4, <3>1 DEF UserResends, TypeOK
      <3>. QED
        BY <2>4, <3>7, <3>8, IdleTypes DEF UserResends, TypeOK, Live
    <2>. QED
      BY <1>13, <2>1, <2>2, <2>3, <2>4 DEF User
  <1>14. CASE Time
    <2>1. CASE Tick
      <3>1. db' \in Table
        BY <2>1, OlderType DEF Tick, TypeOK, Table
      <3>2. ASSUME NEW w \in Workers
            PROVE  /\ wk'[w] \in Worker
                   /\ wk'[w].pc = wk[w].pc /\ wk'[w].id = wk[w].id
        <4>. DEFINE me == wk[w]
                    m1 == [me EXCEPT !.snap = Older(me.snap)]
                    less == IF m1.left = 0 THEN 0 ELSE m1.left - 1
                    m2 == [m1 EXCEPT !.left = less]
        <4>1. me \in Worker /\ me.snap \in Row
          BY DEF TypeOK, Worker
        <4>2. m1 \in Worker /\ m1.pc = me.pc /\ m1.id = me.id
          BY <4>1, OlderType DEF Worker
        <4>3. less \in Nat
          BY <4>2 DEF Worker
        <4>4. wk'[w] = m2
          BY <2>1 DEF Tick
        <4>. HIDE DEF m1, less
        <4>5. m2 \in Worker /\ m2.pc = me.pc /\ m2.id = me.id
          BY <4>2, <4>3 DEF Worker
        <4>. QED
          BY <4>4, <4>5
      <3>3. wk' \in [Workers -> Worker]
        BY <2>1, <3>2 DEF Tick
      <3>4. user' \in UserAction /\ user'.act = user.act /\ user'.id = user.id
        <4>1. user \in UserAction /\ Older(user.snap) \in Row
          BY OlderType DEF TypeOK, UserAction
        <4>2. user' = [user EXCEPT !.snap = Older(user.snap)]
          BY <2>1 DEF Tick
        <4>. QED
          BY <4>1, <4>2 DEF UserAction
      <3>5. stalls' \in Nat
        <4>1. stalls' = stalls \/ stalls' = stalls + 1
          BY <2>1, Zenon DEF Tick
        <4>. QED
          BY <4>1 DEF TypeOK
      <3>. QED
        BY <2>1, <3>1, <3>2, <3>3, <3>4, <3>5 DEF Tick, TypeOK, Live
    <2>2. ASSUME NEW id \in Ids, BecomesDue(id) \/ BecomesMissed(id)
          PROVE  TypeOK'
      <3>1. PICK w \in Window : db' = [db EXCEPT ![id] = [db[id] EXCEPT !.window = w]]
        BY <2>2, WindowMoves
      <3>2. [db[id] EXCEPT !.window = w] \in Row
        BY FieldTypes DEF TypeOK, Table
      <3>3. db' \in Table
        BY <3>1, <3>2 DEF TypeOK, Table
      <3>. QED
        BY <2>2, <3>3 DEF BecomesDue, BecomesMissed, TypeOK, Live
    <2>. QED
      BY <1>14, <2>1, <2>2 DEF Time
  <1>15. ASSUME NEW w \in Workers, ScopeCancelled(w)
         PROVE  TypeOK'
    <2>1. abandoned' \in [Ids -> Nat] /\ faults' \in Nat
      BY <1>15, BusyWorker DEF ScopeCancelled, TypeOK
    <2>2. /\ wk' \in [Workers -> Worker]
          /\ \A v \in Workers : Live(v)' => wk'[v].id \in Ids
      BY <1>15, FinishType DEF ScopeCancelled
    <2>. QED
      BY <1>15, <2>1, <2>2 DEF ScopeCancelled, TypeOK
  <1>16. CASE ProcessDies
    <2>1. wk' \in [Workers -> Worker] /\ \A v \in Workers : ~Live(v)'
      BY <1>16, IdleWorkerType DEF ProcessDies, Live
    <2>2. abandoned' \in [Ids -> Nat] /\ faults' \in Nat
      BY <1>16 DEF ProcessDies, TypeOK
    <2>. QED
      BY <1>16, <2>1, <2>2, IdleTypes DEF ProcessDies, TypeOK
  <1>17. CASE UNCHANGED vars
    BY <1>17 DEF vars, TypeOK, Live
  <1>. QED
    BY <1>1, <1>2, <1>3, <1>4, <1>5, <1>6, <1>7, <1>8, <1>9, <1>10, <1>11, <1>12,
       <1>13, <1>14, <1>15, <1>16, <1>17
       DEF Next, Dispatch, Node, Faults

\* Type correctness: every column of every row, every copy of a row that a
\* dispatch, the backstop or the user holds, and every counter stay in their
\* types, for any messages, workers, thresholds and budgets.
THEOREM TypeCorrect == Spec => []TypeOK
  BY InitTypeOK, NextTypeOK, PTL DEF Spec

-----------------------------------------------------------------------------
(* No false success.  ConfirmedWasDelivered is not inductive: the status is *)
(* written steps after the answer that justifies it came in, and what ties  *)
(* the two is the evidence a worker carries from one to the other.          *)

Confirming(me) == me.pc # "idle" /\ (me.reply = "ok" \/ me.next = "SENT_CONFIRMED")

EvidenceHeld == \A w \in Workers : Confirming(wk[w]) => delivered[wk[w].id] > 0

ConfirmedInv == TypeOK /\ ConfirmedWasDelivered /\ EvidenceHeld

LEMMA ConfirmedInit == Init => ConfirmedWasDelivered /\ EvidenceHeld
  BY DEF Init, ConfirmedWasDelivered, EvidenceHeld, Confirming, NoRow, IdleWorker

\* What WhatsApp has got, it keeps.
LEMMA DeliveredGrows ==
  ASSUME TypeOK, [Next]_vars
  PROVE  \A id \in Ids : delivered[id] > 0 => delivered'[id] > 0
  <1>1. ASSUME NEW w \in Workers, NodeDelivers(w)
        PROVE  \A id \in Ids : delivered[id] > 0 => delivered'[id] > 0
    BY <1>1, BusyWorker DEF NodeDelivers, TypeOK
  <1>2. ASSUME NEW i \in Ids, AbandonedSendEnds(i)
        PROVE  \A id \in Ids : delivered[id] > 0 => delivered'[id] > 0
    BY <1>2 DEF AbandonedSendEnds, TypeOK
  <1>3. CASE UNCHANGED delivered
    BY <1>3
  <1>4. \/ \E w \in Workers : NodeDelivers(w)
        \/ \E i \in Ids : AbandonedSendEnds(i)
        \/ UNCHANGED delivered
    BY DEF Next, vars, outside, Dispatch, BackstopStep, Node, User, Time, Faults,
           Claim, UpdateRead, UpdateWrite, Load, Call, Answer, CallTimesOut,
           CallBroken, CallThrows, ScheduleRetry, NodeFails, ReconcileRevert,
           ReconcileMark, ReconcileRevive, Reconcile, ReadDue, MarkMissed, RetryRuns,
           Schedule, UserReads, UserDeletes, UserResends, Tick, BecomesDue,
           BecomesMissed, ProcessDies, ScopeCancelled
  <1>. QED
    BY <1>1, <1>2, <1>3, <1>4

\* The statements that never write SENT_CONFIRMED.
LEMMA NothingConfirmed ==
  ASSUME NEW t \in Table, NEW id \in Ids
  PROVE  /\ \A i \in Ids : AtomicClaim(t, id)[i].status = "SENT_CONFIRMED"
                           => t[i].status = "SENT_CONFIRMED"
         /\ \A i \in Ids : RetryToPending(t, id)[i].status = "SENT_CONFIRMED"
                           => t[i].status = "SENT_CONFIRMED"
         /\ \A i \in Ids : DeleteById(t, id)[i].status = "SENT_CONFIRMED"
                           => t[i].status = "SENT_CONFIRMED"
         /\ \A row \in Row : row.status # "SENT_CONFIRMED" =>
                \A i \in Ids : UpdateRow(t, id, row)[i].status = "SENT_CONFIRMED"
                              => t[i].status = "SENT_CONFIRMED"
  <1>1. \A i \in Ids : AtomicClaim(t, id)[i].status = "SENT_CONFIRMED"
                      => t[i].status = "SENT_CONFIRMED"
    <2>. DEFINE r1 == [t[id] EXCEPT !.status = "CLAIMED"]
                r2 == [r1 EXCEPT !.attempts = t[id].attempts + 1]
                r3 == [r2 EXCEPT !.age = 0]
    <2>1. r1.status = "CLAIMED" /\ r2.status = r1.status /\ r3.status = r2.status
      BY DEF Table, Row
    <2>2. AtomicClaim(t, id) = [t EXCEPT ![id] = r3]
      BY DEF AtomicClaim
    <2>. HIDE DEF r3
    <2>. QED
      BY <2>1, <2>2 DEF Table
  <1>2. \A i \in Ids : RetryToPending(t, id)[i].status = "SENT_CONFIRMED"
                      => t[i].status = "SENT_CONFIRMED"
    BY DEF RetryToPending, Table, Row
  <1>3. \A i \in Ids : DeleteById(t, id)[i].status = "SENT_CONFIRMED"
                      => t[i].status = "SENT_CONFIRMED"
    BY DEF DeleteById, Table, NoRow
  <1>4. ASSUME NEW row \in Row, row.status # "SENT_CONFIRMED"
        PROVE  \A i \in Ids : UpdateRow(t, id, row)[i].status = "SENT_CONFIRMED"
                             => t[i].status = "SENT_CONFIRMED"
    BY <1>4 DEF UpdateRow, Table
  <1>. QED
    BY <1>1, <1>2, <1>3, <1>4

LEMMA NothingConfirmedByReconcile ==
  ASSUME NEW t \in Table, NEW i \in Ids
  PROVE  /\ RevertStalePreconditionRows(t)[i].status = "SENT_CONFIRMED"
            => t[i].status = "SENT_CONFIRMED"
         /\ MarkStaleSendingAsNeedsReview(t)[i].status = "SENT_CONFIRMED"
            => t[i].status = "SENT_CONFIRMED"
         /\ ReviveStaleRetryableRows(t)[i].status = "SENT_CONFIRMED"
            => t[i].status = "SENT_CONFIRMED"
  <1>1. t[i] \in Row
    BY DEF Table
  <1>2. [[t[i] EXCEPT !.status = "PENDING"] EXCEPT !.age = NoStamp].status = "PENDING"
    BY <1>1 DEF Row
  <1>3. [t[i] EXCEPT !.status = "NEEDS_REVIEW"].status = "NEEDS_REVIEW"
    BY <1>1 DEF Row
  <1>4. [t[i] EXCEPT !.status = "PENDING"].status = "PENDING"
    BY <1>1 DEF Row
  <1>. QED
    BY <1>2, <1>3, <1>4 DEF RevertStalePreconditionRows,
       MarkStaleSendingAsNeedsReview, ReviveStaleRetryableRows

\* One worker changes and has the evidence for what it is about to claim.
LEMMA EvidencePut ==
  ASSUME TypeOK, [Next]_vars, EvidenceHeld, NEW w \in Workers, NEW record, Put(w, record),
         Confirming(record) => record.id \in Ids /\ delivered'[record.id] > 0
  PROVE  EvidenceHeld'
  <1>. SUFFICES ASSUME NEW v \in Workers, Confirming(wk'[v])
                PROVE  delivered'[wk'[v].id] > 0
    BY DEF EvidenceHeld, Confirming
  <1>1. CASE v = w
    BY <1>1 DEF Put, TypeOK
  <1>2. CASE v # w
    <2>1. wk'[v] = wk[v]
      BY <1>2 DEF Put, TypeOK
    <2>2. wk[v].id \in Ids
      BY <2>1 DEF TypeOK, Live, Confirming
    <2>. QED
      BY <2>1, <2>2, DeliveredGrows DEF EvidenceHeld
  <1>. QED
    BY <1>1, <1>2

LEMMA EvidenceSetStatus ==
  ASSUME TypeOK, [Next]_vars, EvidenceHeld, NEW w \in Workers,
         NEW record \in Worker, record.id \in Ids, NEW status,
         SetStatus(w, record, status),
         status = "SENT_CONFIRMED" \/ record.reply = "ok" => delivered'[record.id] > 0
  PROVE  EvidenceHeld'
  <1>. DEFINE new == [record EXCEPT !.pc = "update", !.next = status]
  <1>1. new.id = record.id /\ new.reply = record.reply /\ new.next = status
    BY DEF Worker
  <1>2. Put(w, new)
    BY DEF SetStatus
  <1>. HIDE DEF new
  <1>. QED
    BY <1>1, <1>2, EvidencePut DEF Confirming

LEMMA EvidenceFinish ==
  ASSUME TypeOK, [Next]_vars, EvidenceHeld, NEW w \in Workers, Finish(w)
  PROVE  EvidenceHeld'
  BY EvidencePut DEF Finish, Confirming, IdleWorker

LEMMA EvidenceUnchanged ==
  ASSUME TypeOK, [Next]_vars, EvidenceHeld, UNCHANGED wk
  PROVE  EvidenceHeld'
  <1>. SUFFICES ASSUME NEW v \in Workers, Confirming(wk[v])
                PROVE  delivered'[wk[v].id] > 0
    BY DEF EvidenceHeld, Confirming
  <1>. QED
    BY DeliveredGrows DEF EvidenceHeld, Confirming, TypeOK, Live

\* The rows: nothing new is confirmed.
LEMMA RowsKeep ==
  ASSUME TypeOK, [Next]_vars, ConfirmedWasDelivered,
         \A id \in Ids : db'[id].status = "SENT_CONFIRMED" => db[id].status = "SENT_CONFIRMED"
  PROVE  ConfirmedWasDelivered'
  BY DeliveredGrows DEF ConfirmedWasDelivered

LEMMA AfterUpdateEvidence ==
  ASSUME NEW me \in Worker
  PROVE  /\ AfterUpdate(me).next # "SENT_CONFIRMED"
         /\ AfterUpdate(me).pc # "idle" => /\ AfterUpdate(me).reply = me.reply
                                           /\ AfterUpdate(me).id = me.id
  BY DEF AfterUpdate, Worker, IdleWorker

LEMMA ConfirmedStep == ConfirmedInv /\ [Next]_vars => ConfirmedWasDelivered' /\ EvidenceHeld'
  <1>. SUFFICES ASSUME ConfirmedInv, [Next]_vars
                PROVE  ConfirmedWasDelivered' /\ EvidenceHeld'
    OBVIOUS
  <1>. USE DEF outside, budgets
  <1>0. TypeOK /\ ConfirmedWasDelivered /\ EvidenceHeld
    BY DEF ConfirmedInv
  <1>1. ASSUME NEW w \in Workers, NEW id \in Ids, Claim(w, id)
        PROVE  ConfirmedWasDelivered' /\ EvidenceHeld'
    <2>1. ConfirmedWasDelivered'
      BY <1>0, <1>1, NothingConfirmed, RowsKeep DEF Claim, TypeOK
    <2>2. [IdleWorker EXCEPT !.id = id] \in Worker /\ [IdleWorker EXCEPT !.id = id].id = id
          /\ [IdleWorker EXCEPT !.id = id].reply = "none"
      BY IdleWorkerType DEF Worker, IdleWorker
    <2>. QED
      BY <1>0, <1>1, <2>1, <2>2, EvidenceSetStatus DEF Claim
  <1>2. ASSUME NEW w \in Workers, UpdateRead(w)
        PROVE  ConfirmedWasDelivered' /\ EvidenceHeld'
    <2>. DEFINE me == wk[w]
                read == [me EXCEPT !.pc = "write", !.snap = db[me.id]]
    <2>1. me \in Worker /\ me.id \in Ids /\ me.pc # "idle"
      BY <1>0, <1>2, BusyWorker DEF UpdateRead
    <2>2. Confirming(me) => delivered'[me.id] > 0
      BY <1>0, <2>1, DeliveredGrows DEF EvidenceHeld
    <2>3. Confirming(AfterUpdate(me)) => AfterUpdate(me).id = me.id /\ Confirming(me)
      BY <2>1, AfterUpdateEvidence DEF Confirming
    <2>4. Confirming(read) => read.id = me.id /\ Confirming(me)
      BY <2>1 DEF Confirming, Worker
    <2>5. Put(w, AfterUpdate(me)) \/ Put(w, read)
      BY <1>2 DEF UpdateRead
    <2>. HIDE DEF read
    <2>6. EvidenceHeld'
      BY <1>0, <2>1, <2>2, <2>3, <2>4, <2>5, EvidencePut
    <2>7. ConfirmedWasDelivered'
      BY <1>0, <1>2, RowsKeep DEF UpdateRead
    <2>. QED
      BY <2>6, <2>7
  <1>3. ASSUME NEW w \in Workers, UpdateWrite(w)
        PROVE  ConfirmedWasDelivered' /\ EvidenceHeld'
    <2>. DEFINE me == wk[w]
                row == [me.snap EXCEPT !.status = me.next]
    <2>1. me \in Worker /\ me.id \in Ids /\ me.pc # "idle"
      BY <1>0, <1>3, BusyWorker DEF UpdateWrite
    <2>2. Confirming(me) => delivered'[me.id] > 0
      BY <1>0, <2>1, DeliveredGrows DEF EvidenceHeld
    <2>3. Confirming(AfterUpdate(me)) => AfterUpdate(me).id = me.id /\ Confirming(me)
      BY <2>1, AfterUpdateEvidence DEF Confirming
    <2>4. EvidenceHeld'
      BY <1>0, <1>3, <2>1, <2>2, <2>3, EvidencePut DEF UpdateWrite
    <2>5. row.status = me.next /\ db' = UpdateRow(db, me.id, row)
      BY <1>3, <2>1 DEF UpdateWrite, Worker, Row
    <2>. HIDE DEF row
    <2>6. ASSUME NEW id \in Ids, db'[id].status = "SENT_CONFIRMED"
          PROVE  delivered'[id] > 0
      <3>1. CASE db[id].status = "SENT_CONFIRMED"
        BY <1>0, <3>1, DeliveredGrows DEF ConfirmedWasDelivered
      <3>2. CASE db[id].status # "SENT_CONFIRMED"
        <4>1. id = me.id /\ me.next = "SENT_CONFIRMED"
          BY <1>0, <2>1, <2>5, <2>6, <3>2 DEF UpdateRow, TypeOK, Table
        <4>. QED
          BY <2>1, <2>2, <4>1 DEF Confirming
      <3>. QED
        BY <3>1, <3>2
    <2>. QED
      BY <2>4, <2>6 DEF ConfirmedWasDelivered
  <1>4. ASSUME NEW w \in Workers, Load(w) \/ Call(w) \/ Answer(w) \/ CallTimesOut(w)
                                   \/ CallBroken(w) \/ ScheduleRetry(w)
        PROVE  ConfirmedWasDelivered' /\ EvidenceHeld'
    <2>. DEFINE me == wk[w]
    <2>0. db' = db
      BY <1>4 DEF Load, Call, Answer, CallTimesOut, CallBroken, CallThrows, ScheduleRetry
    <2>1. ConfirmedWasDelivered'
      BY <1>0, <2>0, RowsKeep
    <2>2. me \in Worker /\ me.id \in Ids /\ me.pc # "idle"
      BY <1>0, <1>4, BusyWorker
         DEF Load, Call, Answer, CallTimesOut, CallBroken, ScheduleRetry
    <2>3. Confirming(me) => delivered'[me.id] > 0
      BY <1>0, <2>2, DeliveredGrows DEF EvidenceHeld
    <2>4. CASE Load(w)
      <3>. DEFINE loaded == [me EXCEPT !.attempt = db[me.id].attempts]
      <3>1. loaded \in Worker /\ loaded.id = me.id /\ loaded.reply = me.reply
        BY <1>0, <2>2 DEF Worker, TypeOK, Table, Row
      <3>2. \/ Finish(w)
            \/ \E s \in {"CONNECTING", "FINAL_FAILURE"} : SetStatus(w, loaded, s)
        BY <2>4 DEF Load
      <3>. HIDE DEF loaded
      <3>. QED
        BY <1>0, <2>1, <2>2, <2>3, <3>1, <3>2, EvidenceFinish, EvidenceSetStatus DEF Confirming
    <2>5. CASE Call(w)
      <3>. DEFINE waiting == [me EXCEPT !.pc = "await", !.left = Timeout(me.id)]
      <3>1. Confirming(waiting) => waiting.id = me.id /\ Confirming(me)
        BY <2>2 DEF Confirming, Worker
      <3>2. \/ Put(w, waiting)
            \/ \E s \in {"NEEDS_REVIEW", "FINAL_FAILURE"} : SetStatus(w, me, s)
        BY <2>5 DEF Call
      <3>. HIDE DEF waiting
      <3>3. CASE Put(w, waiting)
        BY <1>0, <2>1, <2>2, <2>3, <3>1, <3>3, EvidencePut
      <3>4. ASSUME NEW s \in {"NEEDS_REVIEW", "FINAL_FAILURE"}, SetStatus(w, me, s)
            PROVE  EvidenceHeld'
        BY <1>0, <2>2, <2>3, <3>4, EvidenceSetStatus DEF Confirming
      <3>. QED
        BY <2>1, <3>2, <3>3, <3>4
    <2>6. CASE Answer(w)
      <3>. DEFINE answered == [me EXCEPT !.reply = "none", !.left = 0]
      <3>1. answered \in Worker /\ answered.id = me.id /\ answered.reply = "none"
        BY <2>2, ClearedWorker DEF Worker
      <3>2. SetStatus(w, answered, AnswerStatus(me))
        BY <2>6 DEF Answer
      <3>3. AnswerStatus(me) = "SENT_CONFIRMED" => me.reply = "ok"
        BY DEF AnswerStatus, FailureStatus
      <3>. HIDE DEF answered
      <3>. QED
        BY <1>0, <2>1, <2>2, <2>3, <3>1, <3>2, <3>3, EvidenceSetStatus DEF Confirming
    <2>7. CASE CallTimesOut(w) \/ CallBroken(w)
      <3>. DEFINE answered == [me EXCEPT !.reply = "none", !.left = 0]
      <3>1. answered \in Worker /\ answered.id = me.id /\ answered.reply = "none"
        BY <2>2, ClearedWorker DEF Worker
      <3>2. SetStatus(w, answered, "NEEDS_REVIEW")
        BY <2>7 DEF CallTimesOut, CallBroken, CallThrows
      <3>. HIDE DEF answered
      <3>. QED
        BY <1>0, <2>1, <2>2, <3>1, <3>2, EvidenceSetStatus
    <2>8. CASE ScheduleRetry(w)
      BY <1>0, <2>1, <2>8, EvidenceFinish DEF ScheduleRetry
    <2>. QED
      BY <1>4, <2>4, <2>5, <2>6, <2>7, <2>8
  <1>5. ASSUME NEW w \in Workers, NodeDelivers(w) \/ NodeFails(w)
        PROVE  ConfirmedWasDelivered' /\ EvidenceHeld'
    <2>. DEFINE me == wk[w]
    <2>1. me \in Worker /\ me.id \in Ids /\ me.pc # "idle" /\ db' = db
      BY <1>0, <1>5, BusyWorker DEF NodeDelivers, NodeFails
    <2>2. ConfirmedWasDelivered'
      BY <1>0, <2>1, RowsKeep
    <2>3. Confirming(me) => delivered'[me.id] > 0
      BY <1>0, <2>1, DeliveredGrows DEF EvidenceHeld
    <2>4. CASE NodeDelivers(w)
      <3>1. delivered'[me.id] > 0
        BY <1>0, <2>1, <2>4 DEF NodeDelivers, TypeOK
      <3>2. [me EXCEPT !.reply = "ok"].id = me.id
        BY <2>1 DEF Worker
      <3>. QED
        BY <1>0, <2>1, <2>2, <2>4, <3>1, <3>2, EvidencePut DEF NodeDelivers
    <2>5. ASSUME NEW r \in {"retryable", "final"}, Put(w, [me EXCEPT !.reply = r])
          PROVE  EvidenceHeld'
      <3>. DEFINE failed == [me EXCEPT !.reply = r]
      <3>1. Confirming(failed) => failed.id = me.id /\ Confirming(me)
        BY <2>1, <2>5 DEF Confirming, Worker
      <3>. HIDE DEF failed
      <3>. QED
        BY <1>0, <2>1, <2>3, <2>5, <3>1, EvidencePut DEF failed
    <2>. QED
      BY <1>5, <2>2, <2>4, <2>5 DEF NodeFails
  <1>6. CASE BackstopStep \/ (\E id \in Ids : RetryRuns(id) \/ AbandonedSendEnds(id)) \/ User
    <2>1. UNCHANGED wk
      BY <1>6 DEF BackstopStep, ReconcileRevert, ReconcileMark, ReconcileRevive, Reconcile,
         ReadDue, MarkMissed, RetryRuns, AbandonedSendEnds, User, Schedule, UserReads,
         UserDeletes, UserResends
    <2>2. EvidenceHeld'
      BY <1>0, <2>1, EvidenceUnchanged
    <2>. DEFINE Kept == \A id \in Ids : db'[id].status = "SENT_CONFIRMED"
                                       => db[id].status = "SENT_CONFIRMED"
    <2>3. ASSUME BackstopStep
          PROVE  Kept
      <3>1. CASE ReconcileRevert \/ ReconcileMark \/ ReconcileRevive
        BY <1>0, <3>1, NothingConfirmedByReconcile
           DEF ReconcileRevert, ReconcileMark, ReconcileRevive, Reconcile, TypeOK
      <3>2. CASE ReadDue
        BY <3>2 DEF ReadDue
      <3>3. ASSUME NEW id \in Ids, MarkMissed(id)
            PROVE  Kept
        <4>. DEFINE row == [bs.copies[id] EXCEPT !.status = "FINAL_FAILURE"]
        <4>1. bs.copies[id] \in Row
          BY <1>0 DEF TypeOK, Backstop
        <4>2. row \in Row /\ row.status # "SENT_CONFIRMED"
          BY <4>1, FieldTypes DEF Row, Statuses, MessageStatus
        <4>3. db' = UpdateRow(db, id, row)
          BY <3>3 DEF MarkMissed
        <4>. HIDE DEF row
        <4>. QED
          BY <1>0, <4>2, <4>3, NothingConfirmed DEF TypeOK
      <3>. QED
        BY <2>3, <3>1, <3>2, <3>3 DEF BackstopStep
    <2>4. ASSUME NEW id \in Ids, RetryRuns(id) \/ AbandonedSendEnds(id)
          PROVE  Kept
      BY <1>0, <2>4, NothingConfirmed DEF RetryRuns, AbandonedSendEnds, TypeOK
    <2>5. ASSUME User
          PROVE  Kept
      <3>1. ASSUME NEW id \in Ids, Schedule(id)
            PROVE  Kept
        <4>1. NewRow.status = "PENDING"
          BY DEF NewRow, NoRow
        <4>. QED
          BY <1>0, <3>1, <4>1 DEF Schedule, TypeOK, Table
      <3>2. ASSUME NEW id \in Ids, NEW act \in {"cancel", "resolve", "resend"}, UserReads(act, id)
            PROVE  Kept
        BY <3>2 DEF UserReads
      <3>3. CASE UserDeletes
        BY <1>0, <3>3, NothingConfirmed DEF UserDeletes, TypeOK
      <3>4. CASE UserResends
        <4>. DEFINE r1 == [user.snap EXCEPT !.status = "PENDING"]
                    r2 == [r1 EXCEPT !.attempts = 0]
                    r3 == [r2 EXCEPT !.age = NoStamp]
                    r4 == [r3 EXCEPT !.window = "due"]
        <4>1. user.snap \in Row /\ user.id \in Ids
          BY <1>0, <3>4 DEF UserResends, TypeOK, UserAction
        <4>2. r1 \in Row /\ r1.status = "PENDING"
          BY <4>1, FieldTypes DEF Row, Statuses, MessageStatus
        <4>3. r2 \in Row /\ r2.status = "PENDING"
          BY <4>2, FieldTypes DEF Row
        <4>4. r3 \in Row /\ r3.status = "PENDING"
          BY <4>3, AgeType, FieldTypes DEF Row
        <4>5. r4 \in Row /\ r4.status = "PENDING"
          BY <4>4, FieldTypes DEF Row, Window
        <4>6. db' = UpdateRow(db, user.id, r4)
          BY <3>4 DEF UserResends
        <4>. HIDE DEF r4
        <4>. QED
          BY <1>0, <4>1, <4>5, <4>6, NothingConfirmed DEF TypeOK
      <3>. QED
        BY <2>5, <3>1, <3>2, <3>3, <3>4 DEF User
    <2>6. Kept
      BY <1>6, <2>3, <2>4, <2>5
    <2>. QED
      BY <1>0, <2>2, <2>6, RowsKeep
  <1>7. CASE Time
    <2>1. CASE Tick
      <3>1. \A id \in Ids : db'[id].status = db[id].status
        BY <1>0, <2>1, OlderType DEF Tick, TypeOK, Table
      <3>2. ASSUME NEW w \in Workers
            PROVE  /\ wk'[w].pc = wk[w].pc /\ wk'[w].id = wk[w].id
                   /\ wk'[w].reply = wk[w].reply /\ wk'[w].next = wk[w].next
        <4>. DEFINE me == wk[w]
                    m1 == [me EXCEPT !.snap = Older(me.snap)]
                    m2 == [m1 EXCEPT !.left = IF m1.left = 0 THEN 0 ELSE m1.left - 1]
        <4>1. me \in Worker
          BY <1>0 DEF TypeOK
        <4>2. /\ m2.pc = me.pc /\ m2.id = me.id
              /\ m2.reply = me.reply /\ m2.next = me.next
          BY <4>1 DEF Worker
        <4>3. wk'[w] = m2
          BY <2>1 DEF Tick
        <4>. QED
          BY <4>2, <4>3
      <3>3. delivered' = delivered
        BY <2>1 DEF Tick
      <3>4. EvidenceHeld'
        BY <1>0, <3>2, <3>3 DEF EvidenceHeld, Confirming
      <3>. QED
        BY <1>0, <3>1, <3>4, RowsKeep
    <2>2. ASSUME NEW id \in Ids, BecomesDue(id) \/ BecomesMissed(id)
          PROVE  ConfirmedWasDelivered' /\ EvidenceHeld'
      <3>1. UNCHANGED wk
        BY <2>2 DEF BecomesDue, BecomesMissed
      <3>2. PICK w \in Window : db' = [db EXCEPT ![id] = [db[id] EXCEPT !.window = w]]
        BY <2>2, WindowMoves
      <3>3. [db[id] EXCEPT !.window = w].status = db[id].status
        BY <1>0 DEF TypeOK, Table, Row
      <3>4. \A i \in Ids : db'[i].status = db[i].status
        BY <1>0, <3>2, <3>3 DEF TypeOK, Table
      <3>. QED
        BY <1>0, <3>1, <3>4, RowsKeep, EvidenceUnchanged
    <2>. QED
      BY <1>7, <2>1, <2>2 DEF Time
  <1>8. ASSUME NEW w \in Workers, ScopeCancelled(w)
        PROVE  ConfirmedWasDelivered' /\ EvidenceHeld'
    BY <1>0, <1>8, RowsKeep, EvidenceFinish DEF ScopeCancelled
  <1>9. CASE ProcessDies
    <2>1. \A w \in Workers : ~Confirming(wk'[w])
      BY <1>9 DEF ProcessDies, Confirming, IdleWorker
    <2>2. EvidenceHeld'
      BY <2>1 DEF EvidenceHeld, Confirming
    <2>. QED
      BY <1>0, <1>9, <2>2, RowsKeep DEF ProcessDies
  <1>10. CASE UNCHANGED vars
    BY <1>0, <1>10, RowsKeep, EvidenceUnchanged DEF vars
  <1>. QED
    BY <1>1, <1>2, <1>3, <1>4, <1>5, <1>6, <1>7, <1>8, <1>9, <1>10
       DEF Next, Dispatch, Node, Faults

\* No false success (NodeBridge.kt:321-322): a row that says SENT_CONFIRMED is
\* of a message WhatsApp got, for any number of messages and dispatches, media
\* or text, under any stall, late dispatch, fault or lost update.
THEOREM NoFalseSuccess == Spec => []ConfirmedWasDelivered
  <1>1. Init => ConfirmedInv
    BY InitTypeOK, ConfirmedInit DEF ConfirmedInv
  <1>2. ConfirmedInv /\ [Next]_vars => ConfirmedInv'
    BY NextTypeOK, ConfirmedStep DEF ConfirmedInv
  <1>3. ConfirmedInv => ConfirmedWasDelivered
    BY DEF ConfirmedInv
  <1>. QED
    BY <1>1, <1>2, <1>3, PTL DEF Spec

-----------------------------------------------------------------------------
(* A deleted row stays deleted: no statement makes a row where there is     *)
(* none, whatever copies are written back; only Schedule does, once.        *)

LEMMA NoRowFromNothing ==
  ASSUME NEW t \in Table, NEW i \in Ids, t[i].status = "ABSENT", NEW id \in Ids
  PROVE  /\ Claimable(t, id) => AtomicClaim(t, id)[i].status = "ABSENT"
         /\ RetryToPending(t, id)[i].status = "ABSENT"
         /\ DeleteById(t, id)[i].status = "ABSENT"
         /\ \A row : UpdateRow(t, id, row)[i].status = "ABSENT"
  <1>1. ASSUME Claimable(t, id)
        PROVE  AtomicClaim(t, id)[i].status = "ABSENT"
    <2>1. id # i
      BY <1>1 DEF Claimable
    <2>. QED
      BY <2>1 DEF AtomicClaim, Table
  <1>2. RetryToPending(t, id)[i].status = "ABSENT"
    BY DEF RetryToPending, Table
  <1>3. DeleteById(t, id)[i].status = "ABSENT"
    BY DEF DeleteById, Table, NoRow
  <1>4. ASSUME NEW row
        PROVE  UpdateRow(t, id, row)[i].status = "ABSENT"
    BY DEF UpdateRow, Table
  <1>. QED
    BY <1>1, <1>2, <1>3, <1>4

LEMMA NoRowFromReconcile ==
  ASSUME NEW t \in Table, NEW i \in Ids, t[i].status = "ABSENT"
  PROVE  /\ RevertStalePreconditionRows(t)[i].status = "ABSENT"
         /\ MarkStaleSendingAsNeedsReview(t)[i].status = "ABSENT"
         /\ ReviveStaleRetryableRows(t)[i].status = "ABSENT"
  BY DEF RevertStalePreconditionRows, MarkStaleSendingAsNeedsReview, ReviveStaleRetryableRows,
         StalePrecondition, StaleSending, StrandedRetry

LEMMA DeletedStep ==
  ASSUME TypeOK, [Next]_vars, NEW i \in Ids, requested[i] > 0, db[i].status = "ABSENT"
  PROVE  db'[i].status = "ABSENT"
  <1>. USE DEF outside, budgets
  <1>0. db \in Table
    BY DEF TypeOK
  <1>1. ASSUME NEW w \in Workers, NEW id \in Ids, Claim(w, id)
        PROVE  db'[i].status = "ABSENT"
    BY <1>0, <1>1, NoRowFromNothing DEF Claim
  <1>2. ASSUME NEW w \in Workers, UpdateWrite(w)
        PROVE  db'[i].status = "ABSENT"
    <2>1. wk[w].id \in Ids
      BY <1>2 DEF UpdateWrite, TypeOK, Live
    <2>. QED
      BY <1>0, <1>2, <2>1, NoRowFromNothing DEF UpdateWrite
  <1>3. CASE ReconcileRevert \/ ReconcileMark \/ ReconcileRevive
    BY <1>0, <1>3, NoRowFromReconcile
       DEF ReconcileRevert, ReconcileMark, ReconcileRevive, Reconcile
  <1>4. ASSUME NEW id \in Ids, MarkMissed(id)
        PROVE  db'[i].status = "ABSENT"
    BY <1>0, <1>4, NoRowFromNothing DEF MarkMissed
  <1>5. ASSUME NEW id \in Ids, RetryRuns(id)
        PROVE  db'[i].status = "ABSENT"
    BY <1>0, <1>5, NoRowFromNothing DEF RetryRuns
  <1>6. ASSUME NEW id \in Ids, Schedule(id)
        PROVE  db'[i].status = "ABSENT"
    <2>1. id # i
      BY <1>6 DEF Schedule
    <2>. QED
      BY <1>0, <1>6, <2>1 DEF Schedule, Table
  <1>7. CASE UserDeletes \/ UserResends
    <2>1. user.id \in Ids
      BY <1>7 DEF UserDeletes, UserResends, TypeOK
    <2>. QED
      BY <1>0, <1>7, <2>1, NoRowFromNothing DEF UserDeletes, UserResends
  <1>8. CASE Tick
    <2>1. db' = [id \in Ids |-> Older(db[id])]
      BY <1>8, Zenon DEF Tick
    <2>. QED
      BY <1>0, <2>1, OlderType DEF Table
  <1>9. ASSUME NEW id \in Ids, BecomesDue(id) \/ BecomesMissed(id)
        PROVE  db'[i].status = "ABSENT"
    <2>1. id # i
      BY <1>9 DEF BecomesDue, BecomesMissed
    <2>. QED
      BY <1>0, <1>9, <2>1 DEF BecomesDue, BecomesMissed, Table
  <1>10. ASSUME UNCHANGED db
         PROVE  db'[i].status = "ABSENT"
    BY <1>10
  <1>11. ASSUME NEW w \in Workers,
                UpdateRead(w) \/ Load(w) \/ Call(w) \/ Answer(w) \/ CallTimesOut(w)
                \/ ScheduleRetry(w) \/ NodeDelivers(w) \/ NodeFails(w) \/ ScopeCancelled(w)
                \/ CallBroken(w)
         PROVE  UNCHANGED db
    BY <1>11 DEF UpdateRead, Load, Call, Answer, CallTimesOut, CallThrows, ScheduleRetry,
                 NodeDelivers, NodeFails, ScopeCancelled, CallBroken
  <1>12. ASSUME ReadDue \/ ProcessDies \/ (\E id \in Ids : AbandonedSendEnds(id))
                \/ (\E id \in Ids, act \in {"cancel", "resolve", "resend"} : UserReads(act, id))
         PROVE  UNCHANGED db
    BY <1>12 DEF ReadDue, ProcessDies, AbandonedSendEnds, UserReads
  <1>. QED
    BY <1>1, <1>2, <1>3, <1>4, <1>5, <1>6, <1>7, <1>8, <1>9, <1>10, <1>11, <1>12
       DEF Next, Dispatch, BackstopStep, Node, User, Time, Faults, vars

\* A message the user has cancelled or resolved does not come back, although
\* dispatches, the backstop and a resend write whole rows from copies they
\* took before the deletion (ScheduleRepository.kt:60-74, 193-246).
THEOREM NoResurrection == Spec => DeletedStaysDeleted
  <1>1. TypeOK /\ [Next]_vars
        => [\A id \in Ids : (requested[id] > 0 /\ db[id].status = "ABSENT")
                            => db'[id].status = "ABSENT"]_vars
    BY DeletedStep
  <1>. QED
    BY <1>1, TypeCorrect, PTL DEF Spec, DeletedStaysDeleted

-----------------------------------------------------------------------------
(* Guards *)

HeldBy(w, id) == Holding(w) /\ wk[w].id = id

\* Deliveries, made or still possible, that Kotlin no longer controls.
Outside(id) == delivered[id] + abandoned[id]

Writing(me) == me.pc \in {"update", "write"}
Retrying(me) == Writing(me) /\ me.next = "RETRYABLE_FAILURE"

\* Node has not been called yet.
PreCall(me) ==
    \/ me.pc \in {"load", "call"}
    \/ Writing(me) /\ me.next \in {"CLAIMED", "CONNECTING", "SENDING"}

\* The message has been loaded, and Node has not been called yet.
Loaded(me) ==
    \/ me.pc = "call"
    \/ Writing(me) /\ me.next \in {"CONNECTING", "SENDING"}

\* The status in which a dispatch finds its row, if there still is one.
Found(me) ==
    CASE me.pc = "load" -> "CLAIMED"
      [] Writing(me) /\ me.next \in {"CLAIMED", "CONNECTING"} -> "CLAIMED"
      [] Writing(me) /\ me.next = "SENDING" -> "CONNECTING"
      [] OTHER -> "SENDING"

\* What a dispatch knows of its row r: the status; a stamp that no pass of
\* reconcile finds stale, now or when the call times out; and that one more
\* call has been counted in the row.
RowOfHolder(me, r, n) ==
    /\ r.status = Found(me)
    /\ r.age # NoStamp
    /\ PreCall(me) => r.age = 0 /\ n < r.attempts
    /\ ~PreCall(me) => n <= r.attempts
    /\ me.pc = "await" => r.age + me.left <= CallTimeout
    /\ r.age <= CallTimeout
    /\ me.pc = "write" => me.snap.attempts = r.attempts /\ me.snap.age = r.age

\* A dispatch in state me of a message with row r, out deliveries outside, req
\* requests and n calls since the last one.
Fits(me, r, out, req, n) ==
    /\ req > 0
    /\ Writing(me) => me.next \notin {"ABSENT", "PENDING"}
    /\ me.pc # "await" => me.reply = "none"
    /\ PreCall(me) \/ Retrying(me) => out < req /\ n < MaxAttempts
    /\ me.pc = "await" /\ me.reply \in {"none", "retryable"} => out < req
    /\ Loaded(me) => n < me.attempt
    /\ me.pc = "await" => n <= me.attempt
    /\ r.status # "ABSENT" => RowOfHolder(me, r, n)

\* The row, whoever holds it.
RowFits(r, out, req, n) ==
    /\ out <= req
    /\ n <= MaxAttempts
    /\ r.status \in {"PENDING", "CLAIMED", "CONNECTING", "RETRYABLE_FAILURE"}
       => out < req /\ n < MaxAttempts /\ n <= r.attempts
    /\ r.status \in {"CLAIMED", "CONNECTING", "SENDING", "RETRYABLE_FAILURE"}
       => r.age # NoStamp
    /\ req = 0 => r.status = "ABSENT" /\ n = 0

SoleHolder(id) ==
    \A v, w \in Workers : HeldBy(v, id) /\ HeldBy(w, id) => v = w

HoldersFit(id) ==
    \A w \in Workers : HeldBy(w, id) =>
        Fits(wk[w], db[id], Outside(id), requested[id], calls[id])

ResendFits(id) ==
    user.act = "resend" /\ user.id = id =>
        requested[id] > 0 /\ db[id].status \in {"NEEDS_REVIEW", "ABSENT"}

PassFits(id) ==
    bs.pc = "missed" /\ id \in bs.missed =>
        /\ requested[id] > 0
        /\ \/ db[id].status = "ABSENT"
           \/ db[id].status = "PENDING" /\ db[id].window = "missed"

Orderly(id) ==
    /\ SoleHolder(id)
    /\ HoldersFit(id)
    /\ RowFits(db[id], Outside(id), requested[id], calls[id])
    /\ ResendFits(id)
    /\ PassFits(id)

GuardInv == \A id \in Ids : Guarded(id) => Orderly(id)

-----------------------------------------------------------------------------
(* What the parts of the invariant say together *)

LEMMA OrderlyInit == \A id \in Ids : Init => Orderly(id)
  BY SendFlowAssumption
     DEF Init, Orderly, SoleHolder, HoldersFit, HeldBy, Holding, RowFits, ResendFits, PassFits,
         Outside, IdleWorker, NoRow, IdleUser, IdleBackstop

\* What TypeOK says of one message and one worker.
LEMMA Types ==
  ASSUME TypeOK, NEW id \in Ids, NEW w \in Workers
  PROVE  /\ db[id] \in Row
         /\ wk[w] \in Worker
         /\ delivered[id] \in Nat /\ abandoned[id] \in Nat
         /\ requested[id] \in Nat /\ calls[id] \in Nat
         /\ Outside(id) \in Nat
  BY DEF TypeOK, Table, Outside

\* A row that waits, failed, was sent or is under review is held by nobody; a
\* row that is held is not stale for any pass of reconcile.
LEMMA HeldRow ==
  ASSUME TypeOK, NEW id \in Ids, NEW w \in Workers, HoldersFit(id), HeldBy(w, id)
  PROVE  /\ db[id].status \in {"ABSENT", "CLAIMED", "CONNECTING", "SENDING"}
         /\ db[id].status # "ABSENT" => ~OlderThan(db[id], Staleness)
         /\ db[id].status # "ABSENT" => db[id].age \in Nat /\ db[id].age < RetryCutoff
         /\ requested[id] > 0
  BY Types, SendFlowAssumption, ThresholdsAssumption
     DEF HoldersFit, Fits, RowOfHolder, Found, OlderThan, Row, Age, NoStamp

\* The step of a worker that neither holds the message nor comes to hold it.
LEMMA Elsewhere ==
  ASSUME NEW id \in Ids, NEW w \in Workers, Orderly(id),
         ~HeldBy(w, id), ~HeldBy(w, id)',
         \A v \in Workers : v # w => wk'[v] = wk[v],
         db'[id] = db[id], delivered'[id] = delivered[id],
         abandoned'[id] = abandoned[id], requested'[id] = requested[id],
         calls'[id] = calls[id], UNCHANGED <<bs, user>>
  PROVE  Orderly(id)'
  <1>1. \A v \in Workers : HeldBy(v, id)' => v # w /\ HeldBy(v, id) /\ wk'[v] = wk[v]
    BY DEF HeldBy, Holding
  <1>2. Outside(id)' = Outside(id)
    BY DEF Outside
  <1>3. SoleHolder(id)'
    BY <1>1 DEF Orderly, SoleHolder
  <1>4. HoldersFit(id)'
    BY <1>1, <1>2 DEF Orderly, HoldersFit
  <1>. QED
    BY <1>2, <1>3, <1>4 DEF Orderly, ResendFits, PassFits

\* The step of the worker that holds the message: the row is not created, and
\* what is left to show is about this worker and the row.
LEMMA HolderStep ==
  ASSUME TypeOK, NEW id \in Ids, NEW w \in Workers, Orderly(id), HeldBy(w, id),
         \A v \in Workers : v # w => wk'[v] = wk[v],
         UNCHANGED <<bs, user, requested>>,
         db[id].status = "ABSENT" => db'[id].status = "ABSENT",
         HeldBy(w, id)' =>
            Fits(wk'[w], db'[id], Outside(id)', requested[id], calls'[id]),
         RowFits(db'[id], Outside(id)', requested[id], calls'[id])
  PROVE  Orderly(id)'
  <1>1. \A v \in Workers : HeldBy(v, id)' => v = w
    BY DEF HeldBy, Holding, Orderly, SoleHolder
  <1>2. SoleHolder(id)'
    BY <1>1 DEF SoleHolder
  <1>3. HoldersFit(id)'
    BY <1>1 DEF HoldersFit
  <1>4. db[id].status \in {"ABSENT", "CLAIMED", "CONNECTING", "SENDING"}
    BY HeldRow DEF Orderly
  <1>5. ResendFits(id)' /\ PassFits(id)'
    BY <1>4 DEF Orderly, ResendFits, PassFits
  <1>. QED
    BY <1>2, <1>3, <1>5 DEF Orderly

\* A statement on the table, or a step of the user or of the backstop, that
\* leaves the dispatches and what is outside alone.
LEMMA RowStep ==
  ASSUME TypeOK, NEW id \in Ids, Orderly(id), UNCHANGED <<wk, delivered, abandoned>>,
         requested'[id] = requested[id], calls'[id] = calls[id],
         db'[id].status # "ABSENT" /\ (\E w \in Workers : HeldBy(w, id)) =>
            /\ db'[id].status = db[id].status
            /\ db'[id].attempts = db[id].attempts
            /\ db'[id].age = db[id].age,
         RowFits(db'[id], Outside(id), requested[id], calls[id]),
         ResendFits(id)', PassFits(id)'
  PROVE  Orderly(id)'
  <1>1. \A w \in Workers : HeldBy(w, id)' = HeldBy(w, id)
    BY DEF HeldBy, Holding
  <1>2. Outside(id)' = Outside(id)
    BY DEF Outside
  <1>3. SoleHolder(id)'
    BY <1>1 DEF Orderly, SoleHolder
  <1>4. HoldersFit(id)'
    <2>. SUFFICES ASSUME NEW w \in Workers, HeldBy(w, id)
                  PROVE  Fits(wk[w], db'[id], Outside(id), requested[id], calls[id])
      BY <1>1, <1>2 DEF HoldersFit
    <2>1. Fits(wk[w], db[id], Outside(id), requested[id], calls[id])
      BY DEF Orderly, HoldersFit
    <2>. QED
      BY <2>1 DEF Fits, RowOfHolder
  <1>. QED
    BY <1>2, <1>3, <1>4 DEF Orderly

-----------------------------------------------------------------------------
(* One message through every step of a dispatch *)

\* A put record of the same message is that of its holder or of a finished one.
LEMMA PutHolder ==
  ASSUME TypeOK, NEW w \in Workers, NEW record, Put(w, record)
  PROVE  /\ wk'[w] = record
         /\ \A v \in Workers : v # w => wk'[v] = wk[v]
         /\ \A id \in Ids : HeldBy(w, id)' <=>
                record.pc \notin {"idle", "retry"} /\ record.id = id
  BY DEF TypeOK, Put, HeldBy, Holding

LEMMA NotHeldElsewhere ==
  ASSUME TypeOK, NEW id \in Ids, NEW w \in Workers, NEW record, Put(w, record),
         wk[w].id # id, record.pc = "idle" \/ record.id = wk[w].id
  PROVE  /\ ~HeldBy(w, id) /\ ~HeldBy(w, id)'
         /\ \A v \in Workers : v # w => wk'[v] = wk[v]
  BY PutHolder DEF HeldBy

\* The coroutine after a status update: still the holder, with the status just
\* written, or done with the row.
LEMMA AfterUpdateFits ==
  ASSUME NEW me \in Worker, NEW r \in Row, NEW s \in Row, NEW out \in Nat,
         NEW req \in Nat, NEW n \in Nat,
         Writing(me), Fits(me, r, out, req, n), RowFits(r, out, req, n),
         \/ r.status = "ABSENT" /\ s = r
         \/ /\ me.pc = "write" /\ r.status # "ABSENT"
            /\ s = [me.snap EXCEPT !.status = me.next]
  PROVE  /\ AfterUpdate(me).pc \notin {"idle", "retry"}
              => AfterUpdate(me).id = me.id /\ Fits(AfterUpdate(me), s, out, req, n)
         /\ RowFits(s, out, req, n)
  <1>. DEFINE new == AfterUpdate(me)
  <1>0. me.snap \in Row
    BY DEF Worker
  <1>1. RowFits(s, out, req, n)
    BY <1>0 DEF RowFits, Fits, RowOfHolder, Row, Writing, PreCall, Retrying
  <1>2. s.status # "ABSENT" => /\ s.status = me.next
                               /\ s.attempts = r.attempts
                               /\ s.age = r.age
                               /\ RowOfHolder(me, r, n)
    BY <1>0 DEF Fits, RowOfHolder, Row
  <1>3. CASE me.next = "CLAIMED"
    <2>1. new.pc = "load" /\ new.reply = me.reply /\ new.id = me.id
      BY <1>3 DEF AfterUpdate, Worker
    <2>2. PreCall(me) /\ PreCall(new) /\ Found(new) = "CLAIMED" /\ ~Writing(new)
          /\ ~Loaded(new) /\ ~Retrying(new)
      BY <1>3, <2>1 DEF PreCall, Found, Writing, Loaded, Retrying
    <2>. QED
      BY <1>1, <1>2, <1>3, <2>1, <2>2 DEF Fits, RowOfHolder, Writing
  <1>4. CASE me.next = "CONNECTING"
    <2>1. new.pc = "update" /\ new.next = "SENDING" /\ new.reply = me.reply
          /\ new.id = me.id /\ new.attempt = me.attempt
      BY <1>4 DEF AfterUpdate, Worker
    <2>2. PreCall(me) /\ PreCall(new) /\ Found(new) = "CONNECTING" /\ Writing(new)
          /\ Loaded(me) /\ ~Retrying(new)
      BY <1>4, <2>1 DEF PreCall, Found, Writing, Loaded, Retrying
    <2>. QED
      BY <1>1, <1>2, <1>4, <2>1, <2>2 DEF Fits, RowOfHolder, Writing
  <1>5. CASE me.next = "SENDING"
    <2>1. new.pc = "call" /\ new.reply = me.reply /\ new.id = me.id
          /\ new.attempt = me.attempt
      BY <1>5 DEF AfterUpdate, Worker
    <2>2. PreCall(me) /\ PreCall(new) /\ Found(new) = "SENDING" /\ ~Writing(new)
          /\ Loaded(me) /\ ~Retrying(new)
      BY <1>5, <2>1 DEF PreCall, Found, Writing, Loaded, Retrying
    <2>. QED
      BY <1>1, <1>2, <1>5, <2>1, <2>2 DEF Fits, RowOfHolder, Writing
  <1>6. CASE me.next \notin {"CLAIMED", "CONNECTING", "SENDING"}
    <2>1. new.pc \in {"idle", "retry"}
      BY <1>6 DEF AfterUpdate, Worker, IdleWorker
    <2>. QED
      BY <1>1, <2>1
  <1>. QED
    BY <1>3, <1>4, <1>5, <1>6

LEMMA OrderlyUpdate ==
  ASSUME TypeOK, NEW id \in Ids, Orderly(id), NEW w \in Workers,
         UpdateRead(w) \/ UpdateWrite(w)
  PROVE  Orderly(id)'
  <1>. DEFINE me == wk[w]
              read == [me EXCEPT !.pc = "write", !.snap = db[me.id]]
              record == wk'[w]
  <1>. USE DEF outside, budgets
  <1>1. me \in Worker /\ me.id \in Ids /\ Writing(me) /\ Holding(w)
    BY BusyWorker DEF UpdateRead, UpdateWrite, Writing, Holding
  <1>2. read \in Worker /\ read.pc = "write" /\ read.id = me.id /\ read.snap = db[me.id]
        /\ read.next = me.next /\ read.reply = me.reply /\ read.attempt = me.attempt
    BY <1>1 DEF Worker, TypeOK, Table, PcVals
  <1>3. \/ /\ UpdateRead(w) /\ db[me.id].status = "ABSENT" /\ Put(w, AfterUpdate(me)) /\ db' = db
        \/ /\ UpdateRead(w) /\ db[me.id].status # "ABSENT" /\ Put(w, read) /\ db' = db
        \/ /\ UpdateWrite(w) /\ Put(w, AfterUpdate(me))
           /\ db' = UpdateRow(db, me.id, [me.snap EXCEPT !.status = me.next])
    BY DEF UpdateRead, UpdateWrite
  <1>. HIDE DEF read
  <1>4. /\ wk'[w] = AfterUpdate(me) \/ wk'[w] = read
        /\ record.pc = "idle" \/ record.id = me.id
    BY <1>1, <1>2, <1>3, PutHolder, AfterUpdateType
  <1>5. Put(w, record)
    BY <1>3, PutHolder
  <1>6. CASE me.id # id
    <2>1. db'[id] = db[id] /\ UNCHANGED <<bs, user, delivered, abandoned, requested, calls>>
      BY <1>1, <1>6 DEF UpdateRead, UpdateWrite, UpdateRow, TypeOK, Table
    <2>. QED
      BY <1>4, <1>5, <1>6, <2>1, NotHeldElsewhere, Elsewhere
  <1>7. CASE me.id = id
    <2>. DEFINE out == Outside(id)
                req == requested[id]
                n == calls[id]
    <2>1. /\ HeldBy(w, id) /\ Fits(me, db[id], out, req, n) /\ RowFits(db[id], out, req, n)
          /\ UNCHANGED <<bs, user, delivered, abandoned, requested, calls>>
          /\ Outside(id)' = out
      BY <1>1, <1>7 DEF HeldBy, Orderly, HoldersFit, UpdateRead, UpdateWrite, Outside
    <2>2. CASE Put(w, read) /\ db[me.id].status # "ABSENT" /\ db' = db
      <3>1. Fits(read, db[id], out, req, n)
        BY <1>1, <1>2, <1>7, <2>1 DEF Fits, RowOfHolder, Writing, PreCall, Retrying, Loaded, Found
      <3>2. wk'[w] = read /\ \A v \in Workers : v # w => wk'[v] = wk[v]
        BY <2>2, PutHolder
      <3>. QED
        BY <2>1, <2>2, <3>1, <3>2, HolderStep
    <2>3. CASE /\ Put(w, AfterUpdate(me))
               /\ \/ db[me.id].status = "ABSENT" /\ db' = db
                  \/ /\ UpdateWrite(w)
                     /\ db' = UpdateRow(db, me.id, [me.snap EXCEPT !.status = me.next])
      <3>1. \/ db[id].status = "ABSENT" /\ db'[id] = db[id]
            \/ /\ me.pc = "write" /\ db[id].status # "ABSENT"
               /\ db'[id] = [me.snap EXCEPT !.status = me.next]
        BY <1>1, <1>7, <2>3 DEF UpdateRow, UpdateWrite, TypeOK, Table
      <3>2. db[id] \in Row /\ out \in Nat /\ req \in Nat /\ n \in Nat
        BY Types
      <3>3. db'[id] \in Row
        BY <1>1, <3>1, <3>2 DEF Worker, Row, Statuses
      <3>4. /\ AfterUpdate(me).pc \notin {"idle", "retry"}
                  => AfterUpdate(me).id = id /\ Fits(AfterUpdate(me), db'[id], out, req, n)
            /\ RowFits(db'[id], out, req, n)
        BY <1>1, <1>7, <2>1, <3>1, <3>2, <3>3, AfterUpdateFits
      <3>5. wk'[w] = AfterUpdate(me) /\ \A v \in Workers : v # w => wk'[v] = wk[v]
        BY <2>3, PutHolder
      <3>6. HeldBy(w, id)' => AfterUpdate(me).pc \notin {"idle", "retry"}
        BY <3>5 DEF HeldBy, Holding
      <3>. QED
        BY <2>1, <3>1, <3>4, <3>5, <3>6, HolderStep
    <2>. QED
      BY <1>3, <2>2, <2>3
  <1>. QED
    BY <1>6, <1>7

LEMMA OrderlyLoad ==
  ASSUME TypeOK, NEW id \in Ids, id \notin MediaIds, Orderly(id), NEW w \in Workers, Load(w)
  PROVE  Orderly(id)'
  <1>. DEFINE me == wk[w]
              loaded == [me EXCEPT !.attempt = db[me.id].attempts]
              new == [loaded EXCEPT !.pc = "update", !.next = "CONNECTING"]
              out == Outside(id)
              req == requested[id]
              n == calls[id]
  <1>. USE DEF outside, budgets
  <1>1. me \in Worker /\ me.id \in Ids /\ me.pc = "load"
    BY BusyWorker DEF Load
  <1>2. loaded.id = me.id /\ new.id = me.id
        /\ new.pc = "update" /\ new.next = "CONNECTING" /\ new.reply = me.reply
        /\ new.attempt = db[me.id].attempts
    BY <1>1 DEF Worker
  <1>3. UNCHANGED <<db, bs, user, delivered, abandoned, requested, calls>>
    BY DEF Load
  <1>4. CASE me.id # id
    <2>1. \E record : Put(w, record) /\ (record.pc = "idle" \/ record.id = me.id)
      <3>1. /\ IdleWorker.pc = "idle"
            /\ [loaded EXCEPT !.pc = "update", !.next = "FINAL_FAILURE"].id = me.id
        BY <1>1 DEF Worker, IdleWorker
      <3>. QED
        BY <1>2, <3>1 DEF Load, Finish, SetStatus
    <2>. QED
      BY <1>3, <1>4, <2>1, NotHeldElsewhere, Elsewhere
  <1>5. CASE me.id = id
    <2>1. /\ HeldBy(w, id) /\ Fits(me, db[id], out, req, n) /\ RowFits(db[id], out, req, n)
          /\ Outside(id)' = out
      BY <1>1, <1>3, <1>5 DEF HeldBy, Holding, Orderly, HoldersFit, Outside
    <2>2. CASE Finish(w)
      <3>1. /\ wk'[w] = IdleWorker
            /\ \A v \in Workers : v # w => wk'[v] = wk[v]
        BY <2>2, PutHolder DEF Finish
      <3>2. ~HeldBy(w, id)'
        BY <3>1 DEF HeldBy, Holding, IdleWorker
      <3>. QED
        BY <1>3, <2>1, <3>1, <3>2, HolderStep
    <2>3. CASE Put(w, new) /\ db[id].status # "ABSENT"
      <3>. HIDE DEF new
      <3>1. Fits(new, db[id], out, req, n)
        BY <1>1, <1>2, <1>5, <2>1, <2>3
           DEF Fits, RowOfHolder, Writing, PreCall, Retrying, Loaded, Found
      <3>2. wk'[w] = new /\ \A v \in Workers : v # w => wk'[v] = wk[v]
        BY <2>3, PutHolder
      <3>. QED
        BY <1>3, <2>1, <3>1, <3>2, HolderStep
    <2>. QED
      BY <1>5, <2>2, <2>3 DEF Load, SetStatus
  <1>. QED
    BY <1>4, <1>5

\* A dispatch goes on, or ends, without writing to the table: only what it
\* knows of its own message is left to show.
LEMMA PutStep ==
  ASSUME TypeOK, NEW id \in Ids, Orderly(id), NEW w \in Workers, Holding(w),
         NEW record, Put(w, record), record.pc = "idle" \/ record.id = wk[w].id,
         UNCHANGED <<db, bs, user, requested>>,
         wk[w].id # id => /\ delivered'[id] = delivered[id]
                          /\ abandoned'[id] = abandoned[id]
                          /\ calls'[id] = calls[id],
         Fits(wk[w], db[id], Outside(id), requested[id], calls[id])
         /\ RowFits(db[id], Outside(id), requested[id], calls[id])
         /\ wk[w].id = id
            => /\ record.pc \notin {"idle", "retry"} =>
                    Fits(record, db[id], Outside(id)', requested[id], calls'[id])
               /\ RowFits(db[id], Outside(id)', requested[id], calls'[id])
  PROVE  Orderly(id)'
  <1>1. CASE wk[w].id # id
    BY <1>1, NotHeldElsewhere, Elsewhere
  <1>2. CASE wk[w].id = id
    <2>1. /\ HeldBy(w, id)
          /\ Fits(wk[w], db[id], Outside(id), requested[id], calls[id])
          /\ RowFits(db[id], Outside(id), requested[id], calls[id])
      BY <1>2 DEF HeldBy, Orderly, HoldersFit
    <2>2. wk'[w] = record /\ \A v \in Workers : v # w => wk'[v] = wk[v]
      BY PutHolder
    <2>3. HeldBy(w, id)' => record.pc \notin {"idle", "retry"}
      BY <2>2 DEF HeldBy, Holding
    <2>. QED
      BY <1>2, <2>1, <2>2, <2>3, HolderStep
  <1>. QED
    BY <1>1, <1>2

LEMMA OrderlyCall ==
  ASSUME TypeOK, NEW id \in Ids, id \notin MediaIds, Orderly(id), NEW w \in Workers, Call(w)
  PROVE  Orderly(id)'
  <1>. DEFINE me == wk[w]
              sent == [me EXCEPT !.pc = "await", !.left = Timeout(me.id)]
              noFile == [me EXCEPT !.pc = "update", !.next = "FINAL_FAILURE"]
              thrown == [me EXCEPT !.pc = "update", !.next = "NEEDS_REVIEW"]
              out == Outside(id)
              req == requested[id]
              n == calls[id]
  <1>. USE DEF budgets
  <1>1. me \in Worker /\ me.id \in Ids /\ me.pc = "call" /\ Holding(w)
    BY BusyWorker DEF Call, Holding
  <1>2. /\ sent.id = me.id /\ sent.pc = "await" /\ sent.reply = me.reply
        /\ sent.attempt = me.attempt /\ sent.left = Timeout(me.id)
        /\ noFile.id = me.id
        /\ thrown.id = me.id /\ thrown.pc = "update" /\ thrown.next = "NEEDS_REVIEW"
        /\ thrown.reply = me.reply
    BY <1>1 DEF Worker
  <1>3. UNCHANGED <<db, bs, user, delivered, abandoned, requested>> /\ Outside(id)' = out
    BY DEF Call, Outside
  <1>4. /\ db[id] \in Row /\ n \in Nat /\ req \in Nat /\ out \in Nat /\ me.attempt \in Nat
    BY <1>1, Types DEF Worker
  <1>5. \/ Put(w, sent) /\ calls' = [calls EXCEPT ![me.id] = @ + 1]
        \/ me.id # id /\ Put(w, noFile) /\ UNCHANGED calls
        \/ Put(w, thrown) /\ UNCHANGED calls
    BY DEF Call, SetStatus
  <1>. HIDE DEF sent, noFile, thrown
  <1>6. CASE Put(w, sent) /\ calls' = [calls EXCEPT ![me.id] = @ + 1]
    <2>1. me.id # id => calls'[id] = n
      BY <1>1, <1>6 DEF TypeOK
    <2>2. me.id = id => calls'[id] = n + 1 /\ sent.left = CallTimeout
      BY <1>2, <1>6 DEF TypeOK, Timeout
    <2>3. ASSUME Fits(me, db[id], out, req, n), RowFits(db[id], out, req, n), me.id = id
          PROVE  Fits(sent, db[id], out, req, n + 1) /\ RowFits(db[id], out, req, n + 1)
      BY <1>1, <1>2, <1>4, <2>2, <2>3, SendFlowAssumption
         DEF Fits, RowFits, RowOfHolder, Writing, PreCall, Retrying, Loaded, Found, Row, Age,
             NoStamp
    <2>. QED
      BY <1>1, <1>2, <1>3, <1>6, <2>1, <2>2, <2>3, PutStep
  <1>7. CASE me.id # id /\ Put(w, noFile) /\ UNCHANGED calls
    BY <1>1, <1>2, <1>3, <1>7, PutStep
  <1>8. CASE Put(w, thrown) /\ UNCHANGED calls
    <2>1. ASSUME Fits(me, db[id], out, req, n), RowFits(db[id], out, req, n), me.id = id
          PROVE  Fits(thrown, db[id], out, req, n)
      BY <1>1, <1>2, <1>4, <2>1, SendFlowAssumption
         DEF Fits, RowFits, RowOfHolder, Writing, PreCall, Retrying, Loaded, Found, Row, Age,
             NoStamp
    <2>. QED
      BY <1>1, <1>2, <1>3, <1>8, <2>1, PutStep
  <1>. QED
    BY <1>5, <1>6, <1>7, <1>8

LEMMA OrderlyAnswer ==
  ASSUME TypeOK, NEW id \in Ids, Orderly(id), NEW w \in Workers, Answer(w)
  PROVE  Orderly(id)'
  <1>. DEFINE me == wk[w]
              answered == [me EXCEPT !.reply = "none", !.left = 0]
              new == [answered EXCEPT !.pc = "update", !.next = AnswerStatus(me)]
              out == Outside(id)
              req == requested[id]
              n == calls[id]
  <1>. USE DEF outside, budgets
  <1>1. me \in Worker /\ me.id \in Ids /\ me.pc = "await" /\ me.reply # "none" /\ Holding(w)
    BY BusyWorker DEF Answer, Holding
  <1>2. new.id = me.id /\ new.pc = "update" /\ new.next = AnswerStatus(me) /\ new.reply = "none"
    BY <1>1 DEF Worker
  <1>3. UNCHANGED <<db, bs, user, delivered, abandoned, calls, requested>> /\ Outside(id)' = out
    BY DEF Answer, Outside
  <1>4. /\ db[id] \in Row /\ n \in Nat /\ req \in Nat /\ out \in Nat
        /\ me.attempt \in Nat /\ me.left \in Nat
    BY <1>1, Types DEF Worker
  <1>5. Put(w, new)
    BY DEF Answer, SetStatus
  <1>6. /\ AnswerStatus(me) \in {"SENT_CONFIRMED", "RETRYABLE_FAILURE", "FINAL_FAILURE"}
        /\ AnswerStatus(me) = "RETRYABLE_FAILURE" =>
               me.reply = "retryable" /\ me.attempt < MaxAttempts
    BY DEF AnswerStatus, FailureStatus
  <1>. HIDE DEF new
  <1>7. ASSUME Fits(me, db[id], out, req, n), RowFits(db[id], out, req, n), me.id = id
        PROVE  Fits(new, db[id], out, req, n)
    BY <1>1, <1>2, <1>4, <1>6, <1>7, SendFlowAssumption
       DEF Fits, RowFits, RowOfHolder, Writing, PreCall, Retrying, Loaded, Found, Row, Age,
           NoStamp
  <1>. QED
    BY <1>1, <1>2, <1>3, <1>5, <1>7, PutStep

LEMMA OrderlyCallThrows ==
  ASSUME TypeOK, NEW id \in Ids, Orderly(id), NEW w \in Workers, wk[w].pc = "await",
         CallThrows(w)
  PROVE  Orderly(id)'
  <1>. DEFINE me == wk[w]
              failed == [me EXCEPT !.reply = "none", !.left = 0]
              new == [failed EXCEPT !.pc = "update", !.next = "NEEDS_REVIEW"]
              req == requested[id]
              n == calls[id]
  <1>. USE DEF budgets
  <1>1. me \in Worker /\ me.id \in Ids /\ me.pc = "await" /\ Holding(w)
    BY BusyWorker DEF Holding
  <1>2. new.id = me.id /\ new.pc = "update" /\ new.next = "NEEDS_REVIEW" /\ new.reply = "none"
    BY <1>1 DEF Worker
  <1>3. UNCHANGED <<db, bs, user, delivered, calls, requested>>
    BY DEF CallThrows
  <1>4. /\ db[id] \in Row /\ n \in Nat /\ req \in Nat
        /\ delivered[id] \in Nat /\ abandoned[id] \in Nat
        /\ me.attempt \in Nat /\ me.left \in Nat
    BY <1>1, Types DEF Worker
  <1>5. Put(w, new)
    BY DEF CallThrows, SetStatus
  <1>6. /\ me.id # id => abandoned'[id] = abandoned[id]
        /\ me.id = id => \/ abandoned'[id] = abandoned[id]
                         \/ me.reply = "none" /\ abandoned'[id] = abandoned[id] + 1
    BY <1>1 DEF CallThrows, TypeOK
  <1>. HIDE DEF new
  <1>7. ASSUME Fits(me, db[id], Outside(id), req, n), RowFits(db[id], Outside(id), req, n),
               me.id = id
        PROVE  Fits(new, db[id], Outside(id)', req, n) /\ RowFits(db[id], Outside(id)', req, n)
    <2>1. /\ Outside(id)' \in Nat /\ Outside(id)' <= req
          /\ db[id].status \notin {"PENDING", "CLAIMED", "CONNECTING", "RETRYABLE_FAILURE"}
      BY <1>1, <1>3, <1>4, <1>6, <1>7
         DEF Outside, Fits, RowFits, RowOfHolder, Found, Writing
    <2>. HIDE DEF req, n
    <2>. QED
      BY <1>1, <1>2, <1>4, <1>7, <2>1, SendFlowAssumption
         DEF Fits, RowFits, RowOfHolder, Writing, PreCall, Retrying, Loaded, Found, Row, Age,
             NoStamp
  <1>. QED
    BY <1>1, <1>2, <1>3, <1>5, <1>6, <1>7, PutStep

LEMMA OrderlyScheduleRetry ==
  ASSUME TypeOK, NEW id \in Ids, Orderly(id), NEW w \in Workers, ScheduleRetry(w)
  PROVE  Orderly(id)'
  <1>1. ~HeldBy(w, id) /\ wk'[w] = IdleWorker /\ \A v \in Workers : v # w => wk'[v] = wk[v]
    BY PutHolder DEF ScheduleRetry, Finish, HeldBy, Holding
  <1>2. ~HeldBy(w, id)'
    BY <1>1 DEF HeldBy, Holding, IdleWorker
  <1>. QED
    BY <1>1, <1>2, Elsewhere DEF ScheduleRetry, outside, budgets

LEMMA OrderlyNodeDelivers ==
  ASSUME TypeOK, NEW id \in Ids, Orderly(id), NEW w \in Workers, NodeDelivers(w)
  PROVE  Orderly(id)'
  <1>. DEFINE me == wk[w]
              new == [me EXCEPT !.reply = "ok"]
              req == requested[id]
              n == calls[id]
  <1>. USE DEF budgets
  <1>1. me \in Worker /\ me.id \in Ids /\ me.pc = "await" /\ me.reply = "none" /\ Holding(w)
    BY BusyWorker DEF NodeDelivers, Holding
  <1>2. new.id = me.id /\ new.pc = me.pc /\ new.reply = "ok" /\ new.left = me.left
        /\ new.next = me.next /\ new.attempt = me.attempt
    BY <1>1 DEF Worker
  <1>3. UNCHANGED <<db, bs, user, abandoned, calls, requested>> /\ Put(w, new)
    BY DEF NodeDelivers
  <1>4. /\ db[id] \in Row /\ n \in Nat /\ req \in Nat
        /\ delivered[id] \in Nat /\ abandoned[id] \in Nat
        /\ me.attempt \in Nat /\ me.left \in Nat
    BY <1>1, Types DEF Worker
  <1>5. delivered'[id] = IF me.id = id THEN delivered[id] + 1 ELSE delivered[id]
    BY <1>1 DEF NodeDelivers, TypeOK
  <1>. HIDE DEF new
  <1>6. ASSUME Fits(me, db[id], Outside(id), req, n), RowFits(db[id], Outside(id), req, n),
               me.id = id
        PROVE  Fits(new, db[id], Outside(id)', req, n) /\ RowFits(db[id], Outside(id)', req, n)
    <2>1. /\ Outside(id)' \in Nat /\ Outside(id)' <= req
          /\ db[id].status \notin {"PENDING", "CLAIMED", "CONNECTING", "RETRYABLE_FAILURE"}
      BY <1>1, <1>3, <1>4, <1>5, <1>6
         DEF Outside, Fits, RowFits, RowOfHolder, Found, Writing
    <2>. HIDE DEF req, n
    <2>. QED
      BY <1>1, <1>2, <1>4, <1>6, <2>1
         DEF Fits, RowFits, RowOfHolder, Writing, PreCall, Retrying, Loaded, Found
  <1>. QED
    BY <1>1, <1>2, <1>3, <1>5, <1>6, PutStep

LEMMA OrderlyNodeFails ==
  ASSUME TypeOK, NEW id \in Ids, Orderly(id), NEW w \in Workers, NodeFails(w)
  PROVE  Orderly(id)'
  <1>. DEFINE me == wk[w]
              out == Outside(id)
              req == requested[id]
              n == calls[id]
  <1>. USE DEF outside, budgets
  <1>1. me \in Worker /\ me.id \in Ids /\ me.pc = "await" /\ me.reply = "none" /\ Holding(w)
    BY BusyWorker DEF NodeFails, Holding
  <1>2. PICK a \in {"retryable", "final"} : Put(w, [me EXCEPT !.reply = a])
    BY DEF NodeFails
  <1>. DEFINE new == [me EXCEPT !.reply = a]
  <1>3. new.id = me.id /\ new.pc = me.pc /\ new.reply = a /\ new.left = me.left
        /\ new.next = me.next /\ new.attempt = me.attempt
    BY <1>1 DEF Worker
  <1>4. UNCHANGED <<db, bs, user, delivered, abandoned, calls, requested>> /\ Outside(id)' = out
    BY DEF NodeFails, Outside
  <1>5. Put(w, new)
    BY <1>2
  <1>. HIDE DEF new
  <1>6. ASSUME Fits(me, db[id], out, req, n)
        PROVE  Fits(new, db[id], out, req, n)
    BY <1>1, <1>3, <1>6 DEF Fits, RowOfHolder, Writing, PreCall, Retrying, Loaded, Found
  <1>. QED
    BY <1>1, <1>3, <1>4, <1>5, <1>6, PutStep

LEMMA OrderlyScopeCancelled ==
  ASSUME TypeOK, NEW id \in Ids, Orderly(id), NEW w \in Workers, ScopeCancelled(w)
  PROVE  Orderly(id)'
  <1>. DEFINE me == wk[w]
              req == requested[id]
              n == calls[id]
  <1>1. UNCHANGED <<db, bs, user, delivered, calls, requested>> /\ Put(w, IdleWorker)
        /\ Live(w)
    BY DEF ScopeCancelled, Finish
  <1>2. me \in Worker /\ me.id \in Ids
    BY <1>1, BusyWorker DEF Live
  <1>3. /\ db[id] \in Row /\ n \in Nat /\ req \in Nat
        /\ delivered[id] \in Nat /\ abandoned[id] \in Nat
    BY <1>2, Types
  <1>4. \/ abandoned'[id] = abandoned[id]
        \/ /\ me.pc = "await" /\ me.reply = "none" /\ me.id = id
           /\ abandoned'[id] = abandoned[id] + 1
    BY <1>2 DEF ScopeCancelled, TypeOK
  <1>5. IdleWorker.pc = "idle"
    BY DEF IdleWorker
  <1>6. CASE Holding(w)
    <2>1. ASSUME Fits(me, db[id], Outside(id), req, n), RowFits(db[id], Outside(id), req, n),
                 me.id = id
          PROVE  RowFits(db[id], Outside(id)', req, n)
      <3>1. CASE abandoned'[id] = abandoned[id]
        BY <1>1, <2>1, <3>1 DEF Outside
      <3>2. CASE me.pc = "await" /\ me.reply = "none" /\ abandoned'[id] = abandoned[id] + 1
        BY <1>1, <1>3, <2>1, <3>2 DEF Outside, Fits, RowFits, RowOfHolder, Found, Writing
      <3>. QED
        BY <1>4, <3>1, <3>2
    <2>. QED
      BY <1>1, <1>4, <1>5, <1>6, <2>1, PutStep
  <1>7. CASE ~Holding(w)
    <2>1. ~HeldBy(w, id) /\ abandoned'[id] = abandoned[id] /\ wk'[w] = IdleWorker
          /\ \A v \in Workers : v # w => wk'[v] = wk[v]
      BY <1>1, <1>4, <1>7, PutHolder DEF HeldBy, Holding
    <2>2. ~HeldBy(w, id)'
      BY <1>5, <2>1 DEF HeldBy, Holding
    <2>. QED
      BY <1>1, <2>1, <2>2, Elsewhere
  <1>. QED
    BY <1>6, <1>7

LEMMA OrderlyProcessDies ==
  ASSUME TypeOK, NEW id \in Ids, Orderly(id), ProcessDies
  PROVE  Orderly(id)'
  <1>1. /\ \A w \in Workers : ~HeldBy(w, id)'
        /\ UNCHANGED <<db, delivered, requested, calls>>
        /\ abandoned'[id] = 0
        /\ bs'.pc = "idle" /\ user'.act = "none"
    BY DEF ProcessDies, HeldBy, Holding, IdleWorker, IdleBackstop, IdleUser
  <1>2. Outside(id)' \in Nat /\ Outside(id)' <= Outside(id) /\ Outside(id) \in Nat
        /\ requested[id] \in Nat
    BY <1>1 DEF Outside, TypeOK
  <1>3. RowFits(db[id], Outside(id)', requested[id], calls[id])
    BY <1>2 DEF RowFits, Orderly
  <1>4. SoleHolder(id)' /\ HoldersFit(id)' /\ ResendFits(id)' /\ PassFits(id)'
    BY <1>1 DEF SoleHolder, HoldersFit, ResendFits, PassFits
  <1>. QED
    BY <1>1, <1>3, <1>4 DEF Orderly

LEMMA OrderlyAbandonedSendEnds ==
  ASSUME TypeOK, NEW id \in Ids, Orderly(id), NEW i \in Ids, AbandonedSendEnds(i)
  PROVE  Orderly(id)'
  <1>1. UNCHANGED <<db, wk, bs, user, requested, calls>>
    BY DEF AbandonedSendEnds
  <1>2. Outside(id)' \in Nat /\ Outside(id)' <= Outside(id) /\ Outside(id) \in Nat
        /\ requested[id] \in Nat
    BY DEF AbandonedSendEnds, Outside, TypeOK
  <1>3. RowFits(db[id], Outside(id)', requested[id], calls[id])
    BY <1>2 DEF RowFits, Orderly
  <1>4. HoldersFit(id)'
    BY <1>1, <1>2 DEF HoldersFit, Orderly, Fits, HeldBy, Holding
  <1>. QED
    BY <1>1, <1>3, <1>4 DEF Orderly, SoleHolder, HeldBy, Holding, ResendFits, PassFits

LEMMA OrderlyClaim ==
  ASSUME TypeOK, NEW id \in Ids, ~LateDispatch, Orderly(id),
         NEW w \in Workers, NEW i \in Ids, Claim(w, i)
  PROVE  Orderly(id)'
  <1>. DEFINE base == [IdleWorker EXCEPT !.id = i]
              new == [base EXCEPT !.pc = "update", !.next = "CLAIMED"]
              req == requested[id]
              n == calls[id]
              out == Outside(id)
  <1>. USE DEF outside, budgets
  <1>1. new.pc = "update" /\ new.id = i /\ new.next = "CLAIMED" /\ new.reply = "none"
    BY DEF IdleWorker
  <1>2. UNCHANGED <<bs, user, delivered, abandoned, calls, requested>> /\ Put(w, new)
        /\ ~HeldBy(w, id) /\ Outside(id)' = out
    BY DEF Claim, SetStatus, HeldBy, Holding, Live, Outside
  <1>. HIDE DEF new
  <1>3. wk'[w] = new /\ \A v \in Workers : v # w => wk'[v] = wk[v]
    BY <1>2, PutHolder
  <1>4. CASE i # id
    <2>1. db'[id] = db[id]
      BY <1>4 DEF Claim, AtomicClaim, TypeOK, Table
    <2>2. ~HeldBy(w, id)'
      BY <1>1, <1>3, <1>4 DEF HeldBy
    <2>. QED
      BY <1>2, <1>3, <2>1, <2>2, Elsewhere
  <1>5. CASE i = id
    <2>1. /\ db[id].status = "PENDING" /\ db[id].window = "due"
          /\ db[id] \in Row /\ n \in Nat /\ req \in Nat /\ out \in Nat
      BY <1>5, Types DEF Claim, Claimable
    <2>2. /\ db'[id].status = "CLAIMED" /\ db'[id].attempts = db[id].attempts + 1
          /\ db'[id].age = 0
      BY <1>5, <2>1 DEF Claim, AtomicClaim, TypeOK, Table, Row
    <2>3. \A v \in Workers : ~HeldBy(v, id)
      BY <2>1, HeldRow DEF Orderly
    <2>4. \A v \in Workers : HeldBy(v, id)' => v = w
      BY <1>3, <2>3 DEF HeldBy, Holding
    <2>5. SoleHolder(id)'
      BY <2>4 DEF SoleHolder
    <2>6. RowFits(db[id], out, req, n)
      BY DEF Orderly
    <2>7. RowFits(db'[id], out, req, n)
      BY <2>1, <2>2, <2>6 DEF RowFits, Row, NoStamp
    <2>8. Fits(new, db'[id], out, req, n)
      BY <1>1, <2>1, <2>2, <2>6, SendFlowAssumption
         DEF Fits, RowFits, RowOfHolder, Writing, PreCall, Retrying, Loaded, Found, Row, NoStamp
    <2>9. HoldersFit(id)'
      BY <1>2, <1>3, <2>4, <2>8 DEF HoldersFit
    <2>10. ResendFits(id)' /\ PassFits(id)'
      BY <1>2, <2>1, <2>2 DEF Orderly, ResendFits, PassFits
    <2>. QED
      BY <1>2, <2>5, <2>7, <2>9, <2>10 DEF Orderly
  <1>. QED
    BY <1>4, <1>5

-----------------------------------------------------------------------------
(* One message through the backstop, the user's actions and time *)

\* A held row is fresh, so each statement of reconcile leaves it alone; the
\* others stay within what RowFits says of them.
LEMMA OrderlyReconcile ==
  ASSUME TypeOK, NEW id \in Ids, Orderly(id), ReconcileRevert \/ ReconcileMark \/ ReconcileRevive
  PROVE  Orderly(id)'
  <1>. DEFINE r == db[id]
              s == db'[id]
              out == Outside(id)
              req == requested[id]
              n == calls[id]
  <1>. USE DEF outside, budgets
  <1>1. UNCHANGED <<wk, user, delivered, abandoned, requested, calls>> /\ bs'.pc # "missed"
    BY DEF ReconcileRevert, ReconcileMark, ReconcileRevive, Reconcile, TypeOK, Backstop
  <1>2. r \in Row /\ out \in Nat /\ req \in Nat /\ n \in Nat
    BY DEF TypeOK, Table, Outside
  <1>3. \/ s = r
        \/ /\ StalePrecondition(r) /\ s.status = "PENDING" /\ s.attempts = r.attempts
        \/ /\ StaleSending(r) /\ s.status = "NEEDS_REVIEW" /\ s.attempts = r.attempts
           /\ s.age = r.age
        \/ /\ StrandedRetry(r) /\ s.status = "PENDING" /\ s.attempts = r.attempts
           /\ s.age = r.age
    <2>1. \/ db' = RevertStalePreconditionRows(db)
          \/ db' = MarkStaleSendingAsNeedsReview(db)
          \/ db' = ReviveStaleRetryableRows(db)
      BY DEF ReconcileRevert, ReconcileMark, ReconcileRevive, Reconcile
    <2>2. CASE db' = RevertStalePreconditionRows(db)
      BY <1>2, <2>2 DEF RevertStalePreconditionRows, Row
    <2>3. CASE db' = MarkStaleSendingAsNeedsReview(db)
      BY <1>2, <2>3 DEF MarkStaleSendingAsNeedsReview, Row
    <2>4. CASE db' = ReviveStaleRetryableRows(db)
      BY <1>2, <2>4 DEF ReviveStaleRetryableRows, Row
    <2>. QED
      BY <2>1, <2>2, <2>3, <2>4
  <1>. HIDE DEF s
  <1>4. ASSUME NEW w \in Workers, HeldBy(w, id)
        PROVE  r.status # "ABSENT" => s = r
    BY <1>3, <1>4, HeldRow, SendFlowAssumption, ThresholdsAssumption
       DEF Orderly, StalePrecondition, StaleSending, StrandedRetry, OlderThan, Row
  <1>5. s.status = "ABSENT" <=> r.status = "ABSENT"
    BY <1>3 DEF StalePrecondition, StaleSending, StrandedRetry
  <1>6. RowFits(r, out, req, n)
    BY DEF Orderly
  <1>7. RowFits(s, out, req, n)
    BY <1>2, <1>3, <1>6 DEF RowFits, StalePrecondition, StaleSending, StrandedRetry
  <1>8. ResendFits(id)' /\ PassFits(id)'
    BY <1>1, <1>3 DEF Orderly, ResendFits, PassFits, StalePrecondition, StaleSending,
       StrandedRetry, s
  <1>. QED
    BY <1>1, <1>4, <1>5, <1>7, <1>8, RowStep DEF s

LEMMA OrderlyReadDue ==
  ASSUME TypeOK, NEW id \in Ids, Orderly(id), ReadDue
  PROVE  Orderly(id)'
  <1>1. UNCHANGED <<db, wk, user, delivered, abandoned, requested, calls>>
    BY DEF ReadDue, outside, budgets
  <1>2. bs'.pc = "missed" /\ id \in bs'.missed =>
            db[id].status = "PENDING" /\ db[id].window = "missed"
    BY DEF ReadDue, DueMessages, IdleBackstop
  <1>3. ResendFits(id)' /\ PassFits(id)'
    BY <1>1, <1>2, Types DEF Orderly, RowFits, ResendFits, PassFits, TypeOK
  <1>. QED
    BY <1>1, <1>3, RowStep DEF Orderly

LEMMA OrderlyMarkMissed ==
  ASSUME TypeOK, NEW id \in Ids, Orderly(id), NEW i \in Ids, MarkMissed(i)
  PROVE  Orderly(id)'
  <1>. DEFINE copy == [bs.copies[i] EXCEPT !.status = "FINAL_FAILURE"]
  <1>. USE DEF outside, budgets
  <1>1. UNCHANGED <<wk, user, delivered, abandoned, requested, calls>>
    BY DEF MarkMissed
  <1>2. copy.status = "FINAL_FAILURE"
    BY DEF TypeOK, Backstop, Row
  <1>3. \/ db'[id] = db[id]
        \/ i = id /\ db[id].status # "ABSENT" /\ db'[id] = copy
    BY DEF MarkMissed, UpdateRow, TypeOK, Table
  <1>. HIDE DEF copy
  <1>4. bs'.pc = "missed" /\ id \in bs'.missed => id \in bs.missed /\ id # i /\ bs.pc = "missed"
    BY DEF MarkMissed, IdleBackstop, TypeOK, Backstop
  <1>5. bs.pc = "missed" /\ i \in bs.missed
    BY DEF MarkMissed
  <1>6. CASE db'[id] = db[id]
    <2>1. ResendFits(id)' /\ PassFits(id)'
      BY <1>1, <1>4, <1>6 DEF Orderly, ResendFits, PassFits
    <2>. QED
      BY <1>1, <1>6, <2>1, RowStep DEF Orderly
  <1>7. CASE i = id /\ db[id].status # "ABSENT" /\ db'[id] = copy
    <2>1. db[id].status = "PENDING" /\ requested[id] > 0
      BY <1>5, <1>7 DEF Orderly, PassFits
    <2>2. \A w \in Workers : ~HeldBy(w, id)
      BY <2>1, HeldRow DEF Orderly
    <2>3. RowFits(db'[id], Outside(id), requested[id], calls[id])
      BY <1>2, <1>7, <2>1 DEF Orderly, RowFits
    <2>4. ResendFits(id)' /\ PassFits(id)'
      BY <1>1, <1>4, <1>7, <2>1 DEF Orderly, ResendFits, PassFits
    <2>. QED
      BY <1>1, <2>2, <2>3, <2>4, RowStep
  <1>. QED
    BY <1>3, <1>6, <1>7

LEMMA OrderlyRetryRuns ==
  ASSUME TypeOK, NEW id \in Ids, Orderly(id), NEW i \in Ids, RetryRuns(i)
  PROVE  Orderly(id)'
  <1>. USE DEF outside, budgets
  <1>1. UNCHANGED <<wk, bs, user, delivered, abandoned, requested, calls>>
    BY DEF RetryRuns
  <1>2. \/ db'[id] = db[id]
        \/ /\ db[id].status = "RETRYABLE_FAILURE" /\ db'[id].status = "PENDING"
           /\ db'[id].attempts = db[id].attempts
    BY DEF RetryRuns, RetryToPending, TypeOK, Table, Row
  <1>3. RowFits(db'[id], Outside(id), requested[id], calls[id])
    BY <1>2 DEF Orderly, RowFits
  <1>4. ResendFits(id)' /\ PassFits(id)'
    BY <1>1, <1>2 DEF Orderly, ResendFits, PassFits
  <1>5. ASSUME NEW w \in Workers, HeldBy(w, id)
        PROVE  db'[id] = db[id]
    BY <1>2, <1>5, HeldRow DEF Orderly
  <1>. QED
    BY <1>1, <1>3, <1>4, <1>5, RowStep

LEMMA OrderlySchedule ==
  ASSUME TypeOK, NEW id \in Ids, Orderly(id), NEW i \in Ids, Schedule(i)
  PROVE  Orderly(id)'
  <1>1. UNCHANGED <<wk, bs, user, delivered, abandoned, calls>> /\ requested[i] = 0
    BY DEF Schedule, budgets
  <1>2. CASE i # id
    <2>1. db'[id] = db[id] /\ requested'[id] = requested[id]
      BY <1>2 DEF Schedule, TypeOK, Table
    <2>2. ResendFits(id)' /\ PassFits(id)'
      BY <1>1, <2>1 DEF Orderly, ResendFits, PassFits
    <2>. QED
      BY <1>1, <2>1, <2>2, RowStep DEF Orderly
  <1>3. CASE i = id
    <2>1. db'[id] = NewRow /\ requested'[id] = 1
      BY <1>3 DEF Schedule, TypeOK, Table
    <2>2. RowFits(db[id], Outside(id), 0, calls[id])
      BY <1>1, <1>3 DEF Orderly
    <2>3. RowFits(NewRow, Outside(id), 1, calls[id])
      BY <2>2, Types, SendFlowAssumption DEF RowFits, NewRow, NoRow, TypeOK, Outside
    <2>4. \A w \in Workers : ~HeldBy(w, id)
      BY <1>1, <1>3, HeldRow DEF Orderly
    <2>5. SoleHolder(id)' /\ HoldersFit(id)'
      BY <1>1, <2>4 DEF SoleHolder, HoldersFit, HeldBy, Holding
    <2>6. ResendFits(id)' /\ PassFits(id)'
      BY <1>1, <1>3 DEF Orderly, ResendFits, PassFits
    <2>7. Outside(id)' = Outside(id)
      BY <1>1 DEF Outside
    <2>. QED
      BY <1>1, <2>1, <2>3, <2>5, <2>6, <2>7 DEF Orderly
  <1>. QED
    BY <1>2, <1>3

LEMMA OrderlyUserReads ==
  ASSUME TypeOK, NEW id \in Ids, Orderly(id), NEW i \in Ids,
         NEW act \in {"cancel", "resolve", "resend"}, UserReads(act, i)
  PROVE  Orderly(id)'
  <1>1. UNCHANGED <<db, wk, bs, delivered, abandoned, requested, calls>>
    BY DEF UserReads, outside, budgets
  <1>2. user'.act = "resend" /\ user'.id = id => db[id].status = "NEEDS_REVIEW"
    BY DEF UserReads
  <1>3. ResendFits(id)' /\ PassFits(id)'
    BY <1>1, <1>2 DEF Orderly, RowFits, ResendFits, PassFits, TypeOK
  <1>. QED
    BY <1>1, <1>3, RowStep DEF Orderly

LEMMA OrderlyUserDeletes ==
  ASSUME TypeOK, NEW id \in Ids, Orderly(id), UserDeletes
  PROVE  Orderly(id)'
  <1>1. UNCHANGED <<wk, bs, delivered, abandoned, requested, calls>> /\ user' = IdleUser
    BY DEF UserDeletes, outside, budgets
  <1>2. db'[id] = db[id] \/ db'[id] = NoRow
    BY DEF UserDeletes, DeleteById, TypeOK, Table
  <1>3. RowFits(db'[id], Outside(id), requested[id], calls[id])
    BY <1>2 DEF Orderly, RowFits, NoRow
  <1>4. ResendFits(id)' /\ PassFits(id)'
    BY <1>1, <1>2 DEF Orderly, ResendFits, PassFits, IdleUser, NoRow
  <1>. QED
    BY <1>1, <1>2, <1>3, <1>4, RowStep DEF NoRow

LEMMA OrderlyUserResends ==
  ASSUME TypeOK, NEW id \in Ids, Orderly(id), UserResends
  PROVE  Orderly(id)'
  <1>. DEFINE row == [user.snap EXCEPT !.status = "PENDING", !.attempts = 0,
                                       !.age = NoStamp, !.window = "due"]
  <1>1. UNCHANGED <<wk, bs, delivered, abandoned>> /\ user' = IdleUser /\ user.act = "resend"
        /\ Outside(id)' = Outside(id) /\ user.id \in Ids
    BY DEF UserResends, budgets, Outside, TypeOK
  <1>2. ResendFits(id)'
    BY <1>1 DEF ResendFits, IdleUser
  <1>3. CASE user.id # id
    <2>1. db'[id] = db[id] /\ requested'[id] = requested[id] /\ calls'[id] = calls[id]
      BY <1>1, <1>3 DEF UserResends, UpdateRow, TypeOK, Table
    <2>2. PassFits(id)'
      BY <1>1, <2>1 DEF Orderly, PassFits
    <2>. QED
      BY <1>1, <1>2, <2>1, <2>2, RowStep DEF Orderly
  <1>4. CASE user.id = id
    <2>1. requested[id] > 0 /\ db[id].status \in {"NEEDS_REVIEW", "ABSENT"}
      BY <1>1, <1>4 DEF Orderly, ResendFits
    <2>2. requested'[id] = requested[id] + 1 /\ calls'[id] = 0
      BY <1>4 DEF UserResends, TypeOK
    <2>3. /\ requested[id] \in Nat /\ Outside(id) \in Nat /\ calls[id] \in Nat
          /\ RowFits(db[id], Outside(id), requested[id], calls[id])
      BY DEF TypeOK, Orderly, Outside
    <2>4. row.status = "PENDING" /\ row.attempts = 0
      BY DEF TypeOK, UserAction, Row
    <2>5. \/ db[id].status = "ABSENT" /\ db'[id] = db[id]
          \/ db[id].status = "NEEDS_REVIEW" /\ db'[id] = row
      BY <1>4, <2>1 DEF UserResends, UpdateRow, TypeOK, Table
    <2>. HIDE DEF row
    <2>6. RowFits(db'[id], Outside(id), requested'[id], 0)
      BY <2>1, <2>2, <2>3, <2>4, <2>5, SendFlowAssumption DEF RowFits
    <2>7. HoldersFit(id)'
      <3>. SUFFICES ASSUME NEW w \in Workers, HeldBy(w, id)
                    PROVE  Fits(wk[w], db'[id], Outside(id), requested'[id], 0)
        BY <1>1, <2>2 DEF HoldersFit, HeldBy, Holding
      <3>1. db'[id].status = "ABSENT"
        BY <2>1, <2>5, HeldRow DEF Orderly
      <3>2. Fits(wk[w], db[id], Outside(id), requested[id], calls[id])
        BY DEF Orderly, HoldersFit
      <3>3. wk[w].attempt \in Nat
        BY Types DEF Worker
      <3>. QED
        BY <2>2, <2>3, <3>1, <3>2, <3>3, SendFlowAssumption DEF Fits
    <2>8. SoleHolder(id)'
      BY <1>1 DEF Orderly, SoleHolder, HeldBy, Holding
    <2>9. PassFits(id)'
      BY <1>1, <2>1, <2>2, <2>3, <2>5 DEF Orderly, PassFits
    <2>. QED
      BY <1>1, <1>2, <2>2, <2>6, <2>7, <2>8, <2>9 DEF Orderly
  <1>. QED
    BY <1>3, <1>4

LEMMA OrderlyWindow ==
  ASSUME TypeOK, NEW id \in Ids, Orderly(id), NEW i \in Ids, BecomesDue(i) \/ BecomesMissed(i)
  PROVE  Orderly(id)'
  <1>. USE DEF outside, budgets
  <1>1. UNCHANGED <<wk, bs, user, delivered, abandoned, requested, calls>>
    BY DEF BecomesDue, BecomesMissed
  <1>2. /\ db'[id].status = db[id].status
        /\ db'[id].attempts = db[id].attempts
        /\ db'[id].age = db[id].age
        /\ db[id].window = "missed" => db'[id].window = "missed"
    BY DEF BecomesDue, BecomesMissed, TypeOK, Table, Row
  <1>3. RowFits(db'[id], Outside(id), requested[id], calls[id])
    BY <1>2 DEF Orderly, RowFits
  <1>4. ResendFits(id)' /\ PassFits(id)'
    BY <1>1, <1>2 DEF Orderly, ResendFits, PassFits
  <1>. QED
    BY <1>1, <1>2, <1>3, <1>4, RowStep

\* A minute passes only while the holder waits for Node, and comes off what is
\* left of its timeout.
LEMMA OrderlyTick ==
  ASSUME TypeOK, NEW id \in Ids, MaxStalls = 0, Orderly(id), Tick
  PROVE  Orderly(id)'
  <1>. USE DEF outside, budgets
  <1>0. stalls \in Nat
    BY DEF TypeOK
  <1>1. UNCHANGED <<bs, delivered, abandoned, requested, calls>> /\ Quiet /\ bs.pc = "idle"
        /\ user' = [user EXCEPT !.snap = Older(@)]
    <2>1. Quiet
      <3>1. ~(stalls < MaxStalls)
        BY <1>0
      <3>. QED
        BY <3>1, Zenon DEF Tick
    <2>. QED
      BY <2>1 DEF Tick
  <1>2. user'.act = user.act /\ user'.id = user.id
    BY <1>1 DEF TypeOK, UserAction
  <1>3. /\ db[id] \in Row /\ requested[id] \in Nat /\ calls[id] \in Nat
        /\ Outside(id) \in Nat /\ Outside(id)' = Outside(id)
    BY <1>1 DEF TypeOK, Table, Outside
  <1>4. /\ db'[id].status = db[id].status
        /\ db'[id].attempts = db[id].attempts
        /\ db'[id].window = db[id].window
        /\ db'[id].age = IF db[id].age = NoStamp \/ db[id].age = RetryCutoff
                         THEN db[id].age ELSE db[id].age + 1
    BY <1>3 DEF Tick, Older, Row
  <1>5. \A w \in Workers : /\ wk'[w].pc = wk[w].pc /\ wk'[w].id = wk[w].id
                           /\ wk'[w].next = wk[w].next /\ wk'[w].reply = wk[w].reply
                           /\ wk'[w].attempt = wk[w].attempt
                           /\ wk'[w].left = IF wk[w].left = 0 THEN 0 ELSE wk[w].left - 1
    BY DEF Tick, TypeOK, Worker
  <1>6. \A w \in Workers : HeldBy(w, id)' = HeldBy(w, id)
    BY <1>5 DEF HeldBy, Holding
  <1>7. HoldersFit(id)'
    <2>. SUFFICES ASSUME NEW w \in Workers, HeldBy(w, id)
                  PROVE  Fits(wk'[w], db'[id], Outside(id), requested[id], calls[id])
      BY <1>1, <1>3, <1>6 DEF HoldersFit
    <2>1. Fits(wk[w], db[id], Outside(id), requested[id], calls[id])
      BY DEF Orderly, HoldersFit
    <2>2. wk[w].pc = "await" /\ wk[w].left > 0 /\ wk[w].left \in Nat
      BY <1>1, Types DEF HeldBy, Holding, Quiet, Live, Worker
    <2>3. db[id].status # "ABSENT" => db[id].age \in Nat /\ db[id].age < RetryCutoff
      BY HeldRow DEF Orderly
    <2>4. db[id].status # "ABSENT" => db'[id].age = db[id].age + 1 /\ db'[id].age # NoStamp
      BY <1>4, <2>3 DEF NoStamp
    <2>. QED
      BY <1>4, <1>5, <2>1, <2>2, <2>3, <2>4, SendFlowAssumption
         DEF Fits, RowOfHolder, Writing, PreCall, Retrying, Loaded, Found
  <1>8. RowFits(db'[id], Outside(id), requested[id], calls[id])
    <2>1. db[id].age # NoStamp => db'[id].age # NoStamp
      BY <1>3, <1>4, ThresholdsAssumption DEF Row, Age, NoStamp
    <2>. QED
      BY <1>4, <2>1 DEF Orderly, RowFits
  <1>9. SoleHolder(id)' /\ ResendFits(id)' /\ PassFits(id)'
    BY <1>1, <1>2, <1>4, <1>6 DEF Orderly, SoleHolder, ResendFits, PassFits
  <1>. QED
    BY <1>1, <1>3, <1>7, <1>8, <1>9 DEF Orderly

-----------------------------------------------------------------------------
LEMMA OrderlyStep ==
  ASSUME TypeOK, NEW id \in Ids, Guarded(id), Orderly(id), [Next]_vars
  PROVE  Orderly(id)'
  <1>1. MaxStalls = 0 /\ ~LateDispatch /\ id \notin MediaIds
    BY DEF Guarded, Prompt
  <1>2. ASSUME NEW w \in Workers, Dispatch(w)
        PROVE  Orderly(id)'
    BY <1>1, <1>2, OrderlyUpdate, OrderlyLoad, OrderlyCall, OrderlyAnswer, OrderlyCallThrows,
       OrderlyScheduleRetry DEF Dispatch, CallTimesOut
  <1>3. ASSUME NEW w \in Workers, NEW i \in Ids, Claim(w, i)
        PROVE  Orderly(id)'
    BY <1>1, <1>3, OrderlyClaim
  <1>4. CASE BackstopStep
    BY <1>4, OrderlyReconcile, OrderlyReadDue, OrderlyMarkMissed DEF BackstopStep
  <1>5. ASSUME NEW i \in Ids, RetryRuns(i)
        PROVE  Orderly(id)'
    BY <1>5, OrderlyRetryRuns
  <1>6. CASE Node
    BY <1>6, OrderlyNodeDelivers, OrderlyNodeFails, OrderlyAbandonedSendEnds DEF Node
  <1>7. CASE User
    BY <1>7, OrderlySchedule, OrderlyUserReads, OrderlyUserDeletes, OrderlyUserResends DEF User
  <1>8. CASE Time
    BY <1>1, <1>8, OrderlyTick, OrderlyWindow DEF Time
  <1>9. CASE Faults
    BY <1>9, OrderlyProcessDies, OrderlyScopeCancelled, OrderlyCallThrows
       DEF Faults, CallBroken
  <1>10. CASE UNCHANGED vars
    BY <1>10 DEF vars, Orderly, SoleHolder, HoldersFit, HeldBy, Holding, Outside,
       ResendFits, PassFits
  <1>. QED
    BY <1>2, <1>3, <1>4, <1>5, <1>6, <1>7, <1>8, <1>9, <1>10 DEF Next

LEMMA GuardInvInductive == Spec => [](TypeOK /\ GuardInv)
  <1>1. Init => TypeOK /\ GuardInv
    BY InitTypeOK, OrderlyInit DEF GuardInv
  <1>2. TypeOK /\ GuardInv /\ [Next]_vars => (TypeOK /\ GuardInv)'
    BY NextTypeOK, OrderlyStep DEF GuardInv, Guarded, Prompt
  <1>. QED
    BY <1>1, <1>2, PTL DEF Spec

-----------------------------------------------------------------------------
(* The safety invariants of the runs *)

\* At most one dispatch works on a text message at a time: the guarded UPDATE
\* of the claim admits one, and no pass of reconcile takes a row from it.
THEOREM ExclusiveClaim == Spec => []ExclusiveDispatch
  <1>1. GuardInv => ExclusiveDispatch
    <2>. SUFFICES ASSUME GuardInv, NEW id \in Ids, Guarded(id)
                  PROVE  Cardinality(HoldersOf(id)) <= 1
      BY DEF ExclusiveDispatch
    <2>1. \A v, w \in HoldersOf(id) : v = w
      BY DEF GuardInv, Orderly, SoleHolder, HoldersOf, HeldBy
    <2>2. CASE HoldersOf(id) = {}
      BY <2>2, FS_EmptySet
    <2>3. ASSUME NEW w \in HoldersOf(id)
          PROVE  Cardinality(HoldersOf(id)) <= 1
      <3>1. HoldersOf(id) = {w}
        BY <2>1
      <3>2. Cardinality({w}) = 1
        BY FS_Singleton
      <3>. QED
        BY <3>1, <3>2
    <2>. QED
      BY <2>2, <2>3
  <1>. QED
    BY <1>1, GuardInvInductive, PTL

\* WhatsApp gets a text message at most once per request, and what still may be
\* delivered of an abandoned send is counted already.
THEOREM NoDuplicate == Spec => []AtMostOncePerRequest
  <1>1. TypeOK /\ GuardInv => AtMostOncePerRequest
    BY DEF TypeOK, GuardInv, Orderly, RowFits, Outside, AtMostOncePerRequest
  <1>. QED
    BY <1>1, GuardInvInductive, PTL

\* A row that will be sent without asking the user was not sent for this
\* request, and Node does not run its send any more.
THEOREM RequeueIsSafe == Spec => []RequeuedIsUnsent
  <1>1. GuardInv => RequeuedIsUnsent
    BY DEF GuardInv, Orderly, RowFits, Outside, RequeuedIsUnsent
  <1>. QED
    BY <1>1, GuardInvInductive, PTL

\* One request costs at most MAX_RETRY_ATTEMPTS calls to Node.
THEOREM CappedCalls == Spec => []AttemptCap
  <1>1. GuardInv => AttemptCap
    BY DEF GuardInv, Orderly, RowFits, AttemptCap
  <1>. QED
    BY <1>1, GuardInvInductive, PTL

\* Whatever a dead dispatch leaves behind carries the stamp that some pass of
\* reconcile looks for.
THEOREM OrphansAreStamped == Spec => []OrphanRecoverable
  <1>1. GuardInv => OrphanRecoverable
    BY DEF GuardInv, Orderly, RowFits, OrphanRecoverable
  <1>. QED
    BY <1>1, GuardInvInductive, PTL

-----------------------------------------------------------------------------
(* What a step does to the status of one message *)

AlongArrow(id) ==
    \/ db'[id].status = db[id].status
    \/ /\ db'[id].status \in Lifecycle!Successors(db[id].status)
       /\ db'[id].status = "SENT_CONFIRMED" => delivered[id] > 0

\* The dispatch writes the next status of the state machine over the one it
\* found, although its copy of the row may be older than the row.
LEMMA UpdateAlongArrow ==
  ASSUME TypeOK, EvidenceHeld, NEW id \in Ids, Orderly(id), NEW w \in Workers, UpdateWrite(w)
  PROVE  AlongArrow(id)
  <1>. DEFINE me == wk[w]
              row == [me.snap EXCEPT !.status = me.next]
  <1>1. me \in Worker /\ me.id \in Ids /\ me.pc = "write"
    BY BusyWorker DEF UpdateWrite
  <1>2. row.status = me.next
    BY <1>1 DEF Worker, Row
  <1>3. \/ db'[id] = db[id]
        \/ me.id = id /\ db[id].status # "ABSENT" /\ db'[id] = row
    BY <1>1 DEF UpdateWrite, UpdateRow, TypeOK, Table
  <1>. HIDE DEF row
  <1>4. CASE me.id = id /\ db[id].status # "ABSENT" /\ db'[id] = row
    <2>1. Fits(me, db[id], Outside(id), requested[id], calls[id])
      BY <1>1, <1>4 DEF Orderly, HoldersFit, HeldBy, Holding
    <2>2. me.next \in Statuses \ {"ABSENT", "PENDING"} /\ db[id].status = Found(me)
      BY <1>1, <1>4, <2>1 DEF Fits, RowOfHolder, Writing, Worker
    <2>3. me.next = "SENT_CONFIRMED" => delivered[id] > 0
      BY <1>1, <1>4 DEF EvidenceHeld, Confirming
    <2>. QED
      BY <1>1, <1>2, <1>4, <2>2, <2>3
         DEF AlongArrow, Found, Writing, Statuses, MessageStatus, Lifecycle!Successors
  <1>. QED
    BY <1>3, <1>4 DEF AlongArrow

LEMMA BackstopAlongArrow ==
  ASSUME TypeOK, NEW id \in Ids, Orderly(id), BackstopStep
  PROVE  AlongArrow(id)
  <1>1. db[id] \in Row
    BY DEF TypeOK, Table
  <1>2. CASE ReconcileRevert
    BY <1>1, <1>2 DEF ReconcileRevert, Reconcile, RevertStalePreconditionRows,
       StalePrecondition, AlongArrow, Row, Lifecycle!Successors
  <1>3. CASE ReconcileMark
    BY <1>1, <1>3 DEF ReconcileMark, Reconcile, MarkStaleSendingAsNeedsReview,
       StaleSending, AlongArrow, Row, Lifecycle!Successors
  <1>4. CASE ReconcileRevive
    BY <1>1, <1>4 DEF ReconcileRevive, Reconcile, ReviveStaleRetryableRows,
       StrandedRetry, AlongArrow, Row, Lifecycle!Successors
  <1>5. CASE ReadDue
    BY <1>5 DEF ReadDue, AlongArrow
  <1>6. ASSUME NEW i \in Ids, MarkMissed(i)
        PROVE  AlongArrow(id)
    <2>. DEFINE copy == [bs.copies[i] EXCEPT !.status = "FINAL_FAILURE"]
    <2>1. copy.status = "FINAL_FAILURE"
      BY DEF TypeOK, Backstop, Row
    <2>2. \/ db'[id] = db[id]
          \/ i = id /\ db[id].status # "ABSENT" /\ db'[id] = copy
      BY <1>6 DEF MarkMissed, UpdateRow, TypeOK, Table
    <2>. HIDE DEF copy
    <2>3. db[id].status # "ABSENT" /\ i = id => db[id].status = "PENDING"
      BY <1>6 DEF MarkMissed, Orderly, PassFits
    <2>. QED
      BY <2>1, <2>2, <2>3 DEF AlongArrow, Lifecycle!Successors
  <1>. QED
    BY <1>2, <1>3, <1>4, <1>5, <1>6 DEF BackstopStep

LEMMA ClaimAlongArrow ==
  ASSUME TypeOK, NEW id \in Ids, NEW i \in Ids, NEW w \in Workers, Claim(w, i)
  PROVE  AlongArrow(id)
  <1>1. db[id].status = "PENDING" \/ i # id
    BY DEF Claim, Claimable
  <1>2. db[id] \in Row /\ db[i] \in Row /\ db \in [Ids -> Row]
    BY DEF TypeOK, Table
  <1>3. db'[id] = db[id] \/ (i = id /\ db'[id].status = "CLAIMED")
    BY <1>2 DEF Claim, AtomicClaim, Row
  <1>. QED
    BY <1>1, <1>3 DEF AlongArrow, Lifecycle!Successors

LEMMA RetryAlongArrow ==
  ASSUME TypeOK, NEW id \in Ids, NEW i \in Ids, RetryRuns(i)
  PROVE  AlongArrow(id)
  BY DEF RetryRuns, RetryToPending, TypeOK, Table, Row, AlongArrow, Lifecycle!Successors

LEMMA TimeAlongArrow ==
  ASSUME TypeOK, NEW id \in Ids, Time
  PROVE  AlongArrow(id)
  <1>1. CASE Tick
    BY <1>1, OlderType DEF Tick, TypeOK, Table, AlongArrow
  <1>2. ASSUME NEW i \in Ids, BecomesDue(i) \/ BecomesMissed(i)
        PROVE  AlongArrow(id)
    <2>1. db[id] \in Row /\ db \in [Ids -> Row]
      BY DEF TypeOK, Table
    <2>2. \E x : db' = [db EXCEPT ![i].window = x]
      BY <1>2 DEF BecomesDue, BecomesMissed
    <2>3. db'[id].status = db[id].status
      BY <2>1, <2>2 DEF Row
    <2>. QED
      BY <2>3 DEF AlongArrow
  <1>. QED
    BY <1>1, <1>2 DEF Time

-----------------------------------------------------------------------------
(* Refinement: on a prompt phone every step of SendFlow is a step of        *)
(* MessageLifecycle, or leaves its variables alone.                         *)

Mapped(id) == <<db[id].status, requested[id], delivered[id]>>

\* A step of no user and no delivery.
LEMMA ProceedStep ==
  ASSUME TypeOK, TypeOK', UNCHANGED <<requested, delivered>>, \A id \in TextIds : AlongArrow(id)
  PROVE  Lifecycle!Proceed
  <1>1. \A id \in TextIds : db'[id].status \in Lifecycle!Statuses
    BY DEF TextIds, TypeOK, Table, Row, MessageStatus, Lifecycle!Statuses
  <1>. QED
    BY <1>1 DEF AlongArrow, Lifecycle!Proceed, Lifecycle!Arrow

\* A step that concerns one message i at most.
LEMMA OtherMessages ==
  ASSUME NEW i \in Ids, \A id \in Ids : id # i => Mapped(id)' = Mapped(id),
         i \notin TextIds \/ Mapped(i)' = Mapped(i)
  PROVE  UNCHANGED Lifecycle!vars
  <1>1. \A id \in TextIds : Mapped(id)' = Mapped(id)
    BY DEF TextIds
  <1>. QED
    BY <1>1 DEF Mapped, Lifecycle!vars

LEMMA ScheduleStep ==
  ASSUME TypeOK, GuardInv, Prompt, NEW i \in Ids, Schedule(i)
  PROVE  [Lifecycle!Next]_Lifecycle!vars
  <1>1. /\ UNCHANGED delivered /\ requested[i] = 0
        /\ db' = [db EXCEPT ![i] = NewRow]
        /\ requested' = [requested EXCEPT ![i] = 1]
    BY DEF Schedule
  <1>2. CASE i \notin TextIds
    <2>1. \A id \in Ids : id # i => Mapped(id)' = Mapped(id)
      BY <1>1 DEF Mapped, TypeOK, Table
    <2>. QED
      BY <1>2, <2>1, OtherMessages
  <1>3. CASE i \in TextIds
    <2>1. db[i].status = "ABSENT"
      BY <1>1, <1>3 DEF GuardInv, Guarded, TextIds, Orderly, RowFits
    <2>2. /\ \A id \in TextIds : db'[id].status = IF id = i THEN "PENDING" ELSE db[id].status
          /\ \A id \in TextIds : requested'[id] = IF id = i THEN 1 ELSE requested[id]
      BY <1>1 DEF NewRow, NoRow, TextIds, TypeOK, Table
    <2>. QED
      BY <1>1, <1>3, <2>1, <2>2 DEF Lifecycle!Next, Lifecycle!Schedule
  <1>. QED
    BY <1>2, <1>3

LEMMA DeleteStep ==
  ASSUME TypeOK, UserDeletes
  PROVE  [Lifecycle!Next]_Lifecycle!vars
  <1>. DEFINE i == user.id
  <1>1. UNCHANGED <<delivered, requested>> /\ i \in Ids /\ db' = [db EXCEPT ![i] = NoRow]
    BY DEF UserDeletes, DeleteById, TypeOK, outside
  <1>2. CASE i \notin TextIds \/ db[i].status = "ABSENT"
    <2>1. \A id \in Ids : id # i \/ db[i].status = "ABSENT" => Mapped(id)' = Mapped(id)
      BY <1>1 DEF Mapped, NoRow, TypeOK, Table
    <2>. QED
      BY <1>1, <1>2, <2>1, OtherMessages
  <1>3. CASE i \in TextIds /\ db[i].status # "ABSENT"
    <2>1. \A id \in TextIds : db'[id].status = IF id = i THEN "ABSENT" ELSE db[id].status
      BY <1>1 DEF NoRow, TextIds, TypeOK, Table
    <2>. QED
      BY <1>1, <1>3, <2>1 DEF Lifecycle!Next, Lifecycle!Delete
  <1>. QED
    BY <1>2, <1>3

LEMMA ResendStep ==
  ASSUME TypeOK, GuardInv, Prompt, NEW i \in Ids, i = user.id, UserResends
  PROVE  [Lifecycle!Next]_Lifecycle!vars
  <1>. DEFINE row == [user.snap EXCEPT !.status = "PENDING", !.attempts = 0,
                                       !.age = NoStamp, !.window = "due"]
  <1>1. /\ UNCHANGED delivered /\ i \in Ids /\ user.act = "resend"
        /\ db' = UpdateRow(db, i, row)
        /\ requested' = [requested EXCEPT ![i] = @ + 1]
    BY DEF UserResends, TypeOK
  <1>2. row.status = "PENDING"
    BY DEF TypeOK, UserAction, Row
  <1>. HIDE DEF row
  <1>3. CASE i \notin TextIds
    <2>1. \A id \in Ids : id # i => Mapped(id)' = Mapped(id)
      BY <1>1 DEF Mapped, UpdateRow, TypeOK, Table
    <2>. QED
      BY <1>1, <1>3, <2>1, OtherMessages
  <1>4. CASE i \in TextIds
    <2>1. requested[i] > 0 /\ db[i].status \in {"NEEDS_REVIEW", "ABSENT"}
      BY <1>1, <1>4 DEF GuardInv, Guarded, TextIds, Orderly, ResendFits
    <2>2. /\ \A id \in TextIds :
                 db'[id].status = IF id = i /\ db[i].status # "ABSENT" THEN "PENDING"
                                  ELSE db[id].status
          /\ \A id \in TextIds : requested'[id] = IF id = i THEN requested[id] + 1
                                                  ELSE requested[id]
      BY <1>1, <1>2 DEF UpdateRow, TextIds, TypeOK, Table
    <2>3. CASE db[i].status = "ABSENT"
      <3>1. \A id \in TextIds : db'[id].status = db[id].status
        BY <2>2, <2>3
      <3>2. Lifecycle!Resend(i)
        BY <1>1, <1>4, <2>1, <2>2, <2>3, <3>1 DEF Lifecycle!Resend
      <3>. QED
        BY <1>4, <3>2 DEF Lifecycle!Next
    <2>4. CASE db[i].status = "NEEDS_REVIEW"
      <3>1. \A id \in TextIds :
               db'[id].status = IF id = i THEN "PENDING" ELSE db[id].status
        BY <2>2, <2>4
      <3>. DEFINE now == [id \in TextIds |-> db[id].status]
                  then == [id \in TextIds |-> db'[id].status]
      <3>2. now[i] = "NEEDS_REVIEW" /\ then = [now EXCEPT ![i] = "PENDING"]
        BY <1>4, <2>4, <3>1
      <3>3. /\ [id \in TextIds |-> requested'[id]]
               = [[id \in TextIds |-> requested[id]] EXCEPT ![i] = @ + 1]
            /\ [id \in TextIds |-> requested[id]][i] > 0
        BY <1>4, <2>1, <2>2
      <3>4. Lifecycle!Resend(i)
        BY <1>1, <3>2, <3>3 DEF Lifecycle!Resend
      <3>. QED
        BY <1>4, <3>4 DEF Lifecycle!Next
    <2>. QED
      BY <2>1, <2>3, <2>4
  <1>. QED
    BY <1>3, <1>4

LEMMA DeliverStep ==
  ASSUME TypeOK, GuardInv, Prompt, NEW i \in Ids, UNCHANGED <<db, requested>>,
         delivered' = [delivered EXCEPT ![i] = @ + 1],
         Orderly(i) => /\ delivered[i] < requested[i]
                       /\ db[i].status \in {"PENDING", "CLAIMED", "CONNECTING",
                                            "RETRYABLE_FAILURE"}
                          => delivered[i] + 1 < requested[i]
  PROVE  [Lifecycle!Next]_Lifecycle!vars
  <1>1. CASE i \notin TextIds
    <2>1. \A id \in Ids : id # i => Mapped(id)' = Mapped(id)
      BY <1>1 DEF Mapped, TypeOK
    <2>. QED
      BY <1>1, <2>1, OtherMessages
  <1>2. CASE i \in TextIds
    <2>1. Orderly(i)
      BY <1>2 DEF GuardInv, Guarded, TextIds
    <2>2. \A id \in TextIds : delivered'[id] = IF id = i THEN delivered[id] + 1
                                               ELSE delivered[id]
      BY DEF TextIds, TypeOK
    <2>. QED
      BY <1>2, <2>1, <2>2 DEF Lifecycle!Next, Lifecycle!Deliver
  <1>. QED
    BY <1>1, <1>2

LEMMA NodeStep ==
  ASSUME TypeOK, TypeOK', GuardInv, Prompt, Node
  PROVE  [Lifecycle!Next]_Lifecycle!vars
  <1>1. ASSUME NEW w \in Workers, NodeDelivers(w)
        PROVE  [Lifecycle!Next]_Lifecycle!vars
    <2>. DEFINE i == wk[w].id
    <2>1. /\ wk[w].pc = "await" /\ wk[w].reply = "none" /\ i \in Ids
          /\ UNCHANGED <<db, requested>>
          /\ delivered' = [delivered EXCEPT ![i] = @ + 1]
      BY <1>1, BusyWorker DEF NodeDelivers, TypeOK
    <2>2. ASSUME Orderly(i)
          PROVE  /\ delivered[i] < requested[i]
                 /\ db[i].status \in {"ABSENT", "SENDING"}
      <3>1. Fits(wk[w], db[i], Outside(i), requested[i], calls[i])
        BY <2>1, <2>2 DEF Orderly, HoldersFit, HeldBy, Holding
      <3>2. delivered[i] \in Nat /\ abandoned[i] \in Nat /\ requested[i] \in Nat
        BY <2>1 DEF TypeOK
      <3>. QED
        BY <2>1, <3>1, <3>2 DEF Fits, RowOfHolder, Found, Writing, Outside
    <2>. QED
      BY <2>1, <2>2, DeliverStep
  <1>2. ASSUME NEW i \in Ids, AbandonedSendEnds(i)
        PROVE  [Lifecycle!Next]_Lifecycle!vars
    <2>1. abandoned[i] > 0 /\ UNCHANGED <<db, requested>>
      BY <1>2 DEF AbandonedSendEnds
    <2>2. CASE delivered' = [delivered EXCEPT ![i] = @ + 1]
      <3>1. ASSUME Orderly(i)
            PROVE  /\ delivered[i] < requested[i]
                   /\ db[i].status \in {"PENDING", "CLAIMED", "CONNECTING",
                                        "RETRYABLE_FAILURE"}
                      => delivered[i] + 1 < requested[i]
        <4>1. delivered[i] \in Nat /\ abandoned[i] \in Nat /\ requested[i] \in Nat
          BY DEF TypeOK
        <4>. QED
          BY <2>1, <3>1, <4>1 DEF Orderly, RowFits, Outside
      <3>. QED
        BY <2>1, <2>2, <3>1, DeliverStep
    <2>3. CASE UNCHANGED delivered
      BY <2>1, <2>3 DEF Lifecycle!vars
    <2>. QED
      BY <1>2, <2>2, <2>3 DEF AbandonedSendEnds
  <1>3. ASSUME NEW w \in Workers, NodeFails(w)
        PROVE  [Lifecycle!Next]_Lifecycle!vars
    BY <1>3 DEF NodeFails, outside, Lifecycle!vars
  <1>. QED
    BY <1>1, <1>2, <1>3 DEF Node

LEMMA UserStep ==
  ASSUME TypeOK, GuardInv, Prompt, User
  PROVE  [Lifecycle!Next]_Lifecycle!vars
  <1>1. ASSUME NEW i \in Ids, NEW act \in {"cancel", "resolve", "resend"}, UserReads(act, i)
        PROVE  [Lifecycle!Next]_Lifecycle!vars
    BY <1>1 DEF UserReads, outside, Lifecycle!vars
  <1>2. CASE UserResends
    <2>1. user.id \in Ids
      BY <1>2 DEF UserResends, TypeOK
    <2>. QED
      BY <1>2, <2>1, ResendStep
  <1>. QED
    BY <1>1, <1>2, ScheduleStep, DeleteStep DEF User

LEMMA DispatchAlongArrow ==
  ASSUME TypeOK, EvidenceHeld, NEW id \in Ids, Orderly(id), NEW w \in Workers, Dispatch(w)
  PROVE  AlongArrow(id) /\ UNCHANGED <<requested, delivered>>
  <1>1. CASE UpdateWrite(w)
    BY <1>1, UpdateAlongArrow DEF UpdateWrite, outside
  <1>2. CASE ~UpdateWrite(w)
    BY <1>2 DEF Dispatch, UpdateRead, Load, Call, Answer, CallTimesOut, CallThrows,
       ScheduleRetry, outside, AlongArrow
  <1>. QED
    BY <1>1, <1>2

LEMMA LifecycleStep ==
  ASSUME Prompt, ConfirmedInv, TypeOK', GuardInv, [Next]_vars
  PROVE  [Lifecycle!Next]_Lifecycle!vars
  <1>0. TypeOK /\ EvidenceHeld /\ \A id \in TextIds : id \in Ids /\ Orderly(id)
    BY DEF ConfirmedInv, GuardInv, Guarded, TextIds
  <1>1. ASSUME UNCHANGED <<requested, delivered>>, \A id \in TextIds : AlongArrow(id)
        PROVE  [Lifecycle!Next]_Lifecycle!vars
    BY <1>0, <1>1, ProceedStep DEF Lifecycle!Next
  <1>2. ASSUME NEW w \in Workers, Dispatch(w)
        PROVE  [Lifecycle!Next]_Lifecycle!vars
    <2>1. UNCHANGED <<requested, delivered>>
      BY <1>2 DEF Dispatch, UpdateRead, UpdateWrite, Load, Call, Answer, CallTimesOut,
         CallThrows, ScheduleRetry, outside
    <2>. QED
      BY <1>0, <1>1, <1>2, <2>1, DispatchAlongArrow
  <1>3. ASSUME NEW w \in Workers, NEW i \in Ids, Claim(w, i)
        PROVE  [Lifecycle!Next]_Lifecycle!vars
    <2>1. UNCHANGED <<requested, delivered>>
      BY <1>3 DEF Claim, outside
    <2>. QED
      BY <1>0, <1>1, <1>3, <2>1, ClaimAlongArrow
  <1>4. CASE BackstopStep
    <2>1. UNCHANGED <<requested, delivered>>
      BY <1>4 DEF BackstopStep, ReconcileRevert, ReconcileMark, ReconcileRevive, Reconcile,
         ReadDue, MarkMissed, outside
    <2>. QED
      BY <1>0, <1>1, <1>4, <2>1, BackstopAlongArrow
  <1>5. ASSUME NEW i \in Ids, RetryRuns(i)
        PROVE  [Lifecycle!Next]_Lifecycle!vars
    <2>1. UNCHANGED <<requested, delivered>>
      BY <1>5 DEF RetryRuns, outside
    <2>. QED
      BY <1>0, <1>1, <1>5, <2>1, RetryAlongArrow
  <1>6. CASE Node
    BY <1>0, <1>6, NodeStep
  <1>7. CASE User
    BY <1>0, <1>7, UserStep
  <1>8. CASE Time
    <2>1. UNCHANGED <<requested, delivered>>
      BY <1>8 DEF Time, Tick, BecomesDue, BecomesMissed, outside
    <2>. QED
      BY <1>0, <1>1, <1>8, <2>1, TimeAlongArrow
  <1>9. CASE Faults
    <2>1. UNCHANGED <<db, requested, delivered>>
      BY <1>9 DEF Faults, ProcessDies, ScopeCancelled, CallBroken, CallThrows
    <2>. QED
      BY <2>1 DEF Lifecycle!vars
  <1>10. CASE UNCHANGED vars
    BY <1>10 DEF vars, Lifecycle!vars
  <1>. QED
    BY <1>2, <1>3, <1>4, <1>5, <1>6, <1>7, <1>8, <1>9, <1>10 DEF Next

LEMMA ConfirmedInductive == Spec => []ConfirmedInv
  <1>1. Init => ConfirmedInv
    BY InitTypeOK, ConfirmedInit DEF ConfirmedInv
  <1>2. ConfirmedInv /\ [Next]_vars => ConfirmedInv'
    BY NextTypeOK, ConfirmedStep DEF ConfirmedInv
  <1>. QED
    BY <1>1, <1>2, PTL DEF Spec

\* On a prompt phone the text messages follow the state machine of wp_brain.md
\* 6.2, whatever stale copies updateStatus and the backstop write back, and
\* beside any number of media messages.
THEOREM RefinesLifecycle ==
  ASSUME Prompt
  PROVE  Spec => ImplementsLifecycle
  <1>1. Init => Lifecycle!Init
    BY DEF Init, NoRow, TextIds, Lifecycle!Init
  <1>2. ConfirmedInv /\ GuardInv /\ TypeOK' /\ [Next]_vars => [Lifecycle!Next]_Lifecycle!vars
    BY LifecycleStep
  <1>. QED
    BY <1>1, <1>2, ConfirmedInductive, GuardInvInductive, PTL
       DEF Spec, ImplementsLifecycle, Lifecycle!Spec

\* Once a text message is confirmed its row is nothing else until it is
\* deleted: no late answer, retry, reconciliation or stale copy undoes it.
THEOREM ConfirmedForGood == Spec => ConfirmedIsFinal
  <1>. DEFINE Final == \A id \in Ids :
                (Guarded(id) /\ db[id].status = "SENT_CONFIRMED")
                => db'[id].status \in {"SENT_CONFIRMED", "ABSENT"}
  <1>1. ConfirmedInv /\ GuardInv /\ TypeOK' /\ [Next]_vars => [Final]_vars
    <2>. SUFFICES ASSUME ConfirmedInv, GuardInv, TypeOK', [Next]_vars,
                         NEW id \in Ids, Guarded(id), db[id].status = "SENT_CONFIRMED"
                  PROVE  db'[id].status \in {"SENT_CONFIRMED", "ABSENT"}
      OBVIOUS
    <2>1. [Lifecycle!Next]_Lifecycle!vars
      BY LifecycleStep DEF Guarded
    <2>2. id \in TextIds
      BY DEF Guarded, TextIds
    <2>3. CASE UNCHANGED Lifecycle!vars
      <3>1. [i \in TextIds |-> db'[i].status][id] = [i \in TextIds |-> db[i].status][id]
        BY <2>3 DEF Lifecycle!vars
      <3>. QED
        BY <2>2, <3>1
    <2>4. CASE Lifecycle!Proceed
      BY <2>2, <2>4 DEF Lifecycle!Proceed, Lifecycle!Arrow, Lifecycle!Successors
    <2>5. ASSUME NEW i \in TextIds, Lifecycle!Schedule(i) \/ Lifecycle!Delete(i)
                                    \/ Lifecycle!Resend(i) \/ Lifecycle!Deliver(i)
          PROVE  db'[id].status \in {"SENT_CONFIRMED", "ABSENT"}
      <3>. DEFINE now == [j \in TextIds |-> db[j].status]
                  then == [j \in TextIds |-> db'[j].status]
      <3>1. \/ now[i] = "ABSENT" /\ then = [now EXCEPT ![i] = "PENDING"]
            \/ then = [now EXCEPT ![i] = "ABSENT"]
            \/ now[i] = "NEEDS_REVIEW" /\ then = [now EXCEPT ![i] = "PENDING"]
            \/ then = now
        BY <2>5 DEF Lifecycle!Schedule, Lifecycle!Delete, Lifecycle!Resend, Lifecycle!Deliver
      <3>2. now[id] = "SENT_CONFIRMED" /\ then[id] = db'[id].status
        BY <2>2
      <3>. QED
        BY <2>2, <3>1, <3>2
    <2>. QED
      BY <2>1, <2>3, <2>4, <2>5 DEF Lifecycle!Next
  <1>. HIDE DEF Final
  <1>2. Spec => [][Final]_vars
    BY <1>1, ConfirmedInductive, GuardInvInductive, PTL DEF Spec
  <1>. QED
    BY <1>2 DEF ConfirmedIsFinal, Final

=============================================================================
