------------------------------ MODULE SendFlow ------------------------------
(***************************************************************************)
(* One scheduled message from the table to WhatsApp: the dispatch          *)
(* coroutines of SchedulerService running NodeBridge.sendMessage, the      *)
(* backstop pass (ScheduleRepository.reconcile and                         *)
(* getDueMessagesAndHandleMissed), RetryWorker, the user's cancel, resolve *)
(* and resend, the death of a dispatch scope and of the process.           *)
(*                                                                         *)
(* A step is one SQL statement or one message between Kotlin and Node, so  *)
(* ScheduleRepository.updateStatus, which reads a row and then writes all  *)
(* of its columns back, is TWO steps with anything in between.             *)
(*                                                                         *)
(* Two constants say what the phone may do to us:                          *)
(*   MaxStalls     minutes in which an actor falls behind the clock (frozen *)
(*                 or dozing process, a slow media decode); in all others  *)
(*                 only the wait for Node's answer takes time              *)
(*   LateDispatch  a dispatch may be triggered for a row already beyond    *)
(*                 the grace period (an alarm fired late, a clock change)  *)
(***************************************************************************)
EXTENDS MessageDao, FiniteSets

CONSTANTS
    Workers,       \* dispatch coroutines alive at the same time
    MediaIds,      \* messages with a voice note or an attachment
    NoId,          \* the message of an idle actor
    MaxAttempts,   \* MAX_RETRY_ATTEMPTS
    CallTimeout,   \* CALL_TIMEOUT_MS in minutes: text
    MediaTimeout,  \* MEDIA_SEND_TIMEOUT_MS in minutes
    MaxStalls, LateDispatch,
    MaxFaults,     \* bound: scope cancellations and process deaths
    MaxResends     \* bound: resend requests per message

ASSUME SendFlowAssumption ==
    /\ NoId \notin Ids
    /\ MediaIds \subseteq Ids
    /\ MaxAttempts \in Nat \ {0}
    /\ CallTimeout \in Nat \ {0}
    /\ MediaTimeout \in Nat \ {0}
    /\ CallTimeout < Staleness
    /\ MaxStalls \in Nat
    /\ LateDispatch \in BOOLEAN
    /\ MaxFaults \in Nat
    /\ MaxResends \in Nat

VARIABLES
    db,          \* the table
    wk,          \* the dispatch coroutines
    bs,          \* the backstop worker
    user,        \* the user action in progress in the view model
    retryWork,   \* messages with a RetryWorker enqueued (WorkManager: durable)
    delivered,   \* how often WhatsApp got the message
    abandoned,   \* sends Node still runs although Kotlin waits no more
    requested,   \* how often the user asked for the message: schedule, resends
    calls,       \* sendMessage calls to Node since the last request
    faults,      \* cancellations and deaths so far
    stalls       \* minutes stalled so far

vars == <<db, wk, bs, user, retryWork, delivered, abandoned, requested, calls, faults, stalls>>
outside == <<delivered, abandoned, requested, calls>>
budgets == <<faults, stalls>>

Statuses == MessageStatus \cup {"ABSENT"}
PcVals == {"idle", "update", "write", "load", "call", "await", "retry"}
Replies == {"none", "ok", "retryable", "final"}

\* id, attempt: the message and msg.attemptCount; next: the status being
\* written by updateStatus, snap: the row it has read; left: minutes to the
\* timeout of call(); reply: what Node has answered
Worker == [pc : PcVals, id : Ids \cup {NoId}, next : Statuses, snap : Row,
           attempt : Nat, left : Nat, reply : Replies]

IdleWorker == [pc |-> "idle", id |-> NoId, next |-> "ABSENT", snap |-> NoRow,
               attempt |-> 0, left |-> 0, reply |-> "none"]

\* missed: the copies of the rows getDueMessages found beyond the grace period
Backstop == [pc : {"idle", "mark", "revive", "due", "missed"},
             missed : SUBSET Ids, copies : [Ids -> Row]]
IdleBackstop == [pc |-> "idle", missed |-> {}, copies |-> [id \in Ids |-> NoRow]]

UserAction == [act : {"none", "cancel", "resolve", "resend"},
               id : Ids \cup {NoId}, snap : Row]
IdleUser == [act |-> "none", id |-> NoId, snap |-> NoRow]

Live(w) == wk[w].pc # "idle"
\* "retry" comes after the last write to the row
Holding(w) == wk[w].pc \notin {"idle", "retry"}
HoldersOf(id) == {w \in Workers : Holding(w) /\ wk[w].id = id}

TypeOK ==
    /\ db \in Table
    /\ wk \in [Workers -> Worker]
    /\ \A w \in Workers : Live(w) => wk[w].id \in Ids
    /\ bs \in Backstop
    /\ user \in UserAction
    /\ user.act # "none" => user.id \in Ids
    /\ retryWork \subseteq Ids
    /\ delivered \in [Ids -> Nat]
    /\ abandoned \in [Ids -> Nat]
    /\ requested \in [Ids -> Nat]
    /\ calls \in [Ids -> Nat]
    /\ faults \in Nat
    /\ stalls \in Nat

Init ==
    /\ db = [id \in Ids |-> NoRow]
    /\ wk = [w \in Workers |-> IdleWorker]
    /\ bs = IdleBackstop
    /\ user = IdleUser
    /\ retryWork = {}
    /\ delivered = [id \in Ids |-> 0]
    /\ abandoned = [id \in Ids |-> 0]
    /\ requested = [id \in Ids |-> 0]
    /\ calls = [id \in Ids |-> 0]
    /\ faults = 0
    /\ stalls = 0

-----------------------------------------------------------------------------
(* Time *)

\* What "no stalls" means: the clock moves only while every actor is idle or
\* waits for Node with time left.
Quiet ==
    /\ bs.pc = "idle"
    /\ user.act = "none"
    /\ \A w \in Workers : Live(w) => wk[w].pc = "await" /\ wk[w].left > 0

Older(r) ==
    [r EXCEPT !.age = IF @ = NoStamp \/ @ = RetryCutoff THEN @ ELSE @ + 1]

\* One minute.  A backstop pass takes less (reconcile fixes "now" once).
Tick ==
    /\ bs.pc = "idle"
    /\ \/ Quiet /\ UNCHANGED stalls
       \/ stalls < MaxStalls /\ stalls' = stalls + 1
    /\ db' = [id \in Ids |-> Older(db[id])]
    /\ wk' = [w \in Workers |->
                 [wk[w] EXCEPT !.snap = Older(@),
                               !.left = IF @ = 0 THEN 0 ELSE @ - 1]]
    /\ user' = [user EXCEPT !.snap = Older(@)]
    /\ UNCHANGED <<bs, retryWork, outside, faults>>

\* The scheduled instant is reached; later the grace period has passed.
BecomesDue(id) ==
    /\ db[id].status # "ABSENT"
    /\ db[id].window = "future"
    /\ db' = [db EXCEPT ![id].window = "due"]
    /\ UNCHANGED <<wk, bs, user, retryWork, outside, budgets>>

BecomesMissed(id) ==
    /\ db[id].status # "ABSENT"
    /\ db[id].window = "due"
    /\ db' = [db EXCEPT ![id].window = "missed"]
    /\ UNCHANGED <<wk, bs, user, retryWork, outside, budgets>>

-----------------------------------------------------------------------------
(* NodeBridge.sendMessage, run by a dispatch coroutine *)

Put(w, record) == wk' = [wk EXCEPT ![w] = record]
Finish(w) == Put(w, IdleWorker)
SetStatus(w, record, status) ==
    Put(w, [record EXCEPT !.pc = "update", !.next = status])

\* Alarm, backstop, RetryWorker and resend all end here; a dispatch that
\* finds the row already claimed is Skipped and changes nothing.
Claim(w, id) ==
    /\ ~Live(w)
    /\ Claimable(db, id)
    /\ db[id].window # "future"
    /\ LateDispatch \/ db[id].window = "due"
    /\ db' = AtomicClaim(db, id)
    /\ SetStatus(w, [IdleWorker EXCEPT !.id = id], "CLAIMED")
    /\ UNCHANGED <<bs, user, retryWork, outside, budgets>>

\* What the coroutine does after updateStatus(next) returned.
AfterUpdate(me) ==
    LET done == [me EXCEPT !.snap = NoRow, !.next = "ABSENT"] IN
    CASE me.next = "CLAIMED" -> [done EXCEPT !.pc = "load"]
      [] me.next = "CONNECTING" -> [done EXCEPT !.pc = "update", !.next = "SENDING"]
      [] me.next = "SENDING" -> [done EXCEPT !.pc = "call"]
      [] me.next = "RETRYABLE_FAILURE" -> [done EXCEPT !.pc = "retry"]
      [] OTHER -> IdleWorker

\* updateStatus, first statement: getById, with its early return.
UpdateRead(w) ==
    LET me == wk[w] IN
    /\ me.pc = "update"
    /\ IF db[me.id].status = "ABSENT"
       THEN Put(w, AfterUpdate(me))
       ELSE Put(w, [me EXCEPT !.pc = "write", !.snap = db[me.id]])
    /\ UNCHANGED <<db, bs, user, retryWork, outside, budgets>>

\* updateStatus, second statement: update(msg.copy(status = next, ...)).
UpdateWrite(w) ==
    LET me == wk[w] IN
    /\ me.pc = "write"
    /\ db' = UpdateRow(db, me.id, [me.snap EXCEPT !.status = me.next])
    /\ Put(w, AfterUpdate(me))
    /\ UNCHANGED <<bs, user, retryWork, outside, budgets>>

\* getById after the claim, then validateAttachmentReadable.
Load(w) ==
    LET me == wk[w]
        loaded == [me EXCEPT !.attempt = db[me.id].attempts]
    IN
    /\ me.pc = "load"
    /\ \/ db[me.id].status = "ABSENT" /\ Finish(w)
       \/ /\ db[me.id].status # "ABSENT"
          /\ SetStatus(w, loaded, "CONNECTING")
       \/ /\ db[me.id].status # "ABSENT"
          /\ me.id \in MediaIds
          /\ SetStatus(w, loaded, "FINAL_FAILURE")
    /\ UNCHANGED <<db, bs, user, retryWork, outside, budgets>>

Timeout(id) == IF id \in MediaIds THEN MediaTimeout ELSE CallTimeout

\* The payload is built and written to the socket; the message was loaded
\* before, so this does not look at the row.
Call(w) ==
    LET me == wk[w] IN
    /\ me.pc = "call"
    /\ \/ /\ Put(w, [me EXCEPT !.pc = "await", !.left = Timeout(me.id)])
          /\ calls' = [calls EXCEPT ![me.id] = @ + 1]
       \/ /\ me.id \in MediaIds     \* the attachment cannot be resolved to a file
          /\ SetStatus(w, me, "FINAL_FAILURE")
          /\ UNCHANGED calls
       \/ /\ SetStatus(w, me, "NEEDS_REVIEW")   \* sendRaw threw
          /\ UNCHANGED calls
    /\ UNCHANGED <<db, bs, user, retryWork, delivered, abandoned, requested, budgets>>

FailureStatus(me) ==
    IF me.reply = "retryable" /\ me.attempt < MaxAttempts
    THEN "RETRYABLE_FAILURE" ELSE "FINAL_FAILURE"

\* Mutated: an answer without a failure to retry is taken for a success.
AnswerStatusOptimistic(me) ==
    IF me.reply # "retryable" THEN "SENT_CONFIRMED" ELSE FailureStatus(me)

AnswerStatus(me) ==
    IF me.reply = "ok" THEN "SENT_CONFIRMED" ELSE FailureStatus(me)

\* Node's answer has arrived and completes the pending call.
Answer(w) ==
    LET me == wk[w]
        answered == [me EXCEPT !.reply = "none", !.left = 0]
    IN
    /\ me.pc = "await"
    /\ me.reply # "none"
    /\ SetStatus(w, answered, AnswerStatus(me))
    /\ UNCHANGED <<db, bs, user, retryWork, outside, budgets>>

\* call() throws.  If Node has not answered, its send may still be running.
CallThrows(w) ==
    LET me == wk[w] IN
    /\ SetStatus(w, [me EXCEPT !.reply = "none", !.left = 0], "NEEDS_REVIEW")
    /\ \/ /\ me.reply = "none"
          /\ abandoned' = [abandoned EXCEPT ![me.id] = @ + 1]
       \/ UNCHANGED abandoned
    /\ UNCHANGED <<db, bs, user, retryWork, delivered, requested, calls, budgets>>

CallTimesOut(w) == wk[w].pc = "await" /\ wk[w].left = 0 /\ CallThrows(w)

\* handleTcpDisconnection fails every pending call.
CallBroken(w) == wk[w].pc = "await" /\ CallThrows(w)

\* RetryWorker.schedule
ScheduleRetry(w) ==
    /\ wk[w].pc = "retry"
    /\ retryWork' = retryWork \cup {wk[w].id}
    /\ Finish(w)
    /\ UNCHANGED <<db, bs, user, outside, budgets>>

-----------------------------------------------------------------------------
(* Node's side of the call (external here: see Sender) *)

NodeDelivers(w) ==
    /\ wk[w].pc = "await"
    /\ wk[w].reply = "none"
    /\ Put(w, [wk[w] EXCEPT !.reply = "ok"])
    /\ delivered' = [delivered EXCEPT ![wk[w].id] = @ + 1]
    /\ UNCHANGED <<db, bs, user, retryWork, abandoned, requested, calls, budgets>>

NodeFails(w) ==
    /\ wk[w].pc = "await"
    /\ wk[w].reply = "none"
    /\ \E r \in {"retryable", "final"} : Put(w, [wk[w] EXCEPT !.reply = r])
    /\ UNCHANGED <<db, bs, user, retryWork, outside, budgets>>

AbandonedSendEnds(id) ==
    /\ abandoned[id] > 0
    /\ abandoned' = [abandoned EXCEPT ![id] = @ - 1]
    /\ \/ delivered' = [delivered EXCEPT ![id] = @ + 1]
       \/ UNCHANGED delivered
    /\ UNCHANGED <<db, wk, bs, user, retryWork, requested, calls, budgets>>

-----------------------------------------------------------------------------
(* BackstopWorker.doWork: reconcile, then getDueMessagesAndHandleMissed *)

Reconcile(pc, table, then) ==
    /\ bs.pc = pc
    /\ db' = table
    /\ bs' = [bs EXCEPT !.pc = then]
    /\ UNCHANGED <<wk, user, retryWork, outside, budgets>>

ReconcileRevert == Reconcile("idle", RevertStalePreconditionRows(db), "mark")
ReconcileMark == Reconcile("mark", MarkStaleSendingAsNeedsReview(db), "revive")
ReconcileRevive == Reconcile("revive", ReviveStaleRetryableRows(db), "due")

\* The rows within the grace period are handed to the dispatcher (Claim).
ReadDue ==
    LET missed == {id \in DueMessages(db) : db[id].window = "missed"} IN
    /\ bs.pc = "due"
    /\ bs' = IF missed = {} THEN IdleBackstop
             ELSE [pc |-> "missed", missed |-> missed,
                   copies |-> [id \in Ids |-> IF id \in missed THEN db[id] ELSE NoRow]]
    /\ UNCHANGED <<db, wk, user, retryWork, outside, budgets>>

\* update(msg.copy(status = FINAL_FAILURE, ...)) of a copy read earlier.
MarkMissed(id) ==
    /\ bs.pc = "missed"
    /\ id \in bs.missed
    /\ db' = UpdateRow(db, id, [bs.copies[id] EXCEPT !.status = "FINAL_FAILURE"])
    /\ bs' = IF bs.missed = {id} THEN IdleBackstop
             ELSE [bs EXCEPT !.missed = @ \ {id}, !.copies[id] = NoRow]
    /\ UNCHANGED <<wk, user, retryWork, outside, budgets>>

\* RetryWorker.doWork: its check and its guarded UPDATE agree, so one step.
RetryRuns(id) ==
    /\ id \in retryWork
    /\ retryWork' = retryWork \ {id}
    /\ db' = RetryToPending(db, id)
    /\ UNCHANGED <<wk, bs, user, outside, budgets>>

-----------------------------------------------------------------------------
(* The user: scheduleMessage, cancelPendingMessage, resolveNeedsReview,    *)
(* resendNeedsReview.  The last three read the row, test its status and    *)
(* only then delete or update it.                                          *)

Schedule(id) ==
    /\ requested[id] = 0
    /\ db' = [db EXCEPT ![id] = NewRow]
    /\ requested' = [requested EXCEPT ![id] = 1]
    /\ UNCHANGED <<wk, bs, user, retryWork, delivered, abandoned, calls, budgets>>

UserReads(act, id) ==
    /\ user = IdleUser
    /\ db[id].status = IF act = "cancel" THEN "PENDING" ELSE "NEEDS_REVIEW"
    /\ act = "resend" => requested[id] <= MaxResends
    /\ user' = [act |-> act, id |-> id, snap |-> db[id]]
    /\ UNCHANGED <<db, wk, bs, retryWork, outside, budgets>>

UserDeletes ==
    /\ user.act \in {"cancel", "resolve"}
    /\ db' = DeleteById(db, user.id)
    /\ user' = IdleUser
    /\ UNCHANGED <<wk, bs, retryWork, outside, budgets>>

UserResends ==
    /\ user.act = "resend"
    /\ db' = UpdateRow(db, user.id,
                       [user.snap EXCEPT !.status = "PENDING", !.attempts = 0,
                                         !.age = NoStamp, !.window = "due"])
    /\ requested' = [requested EXCEPT ![user.id] = @ + 1]
    /\ calls' = [calls EXCEPT ![user.id] = 0]
    /\ user' = IdleUser
    /\ UNCHANGED <<wk, bs, retryWork, delivered, abandoned, budgets>>

-----------------------------------------------------------------------------
(* Faults *)

\* onDestroy cancels serviceScope.  The catch clause of sendMessage does run,
\* but its updateStatus suspends in a cancelled scope, which throws at once.
ScopeCancelled(w) ==
    /\ faults < MaxFaults
    /\ faults' = faults + 1
    /\ Live(w)
    /\ Finish(w)
    /\ \/ /\ wk[w].pc = "await" /\ wk[w].reply = "none"
          /\ abandoned' = [abandoned EXCEPT ![wk[w].id] = @ + 1]
       \/ UNCHANGED abandoned
    /\ UNCHANGED <<db, bs, user, retryWork, delivered, requested, calls, stalls>>

\* Node runs in the same process: its sends die with it.
ProcessDies ==
    /\ faults < MaxFaults
    /\ faults' = faults + 1
    /\ wk' = [w \in Workers |-> IdleWorker]
    /\ bs' = IdleBackstop
    /\ user' = IdleUser
    /\ abandoned' = [id \in Ids |-> 0]
    /\ UNCHANGED <<db, retryWork, delivered, requested, calls, stalls>>

-----------------------------------------------------------------------------
Dispatch(w) ==
    \/ UpdateRead(w) \/ UpdateWrite(w) \/ Load(w) \/ Call(w) \/ Answer(w)
    \/ CallTimesOut(w) \/ ScheduleRetry(w)

BackstopStep ==
    \/ ReconcileRevert \/ ReconcileMark \/ ReconcileRevive \/ ReadDue
    \/ \E id \in Ids : MarkMissed(id)

Node == \/ \E w \in Workers : NodeDelivers(w) \/ NodeFails(w)
        \/ \E id \in Ids : AbandonedSendEnds(id)

User == \/ \E id \in Ids : Schedule(id) \/ UserReads("cancel", id)
                           \/ UserReads("resolve", id) \/ UserReads("resend", id)
        \/ UserDeletes \/ UserResends

Time == Tick \/ \E id \in Ids : BecomesDue(id) \/ BecomesMissed(id)

Faults == ProcessDies \/ \E w \in Workers : ScopeCancelled(w) \/ CallBroken(w)

Next ==
    \/ \E w \in Workers, id \in Ids : Claim(w, id)
    \/ \E w \in Workers : Dispatch(w)
    \/ BackstopStep
    \/ \E id \in Ids : RetryRuns(id)
    \/ Node \/ User \/ Time \/ Faults

Spec == Init /\ [][Next]_vars

\* Started coroutines run on; WorkManager runs the periodic backstop and the
\* retries; the backstop hands every due row to a dispatch; the clock is
\* disabled during a pass but moves again and again (strong fairness).
\* Nothing is assumed of Node, of the user's choices or of faults.
Fairness ==
    /\ \A w \in Workers : WF_vars(Dispatch(w))
    /\ \A id \in Ids : WF_vars(\E w \in Workers : Claim(w, id))
    /\ WF_vars(BackstopStep)
    /\ \A id \in Ids : WF_vars(RetryRuns(id))
    /\ WF_vars(UserDeletes \/ UserResends)
    /\ \A id \in Ids : WF_vars(BecomesDue(id))
    /\ SF_vars(Tick)

FairSpec == Spec /\ Fairness

-----------------------------------------------------------------------------
(* Properties *)

\* No false success: a row says SENT_CONFIRMED only of a message WhatsApp got
\* (NodeBridge.kt:321-322), under any stall, late dispatch, fault or lost
\* update.
ConfirmedWasDelivered ==
    \A id \in Ids : db[id].status = "SENT_CONFIRMED" => delivered[id] > 0

\* The conditions the design counts on, and the messages it works for: a media
\* call may last as long as CLAIM_STALENESS_MS, a text call may not.
Prompt == MaxStalls = 0 /\ ~LateDispatch
Guarded(id) == Prompt /\ id \notin MediaIds

\* The atomic claim and the staleness threshold together leave at most one
\* live dispatch of a message (ScheduledMessageDao.kt:43-46).
ExclusiveDispatch ==
    \A id \in Ids : Guarded(id) => Cardinality(HoldersOf(id)) <= 1

\* No duplicate: WhatsApp gets a message at most once per request of the user,
\* through crashes, retries, timeouts and answers that come too late.
AtMostOncePerRequest ==
    \A id \in Ids : Guarded(id) => delivered[id] <= requested[id]

\* A row that will be sent without asking the user belongs to a request that
\* has not been delivered and whose send is not still running in Node.
RequeuedIsUnsent ==
    \A id \in Ids :
        /\ Guarded(id)
        /\ db[id].status \in {"PENDING", "CLAIMED", "CONNECTING", "RETRYABLE_FAILURE"}
        => delivered[id] + abandoned[id] < requested[id]

\* One request costs at most MAX_RETRY_ATTEMPTS calls, whatever is reverted
\* and claimed again in between.
AttemptCap ==
    \A id \in Ids : Guarded(id) => calls[id] <= MaxAttempts

\* Whatever a dead dispatch leaves behind, some pass of reconcile can pick up:
\* the three queries never match a row whose stamp is NULL.
OrphanRecoverable ==
    \A id \in Ids :
        /\ Guarded(id)
        /\ db[id].status \in {"CLAIMED", "CONNECTING", "SENDING", "RETRYABLE_FAILURE"}
        /\ HoldersOf(id) = {}
        => db[id].age # NoStamp

\* No stale copy written back by a dispatch, a backstop pass or a resend brings
\* a deleted row back to life (ids are never scheduled twice).
DeletedStaysDeleted ==
    [][\A id \in Ids :
          (requested[id] > 0 /\ db[id].status = "ABSENT")
          => db'[id].status = "ABSENT"]_vars

\* Once confirmed, a row is never anything else until it is deleted.
ConfirmedIsFinal ==
    [][\A id \in Ids :
          (Guarded(id) /\ db[id].status = "SENT_CONFIRMED")
          => db'[id].status \in {"SENT_CONFIRMED", "ABSENT"}]_vars

\* Every message the user leaves alone reaches an outcome: sent, failed, put
\* before the user, or deleted by the user.
Outcome(id) ==
    db[id].status \in {"SENT_CONFIRMED", "FINAL_FAILURE", "NEEDS_REVIEW", "ABSENT"}
EventualOutcome == \A id \in Ids : (id \notin MediaIds /\ ~Outcome(id)) ~> Outcome(id)

\* The user sees the state machine of wp_brain.md 6.2, in spite of every stale
\* copy that updateStatus and the backstop write back (text, prompt phone).
TextIds == Ids \ MediaIds
Lifecycle == INSTANCE MessageLifecycle WITH
                 Ids <- TextIds,
                 status <- [id \in TextIds |-> db[id].status],
                 requested <- [id \in TextIds |-> requested[id]],
                 delivered <- [id \in TextIds |-> delivered[id]]
ImplementsLifecycle == Lifecycle!Spec

\* wp_brain.md:215: reconciliation moves a row to NEEDS_REVIEW only if it is
\* "not the row currently being actively processed by the live dispatch cycle".
ReviewedIsNotLive ==
    [][ReconcileMark =>
          \A id \in Ids : db'[id].status # db[id].status => HoldersOf(id) = {}]_vars

=============================================================================
