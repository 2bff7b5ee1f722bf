----------------------------- MODULE MessageDao -----------------------------
(***************************************************************************)
(* The scheduled_messages table of the Room database and the queries of    *)
(* ScheduledMessageDao.kt.  Every SQL statement is atomic, so each is one  *)
(* operator from a table to a table (or to the rows it selects); what      *)
(* happens BETWEEN two statements is the business of the modules that use  *)
(* this one.                                                               *)
(*                                                                         *)
(* Two timestamps of a row are kept as what the queries compare:           *)
(*   age     now - attemptStartedAtEpochMs, in minutes, saturating at the  *)
(*           largest threshold; NoStamp when the column is NULL            *)
(*   window  now against resolvedEpochMs: before it ("future"), within the *)
(*           6h grace period after it ("due"), or beyond it ("missed")     *)
(***************************************************************************)
EXTENDS Integers

CONSTANTS
    Ids,          \* message ids (random UUIDs: an id is scheduled once)
    Staleness,    \* CLAIM_STALENESS_MS, in minutes
    RetryCutoff   \* RETRY_BACKOFF_MS.sum() + CLAIM_STALENESS_MS, in minutes

ASSUME ThresholdsAssumption ==
    /\ Staleness \in Nat \ {0}
    /\ RetryCutoff \in Nat
    /\ Staleness <= RetryCutoff

MessageStatus == {"PENDING", "CLAIMED", "CONNECTING", "SENDING",
                  "SENT_CONFIRMED", "RETRYABLE_FAILURE", "FINAL_FAILURE",
                  "NEEDS_REVIEW"}

NoStamp == -1
Age == NoStamp .. RetryCutoff
Window == {"future", "due", "missed"}

Row == [status : MessageStatus \cup {"ABSENT"}, attempts : Nat, age : Age,
        window : Window]

NoRow == [status |-> "ABSENT", attempts |-> 0, age |-> NoStamp,
          window |-> "future"]

Table == [Ids -> Row]

NewRow == [NoRow EXCEPT !.status = "PENDING"]

\* SQL: NULL <= threshold is not true, so an unstamped row is never older.
OlderThan(r, threshold) == r.age # NoStamp /\ r.age >= threshold

-----------------------------------------------------------------------------
(* Statements on one row *)

\* Mutated: the claim's WHERE clause also matches a row just claimed.
ClaimableTwice(t, id) == t[id].status \in {"PENDING", "CLAIMED"}

\* Mutated: it also matches a row that waits for the user's review.
ClaimableUnderReview(t, id) == t[id].status \in {"PENDING", "NEEDS_REVIEW"}

Claimable(t, id) == t[id].status = "PENDING"

\* Mutated: the claim does not count, counts the wrong way, or does not stamp.
ClaimUncounted(t, id) == [t EXCEPT ![id].status = "CLAIMED", ![id].age = 0]
ClaimCountsDown(t, id) ==
    [t EXCEPT ![id].status = "CLAIMED", ![id].attempts = @ - 1, ![id].age = 0]
ClaimUnstamped(t, id) ==
    [t EXCEPT ![id].status = "CLAIMED", ![id].attempts = @ + 1]

\* UPDATE ... SET status = 'CLAIMED' ... WHERE id = :id AND status = 'PENDING'
AtomicClaim(t, id) ==
    LET r == t[id] IN
    [t EXCEPT ![id] =
        [r EXCEPT !.status = "CLAIMED", !.attempts = r.attempts + 1, !.age = 0]]

\* Mutated: the flip is not guarded by the status.
RetryUnguarded(t, id) ==
    IF t[id].status # "ABSENT" THEN [t EXCEPT ![id].status = "PENDING"] ELSE t

RetryToPending(t, id) ==
    IF t[id].status = "RETRYABLE_FAILURE"
    THEN [t EXCEPT ![id].status = "PENDING"]
    ELSE t

\* Mutated: INSERT OR REPLACE instead of UPDATE.
UpsertRow(t, id, row) == [t EXCEPT ![id] = row]

\* @Update writes every column of the given copy; it matches no row once the
\* row has been deleted.
UpdateRow(t, id, row) ==
    IF t[id].status = "ABSENT" THEN t ELSE [t EXCEPT ![id] = row]

DeleteById(t, id) == [t EXCEPT ![id] = NoRow]

-----------------------------------------------------------------------------
(* Statements on every row *)

StalePrecondition(r) ==
    r.status \in {"CLAIMED", "CONNECTING"} /\ OlderThan(r, Staleness)

\* Mutated: an interrupted SENDING row is retried like the others.
RevertSendingToo(t) ==
    [id \in Ids |->
        IF t[id].status \in {"CLAIMED", "CONNECTING", "SENDING"}
           /\ OlderThan(t[id], Staleness)
        THEN [t[id] EXCEPT !.status = "PENDING", !.age = NoStamp]
        ELSE t[id]]

RevertStalePreconditionRows(t) ==
    [id \in Ids |->
        IF StalePrecondition(t[id])
        THEN [t[id] EXCEPT !.status = "PENDING", !.age = NoStamp]
        ELSE t[id]]

StaleSending(r) == r.status = "SENDING" /\ OlderThan(r, Staleness)

\* Mutated: an interrupted send counts as a transient failure.
MarkStaleSendingAsRetryable(t) ==
    [id \in Ids |->
        IF StaleSending(t[id]) THEN [t[id] EXCEPT !.status = "RETRYABLE_FAILURE"]
        ELSE t[id]]

MarkStaleSendingAsNeedsReview(t) ==
    [id \in Ids |->
        IF StaleSending(t[id]) THEN [t[id] EXCEPT !.status = "NEEDS_REVIEW"]
        ELSE t[id]]

StrandedRetry(r) ==
    r.status = "RETRYABLE_FAILURE" /\ OlderThan(r, RetryCutoff)

\* Mutated: stranded retries are left to their RetryWorker.
ReviveNothing(t) == [id \in Ids |-> t[id]]

ReviveStaleRetryableRows(t) ==
    [id \in Ids |->
        IF StrandedRetry(t[id]) THEN [t[id] EXCEPT !.status = "PENDING"]
        ELSE t[id]]

\* getDueMessages: the rows a backstop pass looks at
DueMessages(t) == {id \in Ids : t[id].status = "PENDING" /\ t[id].window # "future"}

=============================================================================
