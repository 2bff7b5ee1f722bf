-------------------------- MODULE MessageLifecycle --------------------------
(***************************************************************************)
(* What the application promises of one message, as the user sees it: the  *)
(* state machine of wp_brain.md 6.2, without workers, timestamps or lost   *)
(* updates, and with the number of times WhatsApp has the message against  *)
(* the number of times the user asked for it.  SendFlow implements it.     *)
(***************************************************************************)
EXTENDS Naturals

CONSTANT Ids

VARIABLES
    status,      \* the row's status, "ABSENT" without a row
    requested,   \* times the user scheduled or resent the message
    delivered    \* times WhatsApp has got it

vars == <<status, requested, delivered>>

Statuses == {"ABSENT", "PENDING", "CLAIMED", "CONNECTING", "SENDING",
             "SENT_CONFIRMED", "RETRYABLE_FAILURE", "FINAL_FAILURE",
             "NEEDS_REVIEW"}

Init ==
    /\ status = [id \in Ids |-> "ABSENT"]
    /\ requested = [id \in Ids |-> 0]
    /\ delivered = [id \in Ids |-> 0]

\* The arrows of the state machine that no user takes.
Successors(s) ==
    CASE s = "PENDING"           -> {"CLAIMED", "FINAL_FAILURE"}
      [] s = "CLAIMED"           -> {"CONNECTING", "PENDING", "FINAL_FAILURE"}
      [] s = "CONNECTING"        -> {"SENDING", "PENDING"}
      [] s = "SENDING"           -> {"SENT_CONFIRMED", "RETRYABLE_FAILURE",
                                     "FINAL_FAILURE", "NEEDS_REVIEW"}
      [] s = "RETRYABLE_FAILURE" -> {"PENDING"}
      [] OTHER                   -> {}

\* SENT_CONFIRMED needs a delivery.
Arrow(id, s) ==
    /\ s \in Successors(status[id])
    /\ s = "SENT_CONFIRMED" => delivered[id] > 0

\* A statement on the whole table may move several messages at once.
Proceed ==
    /\ status' \in [Ids -> Statuses]
    /\ \A id \in Ids : status'[id] # status[id] => Arrow(id, status'[id])
    /\ UNCHANGED <<requested, delivered>>

Schedule(id) ==
    /\ requested[id] = 0
    /\ status[id] = "ABSENT"
    /\ status' = [status EXCEPT ![id] = "PENDING"]
    /\ requested' = [requested EXCEPT ![id] = 1]
    /\ UNCHANGED delivered

Delete(id) ==
    /\ status[id] # "ABSENT"
    /\ status' = [status EXCEPT ![id] = "ABSENT"]
    /\ UNCHANGED <<requested, delivered>>

\* Only a message under review is resent; a resend of a deleted row is idle.
Resend(id) ==
    /\ \/ status[id] = "NEEDS_REVIEW" /\ status' = [status EXCEPT ![id] = "PENDING"]
       \/ status[id] = "ABSENT" /\ UNCHANGED status
    /\ requested[id] > 0
    /\ requested' = [requested EXCEPT ![id] = @ + 1]
    /\ UNCHANGED delivered

\* At most once per request, and never a message that waits for its turn.
Deliver(id) ==
    /\ delivered[id] < requested[id]
    /\ status[id] \in {"PENDING", "CLAIMED", "CONNECTING", "RETRYABLE_FAILURE"}
       => delivered[id] + 1 < requested[id]
    /\ delivered' = [delivered EXCEPT ![id] = @ + 1]
    /\ UNCHANGED <<status, requested>>

Next ==
    \/ Proceed
    \/ \E id \in Ids : Schedule(id) \/ Delete(id) \/ Resend(id) \/ Deliver(id)

Spec == Init /\ [][Next]_vars

=============================================================================
