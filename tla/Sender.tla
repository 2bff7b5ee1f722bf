-------------------------------- MODULE Sender --------------------------------
(***************************************************************************)
(* sendMessage of the engine (sender.js): a message's voice note, file and *)
(* text go out as separate WhatsApp messages, and completedParts remembers *)
(* across retries which of them have.                                      *)
(*                                                                         *)
(* A step is the code between two awaits.  Several calls run at a time,    *)
(* for one message too: NodeBridge gives up on a call that goes on in the  *)
(* engine.  A Set of parts is an object: a call keeps the one it was given *)
(* when the map has dropped it, so Sets are named by the call that made    *)
(* them.  Baileys' sock.sendMessage is external: it resolves when the      *)
(* message is out, or rejects and nothing is.                              *)
(***************************************************************************)
EXTENDS Integers, FiniteSets, SequencesExt

CONSTANTS
    Msgs,
    Calls,         \* sendMessage invocations; each is made once
    NoMsg, NoCall,
    Payloads,      \* the payloads messages are given
    Cap,           \* the 50 of trackParts
    MaxLost,       \* bound: files lost
    MaxGiveUps,    \* bound: calls Kotlin gives up on
    MaxRestarts    \* bound: restarts of the engine process

ASSUME SenderAssumption ==
    /\ NoMsg \notin Msgs
    /\ NoCall \notin Calls
    /\ \A p \in Payloads :
          /\ p.parts # {} /\ p.parts \subseteq {"voice", "doc", "text"}
          /\ p.image \in BOOLEAN /\ (p.image => "doc" \in p.parts)
    /\ Cap \in Nat \ {0}
    /\ MaxLost \in Nat
    /\ MaxGiveUps \in Nat
    /\ MaxRestarts \in Nat

VARIABLES
    content,         \* the payload of a message: its parts, is its file an image
    lost,            \* parts whose file is missing, empty or too large
    completedParts,  \* the Map, in insertion order
    done,            \* the Set of parts each call has made
    calls,
    awaited,         \* the call Kotlin is waiting for, per message
    over,            \* messages Kotlin has a definite answer for
    delivered,       \* how often each part has reached the recipient
    excused,         \* messages whose record of parts could not help
    gaveUp, restarts

vars == <<content, lost, completedParts, done, calls, awaited, over, delivered,
          excused, gaveUp, restarts>>

Order == <<"voice", "doc", "text">>
Parts == ToSet(Order)
Results == {"success", "retryable", "final"}

Entry == [id : Msgs, set : Calls]
\* pc: awaiting sock.sendMessage or not; wire: the parts that message carries
Call == [pc : {"unused", "asked", "sending", "dead"} \cup Results, id : Msgs \cup {NoMsg},
         set : Calls \cup {NoCall}, wire : SUBSET Parts]

Running(c) == calls[c].pc \in {"asked", "sending"}
Ids == {completedParts[i].id : i \in DOMAIN completedParts}
EntryOf(m) == CHOOSE e \in ToSet(completedParts) : e.id = m

TypeOK ==
    /\ content \in [Msgs -> Payloads]
    /\ lost \in [Msgs -> SUBSET Parts]
    /\ completedParts \in Seq(Entry)
    /\ Len(completedParts) <= Cap
    /\ \A i, j \in DOMAIN completedParts : completedParts[i].id = completedParts[j].id => i = j
    /\ done \in [Calls -> SUBSET Parts]
    /\ calls \in [Calls -> Call]
    /\ awaited \in [Msgs -> Calls \cup {NoCall}]
    /\ over \subseteq Msgs
    /\ delivered \in [Msgs -> [Parts -> Nat]]
    /\ excused \subseteq Msgs
    /\ gaveUp \in 0 .. MaxGiveUps
    /\ restarts \in 0 .. MaxRestarts

Init ==
    /\ content \in [Msgs -> Payloads]
    /\ lost = [m \in Msgs |-> {}]
    /\ completedParts = <<>>
    /\ done = [c \in Calls |-> {}]
    /\ calls = [c \in Calls |-> [pc |-> "unused", id |-> NoMsg, set |-> NoCall, wire |-> {}]]
    /\ awaited = [m \in Msgs |-> NoCall]
    /\ over = {}
    /\ delivered = [m \in Msgs |-> [p \in Parts |-> 0]]
    /\ excused = {}
    /\ gaveUp = 0
    /\ restarts = 0

-----------------------------------------------------------------------------
(* completedParts *)

Full == Len(completedParts) >= Cap

\* the oldest entry, when a new one does not fit
Evicted == IF Full THEN {Head(completedParts)} ELSE {}

\* trackParts for a message that has no entry
Track(m, c) ==
    Append(IF Full THEN Tail(completedParts) ELSE completedParts, [id |-> m, set |-> c])

\* completedParts.delete(messageId)
Forget(m, entries) ==
    LET places == {i \in DOMAIN entries : entries[i].id = m}
    IN  IF places = {} THEN entries ELSE RemoveAt(entries, CHOOSE i \in places : TRUE)

(* Kotlin's pending call is completed by the answer, unless it has given it up. *)
Answer(c, m, result) ==
    IF awaited[m] = c
    THEN /\ awaited' = [awaited EXCEPT ![m] = NoCall]
         /\ over' = IF result = "retryable" THEN over ELSE over \cup {m}
    ELSE UNCHANGED <<awaited, over>>

(* The code from one part to the next await or return, given the Set. *)

\* mutant: the text goes first
TextFirst(todo) == CHOOSE part \in todo : "text" \in todo => part = "text"

FirstOf(todo) == Order[CHOOSE i \in 1 .. 3 : /\ Order[i] \in todo
                                             /\ \A j \in 1 .. i - 1 : Order[j] \notin todo]

\* An image takes the text along as its caption.
Wire(m, part, have) ==
    IF part = "doc" /\ content[m].image
    THEN {"doc"} \cup ((content[m].parts \cap {"text"}) \ have)
    ELSE {part}

Return(c, m, result) ==
    /\ calls' = [calls EXCEPT ![c] = [pc |-> result, id |-> m, set |-> NoCall,
                                     wire |-> {}]]
    /\ Answer(c, m, result)

Proceed(c, m, s, have, tracked) ==
    LET todo == content[m].parts \ have
        part == FirstOf(todo)
    IN  \/ /\ todo = {}
           /\ completedParts' = Forget(m, tracked)
           /\ Return(c, m, "success")
        \/ /\ todo # {}
           /\ completedParts' = tracked
           /\ IF part \in lost[m]
              THEN Return(c, m, "final")
              ELSE /\ calls' = [calls EXCEPT ![c] = [pc |-> "sending", id |-> m, set |-> s,
                                                     wire |-> Wire(m, part, have)]]
                   /\ UNCHANGED <<awaited, over>>

-----------------------------------------------------------------------------
(* Kotlin's side: NodeBridge asks, and retries what may be retried.  A message
   is asked for again while a call for it runs, or after one has succeeded, only
   when the user resends a message whose answer never came. *)
Ask(m, c) ==
    LET earlier == {d \in Calls : calls[d].id = m /\ (Running(d) \/ calls[d].pc = "success")}
    IN  /\ calls[c].pc = "unused"
        /\ awaited[m] = NoCall /\ m \notin over
        /\ awaited' = [awaited EXCEPT ![m] = c]
        /\ calls' = [calls EXCEPT ![c].pc = "asked", ![c].id = m]
        /\ excused' = IF earlier # {} THEN excused \cup {m} ELSE excused
        /\ UNCHANGED <<content, lost, completedParts, done, over, delivered, gaveUp, restarts>>

\* the call's timeout, or the loss of the channel
GiveUp(m) ==
    /\ awaited[m] # NoCall
    /\ gaveUp < MaxGiveUps
    /\ gaveUp' = gaveUp + 1
    /\ awaited' = [awaited EXCEPT ![m] = NoCall]
    /\ UNCHANGED <<content, lost, completedParts, done, calls, over, delivered, excused,
                   restarts>>

(* sendMessage with no socket: nothing is tracked. *)
NotConnected(c) ==
    /\ calls[c].pc = "asked"
    /\ Return(c, calls[c].id, "retryable")
    /\ UNCHANGED <<content, lost, completedParts, done, delivered, excused, gaveUp, restarts>>

(* sendMessage with a socket, for a message that has a Set. *)
StartsTracked(c) ==
    LET m == calls[c].id
    IN  /\ calls[c].pc = "asked"
        /\ m \in Ids
        /\ Proceed(c, m, EntryOf(m).set, done[EntryOf(m).set], completedParts)
        /\ UNCHANGED <<content, lost, done, delivered, excused, gaveUp, restarts>>

(* sendMessage with a socket, for a message that has none: the Map may have to
   drop another message's Set. *)
StartsUntracked(c) ==
    LET m == calls[c].id
    IN  /\ calls[c].pc = "asked"
        /\ m \notin Ids
        /\ Proceed(c, m, c, {}, Track(m, c))
        /\ excused' = excused \cup {e.id : e \in Evicted}
        /\ UNCHANGED <<content, lost, done, delivered, gaveUp, restarts>>

\* mutant: a document marks the text as well, as an image does
MarkedWithAnyFile(c) ==
    calls[c].wire \cup (IF "doc" \in calls[c].wire THEN {"text"} ELSE {})

\* done.add after the await
Marked(c) == calls[c].wire

(* sock.sendMessage resolves: the parts are marked and the call goes on. *)
PartSent(c) ==
    LET m == calls[c].id
        s == calls[c].set
        have == done[s] \cup Marked(c)
    IN  /\ calls[c].pc = "sending"
        /\ done' = [done EXCEPT ![s] = have]
        /\ delivered' = [delivered EXCEPT ![m] =
               [p \in Parts |-> IF p \in calls[c].wire THEN @[p] + 1 ELSE @[p]]]
        /\ Proceed(c, m, s, have, completedParts)
        /\ UNCHANGED <<content, lost, excused, gaveUp, restarts>>

\* mutant: a failure forgets which parts are out
KeptNothing(m) == Forget(m, completedParts)

\* what a failure leaves in the Map
Kept(m) == completedParts

(* sock.sendMessage rejects: classifyError decides whether a retry may help. *)
PartFails(c) ==
    /\ calls[c].pc = "sending"
    /\ \E result \in {"retryable", "final"} : Return(c, calls[c].id, result)
    /\ completedParts' = Kept(calls[c].id)
    /\ UNCHANGED <<content, lost, done, delivered, excused, gaveUp, restarts>>

-----------------------------------------------------------------------------
(* The surroundings *)

\* A staged file disappears or is truncated (cleanup, the user).
FileLost(m, part) ==
    /\ part \in content[m].parts \ {"text"}
    /\ part \notin lost[m]
    /\ Cardinality({x \in Msgs \X Parts : x[2] \in lost[x[1]]}) < MaxLost
    /\ lost' = [lost EXCEPT ![m] = @ \cup {part}]
    /\ UNCHANGED <<content, completedParts, done, calls, awaited, over, delivered, excused,
                   gaveUp, restarts>>

\* The engine's process ends: its calls and its Map are gone.
Restart ==
    /\ restarts < MaxRestarts
    /\ restarts' = restarts + 1
    /\ completedParts' = <<>>
    /\ calls' = [c \in Calls |-> IF Running(c) THEN [calls[c] EXCEPT !.pc = "dead", !.set = NoCall,
                                                                !.wire = {}]
                                 ELSE calls[c]]
    /\ awaited' = [m \in Msgs |-> NoCall]
    /\ excused' = excused \cup Ids
    /\ UNCHANGED <<content, lost, done, over, delivered, gaveUp>>

Next ==
    \/ \E m \in Msgs, c \in Calls : Ask(m, c)
    \/ \E m \in Msgs : GiveUp(m)
    \/ \E c \in Calls : \/ NotConnected(c) \/ StartsTracked(c) \/ StartsUntracked(c)
                        \/ PartSent(c) \/ PartFails(c)
    \/ \E m \in Msgs, part \in Parts : FileLost(m, part)
    \/ Restart

Spec == Init /\ [][Next]_vars

-----------------------------------------------------------------------------
(* Properties *)

(* "If part 2 fails after part 1 went out, a naive retry would DUPLICATE part 1":
   no part of a message reaches the recipient twice, over all its retries and
   with other messages' calls in between, unless the user resends it without an
   answer, the process restarts, or the Map overflows. *)
PartsOnce ==
    \A m \in Msgs \ excused : \A p \in Parts : delivered[m][p] <= 1

(* A call answers success only when every part of the message has reached the
   recipient, however many calls, overlapping ones too, have contributed: this
   is the answer NodeBridge turns into SENT_CONFIRMED. *)
SuccessIsComplete ==
    \A c \in Calls : calls[c].pc = "success" =>
        \A p \in content[calls[c].id].parts : delivered[calls[c].id][p] > 0

(* The parts of a message reach the recipient in order: when the text arrives
   for the first time the voice note and the file are there, whatever failed and
   was retried before. *)
InOrder ==
    [][\A m \in Msgs :
          delivered[m]["text"] = 0 /\ delivered'[m]["text"] > 0 =>
              \A p \in content[m].parts : delivered'[m][p] > 0]_vars

=============================================================================
