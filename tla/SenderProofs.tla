---------------------------- MODULE SenderProofs ----------------------------
(***************************************************************************)
(* What Sender promises for any number of messages and calls, any payload, *)
(* any size of the Map and any number of failures and restarts: no part of *)
(* a message goes out twice, success means that all parts are out, and the *)
(* text comes last.                                                        *)
(*                                                                         *)
(* The argument is about the Sets of parts, which calls share: a Set is    *)
(* used for one message only, what is in it is out (DoneIsOut), and for a  *)
(* message that is not excused the one Set there is holds exactly what is  *)
(* out, nothing of which the one call in progress carries (Tracked).       *)
(***************************************************************************)
EXTENDS Sender, SequenceTheorems, TLAPS

\* The message id of a call, and whether a call has come to make a Set
IdOf(c) == calls[c].id
Made(c) == calls[c].pc \notin {"unused", "asked"}
Entries == ToSet(completedParts)

\* A Set is used for the message of the call that made it and for no other.
SetsFit ==
    /\ \A c \in Calls : IF calls[c].pc = "unused" THEN IdOf(c) = NoMsg ELSE IdOf(c) \in Msgs
    /\ \A e \in Entries : Made(e.set) /\ IdOf(e.set) = e.id
    /\ \A c \in Calls : calls[c].pc = "sending" =>
          calls[c].set \in Calls /\ Made(calls[c].set) /\ IdOf(calls[c].set) = IdOf(c)
    /\ \A c \in Calls : done[c] # {} => Made(c)

\* A part that is marked is out.
DoneIsOut == \A c \in Calls : \A p \in done[c] : delivered[IdOf(c)][p] > 0

\* A text under way takes along or follows everything else.
TextLast ==
    \A c \in Calls : calls[c].pc = "sending" /\ "text" \in calls[c].wire =>
        \A p \in content[IdOf(c)].parts : p \in calls[c].wire \/ delivered[IdOf(c)][p] > 0

\* A message that is not excused has one call at a time and, until one succeeds,
\* what is marked for it is what is out.
OneCall(m) ==
    \A c, d \in Calls :
        IdOf(c) = m /\ IdOf(d) = m /\ Running(c) /\ (Running(d) \/ calls[d].pc = "success") => c = d
Recorded(m) ==
    /\ \A e \in Entries : e.id = m => \A p \in Parts : delivered[m][p] = IF p \in done[e.set] THEN 1 ELSE 0
    /\ \A c \in Calls : IdOf(c) = m /\ calls[c].pc = "sending" =>
          /\ [id |-> m, set |-> calls[c].set] \in Entries
          /\ calls[c].wire \cap done[calls[c].set] = {}
    /\ \/ m \in Ids \/ \E c \in Calls : IdOf(c) = m /\ calls[c].pc = "success"
       \/ \A p \in Parts : delivered[m][p] = 0
    /\ \A p \in Parts : delivered[m][p] <= 1
Tracked == \A m \in Msgs \ excused : OneCall(m) /\ Recorded(m)

-----------------------------------------------------------------------------
(* Parts *)

LEMMA PartsFacts == Parts = {"voice", "doc", "text"} /\ Order \in [1 .. 3 -> Parts]
  BY DEF Parts, Order, ToSet

\* The first part to do: the text only when nothing else is left, the file only
\* when the voice note is not.
LEMMA FirstOfFacts ==
  ASSUME NEW todo \in SUBSET Parts, todo # {}
  PROVE  /\ FirstOf(todo) \in todo
         /\ FirstOf(todo) = "text" => todo = {"text"}
         /\ FirstOf(todo) = "doc" => "voice" \notin todo
  <1>. DEFINE P(i) == Order[i] \in todo /\ \A j \in 1 .. i - 1 : Order[j] \notin todo
              k == CHOOSE i \in 1 .. 3 : P(i)
  <1>1. Order[1] = "voice" /\ Order[2] = "doc" /\ Order[3] = "text"
    BY DEF Order
  <1>2. \E i \in 1 .. 3 : P(i)
    <2>1. CASE "voice" \in todo
      <3>1. P(1)
        BY <1>1, <2>1
      <3>. QED
        BY <3>1
    <2>2. CASE "voice" \notin todo /\ "doc" \in todo
      <3>1. P(2)
        BY <1>1, <2>2
      <3>. QED
        BY <3>1
    <2>3. CASE "voice" \notin todo /\ "doc" \notin todo
      <3>1. "text" \in todo
        BY <2>3, PartsFacts
      <3>2. P(3)
        BY <1>1, <2>3, <3>1
      <3>. QED
        BY <3>2
    <2>. QED
      BY <2>1, <2>2, <2>3
  <1>3. k \in 1 .. 3 /\ P(k)
    BY <1>2
  <1>4. FirstOf(todo) = Order[k]
    BY DEF FirstOf
  <1>5. Order[k] \in todo /\ \A j \in 1 .. 3 : j < k => Order[j] \notin todo
    BY <1>3
  <1>. HIDE DEF k
  <1>6. /\ Order[k] = "text" => "voice" \notin todo /\ "doc" \notin todo
        /\ Order[k] = "doc" => "voice" \notin todo
    <2>1. CASE k = 1
      BY <1>1, <2>1
    <2>2. CASE k = 2
      <3>1. Order[1] \notin todo
        BY <1>5, <2>2
      <3>. QED
        BY <1>1, <2>2, <3>1
    <2>3. CASE k = 3
      <3>1. Order[1] \notin todo /\ Order[2] \notin todo
        BY <1>5, <2>3
      <3>. QED
        BY <1>1, <2>3, <3>1
    <2>. QED
      BY <1>3, <2>1, <2>2, <2>3
  <1>. QED
    BY <1>4, <1>5, <1>6, PartsFacts

\* What goes out next is to be done, and a text goes out last.
NextWire(m, have) == Wire(m, FirstOf(content[m].parts \ have), have)

LEMMA WireFacts ==
  ASSUME TypeOK, NEW m \in Msgs, NEW have \in SUBSET Parts, content[m].parts \ have # {}
  PROVE  /\ NextWire(m, have) \in SUBSET Parts
         /\ NextWire(m, have) \cap have = {}
         /\ "text" \in NextWire(m, have) => content[m].parts \subseteq NextWire(m, have) \cup have
  <1>. DEFINE part == FirstOf(content[m].parts \ have)
  <1>0. NextWire(m, have) = Wire(m, part, have)
    BY DEF NextWire
  <1>1. content[m].parts \in SUBSET Parts
    BY SenderAssumption, PartsFacts DEF TypeOK
  <1>2. /\ part \in content[m].parts \ have
        /\ part = "text" => content[m].parts \ have = {"text"}
        /\ part = "doc" => "voice" \notin content[m].parts \ have
    BY <1>1, FirstOfFacts
  <1>. HIDE DEF part
  <1>3. CASE part = "doc" /\ content[m].image
    <2>1. Wire(m, part, have) = {"doc"} \cup ((content[m].parts \cap {"text"}) \ have)
      BY <1>3 DEF Wire
    <2>. QED
      BY <1>0, <1>1, <1>2, <1>3, <2>1, PartsFacts
  <1>4. CASE ~(part = "doc" /\ content[m].image)
    <2>1. Wire(m, part, have) = {part}
      BY <1>4 DEF Wire
    <2>. QED
      BY <1>0, <1>1, <1>2, <2>1
  <1>. QED
    BY <1>3, <1>4

-----------------------------------------------------------------------------
(* The Map *)

\* What a sequence is without the element in place k.
LEMMA RemoveAtFacts ==
  ASSUME NEW S, NEW s \in Seq(S), NEW k \in 1 .. Len(s)
  PROVE  /\ RemoveAt(s, k) \in Seq(S)
         /\ Len(RemoveAt(s, k)) = Len(s) - 1
         /\ \A i \in 1 .. Len(s) - 1 : RemoveAt(s, k)[i] = IF i < k THEN s[i] ELSE s[i + 1]
  <1>. DEFINE left == SubSeq(s, 1, k - 1)
              right == SubSeq(s, k + 1, Len(s))
  <1>0. Len(s) \in Nat /\ k \in Int /\ \A i \in 1 .. Len(s) : s[i] \in S
    BY LenProperties, ElementOfSeq
  <1>1. left \in Seq(S) /\ Len(left) = k - 1 /\ \A i \in 1 .. k - 1 : left[i] = s[i]
    <2>1. \A i \in 1 .. k - 1 : s[i] \in S
      BY <1>0
    <2>. QED
      BY <1>0, <2>1, SubSeqProperties
  <1>2. right \in Seq(S) /\ Len(right) = Len(s) - k
        /\ \A i \in 1 .. Len(s) - k : right[i] = s[k + i]
    <2>1. \A i \in k + 1 .. Len(s) : s[i] \in S
      BY <1>0
    <2>. QED
      BY <1>0, <2>1, SubSeqProperties
  <1>. HIDE DEF left, right
  <1>3. RemoveAt(s, k) = left \o right
    BY DEF RemoveAt, left, right
  <1>4. /\ left \o right \in Seq(S)
        /\ Len(left \o right) = (k - 1) + (Len(s) - k)
        /\ \A i \in 1 .. (k - 1) + (Len(s) - k) :
              (left \o right)[i] = IF i <= k - 1 THEN left[i] ELSE right[i - (k - 1)]
    <2>1. /\ left \o right \in Seq(S)
          /\ Len(left \o right) = Len(left) + Len(right)
          /\ \A i \in 1 .. Len(left) + Len(right) :
                (left \o right)[i] = IF i <= Len(left) THEN left[i] ELSE right[i - Len(left)]
      BY <1>1, <1>2, ConcatProperties
    <2>. QED
      BY <1>1, <1>2, <2>1
  <1>5. \A i \in 1 .. Len(s) - 1 :
              (left \o right)[i] = IF i < k THEN s[i] ELSE s[i + 1]
    <2>. SUFFICES ASSUME NEW i \in 1 .. Len(s) - 1
                  PROVE  (left \o right)[i] = IF i < k THEN s[i] ELSE s[i + 1]
      OBVIOUS
    <2>0. i \in 1 .. (k - 1) + (Len(s) - k)
      BY <1>0
    <2>1. (left \o right)[i] = IF i <= k - 1 THEN left[i] ELSE right[i - (k - 1)]
      BY <1>4, <2>0
    <2>2. CASE i < k
      <3>1. i \in 1 .. k - 1 /\ i <= k - 1
        BY <1>0, <2>2
      <3>. QED
        BY <1>1, <2>1, <2>2, <3>1
    <2>3. CASE ~(i < k)
      <3>1. i - (k - 1) \in 1 .. Len(s) - k /\ k + (i - (k - 1)) = i + 1 /\ ~(i <= k - 1)
        BY <1>0, <2>3, k \in 1 .. Len(s)
      <3>2. right[i - (k - 1)] = s[i + 1]
        BY <1>2, <3>1
      <3>. QED
        BY <2>1, <2>3, <3>1, <3>2
    <2>. QED
      BY <2>2, <2>3
  <1>. QED
    BY <1>0, <1>3, <1>4, <1>5

\* A Map without two entries for a message
Distinct(s) == \A i, j \in DOMAIN s : s[i].id = s[j].id => i = j

\* Deleting a message's entry, evicting the oldest, adding one
LEMMA ForgetFacts ==
  ASSUME NEW s \in Seq(Entry), Distinct(s), NEW m
  PROVE  /\ Forget(m, s) \in Seq(Entry) /\ Len(Forget(m, s)) <= Len(s) /\ Distinct(Forget(m, s))
         /\ ToSet(Forget(m, s)) = {e \in ToSet(s) : e.id # m}
  <1>0. DOMAIN s = 1 .. Len(s) /\ Len(s) \in Nat
    BY LenProperties
  <1>. DEFINE places == {i \in DOMAIN s : s[i].id = m}
              k == CHOOSE i \in places : TRUE
  <1>1. CASE places = {}
    <2>1. Forget(m, s) = s
      BY <1>1 DEF Forget
    <2>. QED
      BY <1>0, <1>1, <2>1 DEF ToSet
  <1>2. CASE places # {}
    <2>1. k \in 1 .. Len(s) /\ s[k].id = m
      BY <1>0, <1>2
    <2>2. Forget(m, s) = RemoveAt(s, k)
      BY <1>2 DEF Forget
    <2>. HIDE DEF places, k
    <2>. DEFINE t == RemoveAt(s, k)
    <2>3. /\ t \in Seq(Entry) /\ Len(t) = Len(s) - 1
          /\ \A i \in 1 .. Len(s) - 1 : t[i] = IF i < k THEN s[i] ELSE s[i + 1]
      BY <2>1, RemoveAtFacts
    <2>4. DOMAIN t = 1 .. Len(s) - 1
      BY <2>3, LenProperties
    <2>. HIDE DEF t
    <2>. DEFINE to(i) == IF i < k THEN i ELSE i + 1
    <2>5. \A i \in DOMAIN t : to(i) \in DOMAIN s /\ to(i) # k /\ t[i] = s[to(i)]
      BY <1>0, <2>1, <2>3, <2>4
    <2>6. \A i, j \in DOMAIN t : to(i) = to(j) => i = j
      BY <1>0, <2>1, <2>4
    <2>7. \A i \in DOMAIN s : i # k => \E j \in DOMAIN t : to(j) = i
      <3>. SUFFICES ASSUME NEW i \in DOMAIN s, i # k PROVE \E j \in DOMAIN t : to(j) = i
        OBVIOUS
      <3>1. CASE i < k
        <4>1. i \in DOMAIN t /\ to(i) = i
          BY <1>0, <2>1, <2>4, <3>1
        <4>. QED
          BY <4>1
      <3>2. CASE i > k
        <4>1. i - 1 \in DOMAIN t /\ to(i - 1) = i
          BY <1>0, <2>1, <2>4, <3>2
        <4>. QED
          BY <4>1
      <3>. QED
        BY <1>0, <2>1, <3>1, <3>2
    <2>. HIDE DEF to
    <2>8. Distinct(t)
      BY <2>5, <2>6 DEF Distinct
    <2>9. ToSet(t) = {e \in ToSet(s) : e.id # m}
      <3>1. \A i \in DOMAIN s : s[i].id = m => i = k
        BY <1>0, <2>1 DEF Distinct
      <3>. QED
        BY <1>0, <2>1, <2>5, <2>7, <3>1 DEF ToSet
    <2>. QED
      BY <1>0, <2>2, <2>3, <2>8, <2>9 DEF t
  <1>. QED
    BY <1>1, <1>2

LEMMA TailFacts ==
  ASSUME NEW s \in Seq(Entry), Distinct(s), s # << >>
  PROVE  /\ Tail(s) \in Seq(Entry) /\ Len(Tail(s)) = Len(s) - 1 /\ Distinct(Tail(s))
         /\ Head(s) \in ToSet(s)
         /\ ToSet(Tail(s)) = ToSet(s) \ {Head(s)}
  <1>0. /\ DOMAIN s = 1 .. Len(s) /\ Len(s) \in Nat /\ Len(s) # 0 /\ Head(s) = s[1]
        /\ Tail(s) \in Seq(Entry) /\ Len(Tail(s)) = Len(s) - 1
        /\ \A i \in 1 .. Len(Tail(s)) : Tail(s)[i] = s[i + 1]
    BY LenProperties, HeadTailProperties, EmptySeq
  <1>. DEFINE t == Tail(s)
  <1>1. DOMAIN t = 1 .. Len(s) - 1
    BY <1>0, LenProperties
  <1>2. \A i \in DOMAIN t : t[i] = s[i + 1] /\ i + 1 \in DOMAIN s
    BY <1>0, <1>1
  <1>. HIDE DEF t
  <1>3. Distinct(t)
    <2>. SUFFICES ASSUME NEW i \in DOMAIN t, NEW j \in DOMAIN t, t[i].id = t[j].id PROVE i = j
      BY DEF Distinct
    <2>1. i + 1 = j + 1
      BY <1>2 DEF Distinct
    <2>. QED
      BY <1>0, <1>1, <2>1
  <1>4. \A i \in DOMAIN s : i # 1 => i - 1 \in DOMAIN t /\ t[i - 1] = s[i]
    BY <1>0, <1>1, <1>2
  <1>5. 1 \in DOMAIN s
    BY <1>0
  <1>6. \A i \in DOMAIN t : t[i] # s[1]
    <2>. SUFFICES ASSUME NEW i \in DOMAIN t, t[i] = s[1] PROVE FALSE
      OBVIOUS
    <2>1. i + 1 = 1
      BY <1>2, <1>5 DEF Distinct
    <2>. QED
      BY <1>0, <1>1, <2>1
  <1>7. ToSet(t) = ToSet(s) \ {s[1]}
    BY <1>0, <1>2, <1>4, <1>6 DEF ToSet
  <1>. QED
    BY <1>0, <1>3, <1>5, <1>7 DEF t, ToSet

LEMMA AppendFacts ==
  ASSUME NEW s \in Seq(Entry), Distinct(s), NEW x \in Entry, \A e \in ToSet(s) : e.id # x.id
  PROVE  /\ Append(s, x) \in Seq(Entry) /\ Len(Append(s, x)) = Len(s) + 1 /\ Distinct(Append(s, x))
         /\ ToSet(Append(s, x)) = ToSet(s) \cup {x}
  <1>. DEFINE t == Append(s, x)
              n == Len(s)
  <1>0. /\ DOMAIN s = 1 .. n /\ n \in Nat
        /\ t \in Seq(Entry) /\ Len(t) = n + 1 /\ DOMAIN t = 1 .. n + 1
        /\ \A i \in 1 .. n : t[i] = s[i]
        /\ t[n + 1] = x
    BY LenProperties, AppendProperties
  <1>. HIDE DEF t, n
  <1>1. \A i \in DOMAIN t : i \in DOMAIN s \/ i = n + 1
    BY <1>0
  <1>2. \A i \in DOMAIN s : i \in DOMAIN t /\ t[i] = s[i] /\ s[i] \in ToSet(s)
    BY <1>0 DEF ToSet
  <1>3. n + 1 \in DOMAIN t /\ n + 1 \notin DOMAIN s
    BY <1>0
  <1>4. Distinct(t)
    BY <1>0, <1>1, <1>2 DEF Distinct
  <1>5. ToSet(t) = ToSet(s) \cup {x}
    BY <1>0, <1>1, <1>2, <1>3 DEF ToSet
  <1>. QED
    BY <1>0, <1>4, <1>5 DEF t, n

LEMMA EntriesFit ==
  ASSUME TypeOK
  PROVE  /\ DOMAIN completedParts = 1 .. Len(completedParts) /\ Len(completedParts) \in Nat
         /\ Entries \subseteq Entry
         /\ Ids = {e.id : e \in Entries}
  <1>1. DOMAIN completedParts = 1 .. Len(completedParts) /\ Len(completedParts) \in Nat
    BY LenProperties DEF TypeOK
  <1>2. \A i \in DOMAIN completedParts : completedParts[i] \in Entry
    BY <1>1, ElementOfSeq DEF TypeOK
  <1>. QED
    BY <1>1, <1>2 DEF Entries, Ids, ToSet

LEMMA TrackFacts ==
  ASSUME TypeOK, NEW m \in Msgs \ Ids, NEW c \in Calls
  PROVE  /\ Track(m, c) \in Seq(Entry) /\ Len(Track(m, c)) <= Cap /\ Distinct(Track(m, c))
         /\ ToSet(Track(m, c)) = (Entries \ Evicted) \cup {[id |-> m, set |-> c]}
         /\ Evicted \subseteq Entries
  <1>. DEFINE kept == IF Full THEN Tail(completedParts) ELSE completedParts
              x == [id |-> m, set |-> c]
  <1>0. completedParts \in Seq(Entry) /\ Distinct(completedParts) /\ Len(completedParts) \in Nat
        /\ Len(completedParts) <= Cap /\ Cap \in Nat \ {0}
    BY SenderAssumption, EntriesFit DEF TypeOK, Distinct
  <1>1. /\ kept \in Seq(Entry) /\ Len(kept) \in Nat /\ Len(kept) + 1 <= Cap /\ Distinct(kept)
        /\ ToSet(kept) = Entries \ Evicted /\ Evicted \subseteq Entries
    <2>1. CASE Full
      <3>1. completedParts # << >>
        BY <1>0, <2>1, EmptySeq DEF Full
      <3>2. /\ Tail(completedParts) \in Seq(Entry)
            /\ Len(Tail(completedParts)) = Len(completedParts) - 1
            /\ Distinct(Tail(completedParts)) /\ Head(completedParts) \in Entries
            /\ ToSet(Tail(completedParts)) = Entries \ {Head(completedParts)}
        BY <1>0, <3>1, TailFacts DEF Entries
      <3>3. Len(Tail(completedParts)) \in Nat
        BY <3>2, LenProperties
      <3>. QED
        BY <1>0, <2>1, <3>2, <3>3 DEF Evicted
    <2>2. CASE ~Full
      <3>1. Len(completedParts) + 1 <= Cap
        BY <1>0, <2>2 DEF Full
      <3>. QED
        BY <1>0, <2>2, <3>1 DEF Evicted, Entries
    <2>. QED
      BY <2>1, <2>2
  <1>2. x \in Entry /\ \A e \in ToSet(kept) : e.id # x.id
    BY <1>1, EntriesFit DEF Entry
  <1>3. Track(m, c) = Append(kept, x)
    BY DEF Track
  <1>. HIDE DEF kept, x
  <1>4. /\ Append(kept, x) \in Seq(Entry) /\ Len(Append(kept, x)) = Len(kept) + 1
        /\ Distinct(Append(kept, x)) /\ ToSet(Append(kept, x)) = ToSet(kept) \cup {x}
    BY <1>1, <1>2, AppendFacts
  <1>. QED
    BY <1>0, <1>1, <1>3, <1>4 DEF x

LEMMA EntryOfFacts ==
  ASSUME TypeOK, NEW m \in Ids
  PROVE  /\ EntryOf(m) \in Entries /\ EntryOf(m).id = m /\ EntryOf(m).set \in Calls
         /\ EntryOf(m) = [id |-> m, set |-> EntryOf(m).set]
  <1>1. \E e \in Entries : e.id = m
    BY EntriesFit
  <1>2. EntryOf(m) \in Entries /\ EntryOf(m).id = m
    BY <1>1 DEF EntryOf, Entries
  <1>3. EntryOf(m) \in Entry
    BY <1>2, EntriesFit
  <1>. QED
    BY <1>2, <1>3 DEF Entry

LEMMA OneEntry ==
  ASSUME TypeOK, NEW d \in Entries, NEW e \in Entries, d.id = e.id
  PROVE  d = e
  BY DEF Entries, ToSet, TypeOK

-----------------------------------------------------------------------------
(* What a call does between two awaits *)

Over(m, result) == [pc |-> result, id |-> m, set |-> NoCall, wire |-> {}]
Sending(m, s, w) == [pc |-> "sending", id |-> m, set |-> s, wire |-> w]

\* It succeeds and is forgotten, fails on a lost file, or sends the next part.
Outcome(c, m, s, have, tracked) ==
    \/ /\ content[m].parts \subseteq have
       /\ Entries' = {e \in tracked : e.id # m}
       /\ calls' = [calls EXCEPT ![c] = Over(m, "success")]
    \/ /\ Entries' = tracked
       /\ calls' = [calls EXCEPT ![c] = Over(m, "final")]
    \/ /\ Entries' = tracked
       /\ \E w \in SUBSET Parts :
             /\ calls' = [calls EXCEPT ![c] = Sending(m, s, w)]
             /\ w \cap have = {}
             /\ "text" \in w => content[m].parts \subseteq w \cup have

LEMMA AnswerFits ==
  ASSUME TypeOK, NEW c, NEW m \in Msgs, NEW result, Answer(c, m, result)
  PROVE  awaited' \in [Msgs -> Calls \cup {NoCall}] /\ over' \subseteq Msgs
  <1>1. CASE awaited[m] = c
    BY <1>1 DEF Answer, TypeOK
  <1>2. CASE awaited[m] # c
    BY <1>2 DEF Answer, TypeOK
  <1>. QED
    BY <1>1, <1>2

LEMMA ProceedFacts ==
  ASSUME TypeOK, NEW c \in Calls, NEW m \in Msgs, NEW s \in Calls, NEW have \in SUBSET Parts,
         NEW tracked \in Seq(Entry), Distinct(tracked), Len(tracked) <= Cap,
         Proceed(c, m, s, have, tracked)
  PROVE  /\ completedParts' \in Seq(Entry)
         /\ Len(completedParts') <= Cap /\ Distinct(completedParts')
         /\ awaited' \in [Msgs -> Calls \cup {NoCall}] /\ over' \subseteq Msgs
         /\ Outcome(c, m, s, have, ToSet(tracked))
  <1>. DEFINE todo == content[m].parts \ have
              part == FirstOf(todo)
  <1>1. CASE todo = {}
    <2>1. completedParts' = Forget(m, tracked) /\ Return(c, m, "success")
      BY <1>1 DEF Proceed
    <2>2. /\ Forget(m, tracked) \in Seq(Entry) /\ Len(Forget(m, tracked)) <= Len(tracked)
          /\ Distinct(Forget(m, tracked))
          /\ ToSet(Forget(m, tracked)) = {e \in ToSet(tracked) : e.id # m}
      BY ForgetFacts
    <2>3. Len(completedParts') <= Cap
      <3>1. Len(tracked) \in Nat /\ Len(Forget(m, tracked)) \in Nat /\ Cap \in Nat
        BY <2>2, LenProperties, SenderAssumption
      <3>. QED
        BY <2>1, <2>2, <3>1
    <2>4. awaited' \in [Msgs -> Calls \cup {NoCall}] /\ over' \subseteq Msgs
      BY <2>1, AnswerFits DEF Return
    <2>5. Outcome(c, m, s, have, ToSet(tracked))
      BY <1>1, <2>1, <2>2 DEF Outcome, Return, Over, Entries
    <2>. QED
      BY <2>1, <2>2, <2>3, <2>4, <2>5
  <1>2. CASE todo # {} /\ part \in lost[m]
    <2>1. completedParts' = tracked /\ Return(c, m, "final")
      BY <1>2 DEF Proceed
    <2>2. awaited' \in [Msgs -> Calls \cup {NoCall}] /\ over' \subseteq Msgs
      BY <2>1, AnswerFits DEF Return
    <2>3. Outcome(c, m, s, have, ToSet(tracked))
      BY <2>1 DEF Outcome, Return, Over, Entries
    <2>. QED
      BY <2>1, <2>2, <2>3
  <1>3. CASE todo # {} /\ part \notin lost[m]
    <2>1. /\ completedParts' = tracked /\ UNCHANGED <<awaited, over>>
          /\ calls' = [calls EXCEPT ![c] = Sending(m, s, NextWire(m, have))]
      BY <1>3 DEF Proceed, Sending, NextWire
    <2>2. /\ NextWire(m, have) \in SUBSET Parts /\ NextWire(m, have) \cap have = {}
          /\ "text" \in NextWire(m, have) => content[m].parts \subseteq NextWire(m, have) \cup have
      BY <1>3, WireFacts
    <2>3. Outcome(c, m, s, have, ToSet(tracked))
      BY <2>1, <2>2 DEF Outcome, Entries
    <2>. QED
      BY <2>1, <2>3 DEF TypeOK
  <1>. QED
    BY <1>1, <1>2, <1>3

-----------------------------------------------------------------------------
(* What a step does to the entries, the Sets and the calls *)

\* What Kotlin, the file system and a stutter do does not concern the engine.
Elsewhere == UNCHANGED <<content, completedParts, done, calls, delivered, excused>>

\* The call c of message m starts or goes on: with the Set s, which then holds
\* have, and the entries of tracked.
Continues(c, m, s, have, tracked) ==
    /\ Running(c) /\ m = IdOf(c) /\ m \in Msgs /\ s \in Calls /\ have \in SUBSET Parts
    /\ done' = [done EXCEPT ![s] = have]
    /\ Outcome(c, m, s, have, tracked)
    /\ UNCHANGED content

Starts(c, m) ==
    \/ /\ calls[c].pc = "asked" /\ m \in Ids
       /\ Continues(c, m, EntryOf(m).set, done[EntryOf(m).set], Entries)
       /\ UNCHANGED <<delivered, excused>>
    \/ /\ calls[c].pc = "asked" /\ m \notin Ids
       /\ Continues(c, m, c, done[c], (Entries \ Evicted) \cup {[id |-> m, set |-> c]})
       /\ Evicted \subseteq Entries
       /\ excused' = excused \cup {e.id : e \in Evicted}
       /\ UNCHANGED delivered

GoesOn(c, m) ==
    /\ calls[c].pc = "sending"
    /\ Continues(c, m, calls[c].set, done[calls[c].set] \cup calls[c].wire, Entries)
    /\ delivered' = [delivered EXCEPT ![m] =
           [p \in Parts |-> IF p \in calls[c].wire THEN @[p] + 1 ELSE @[p]]]
    /\ UNCHANGED excused

\* The call c ends without success.
GivesUp(c, m) ==
    /\ Running(c) /\ m = IdOf(c) /\ m \in Msgs
    /\ \E result \in {"retryable", "final"} : calls' = [calls EXCEPT ![c] = Over(m, result)]
    /\ UNCHANGED <<content, completedParts, done, delivered, excused>>

LEMMA CallsFit ==
  ASSUME TypeOK, SetsFit, NEW c \in Calls
  PROVE  /\ calls[c] \in Call
         /\ Running(c) => IdOf(c) \in Msgs
         /\ calls[c].pc = "sending" => calls[c].set \in Calls /\ calls[c].wire \in SUBSET Parts
  <1>1. calls[c] \in Call
    BY DEF TypeOK
  <1>2. Running(c) => IdOf(c) \in Msgs
    BY DEF Running, SetsFit
  <1>. QED
    BY <1>1, <1>2 DEF Call, SetsFit

\* The Map and what Kotlin knows
Outside ==
    /\ completedParts \in Seq(Entry) /\ Len(completedParts) <= Cap /\ Distinct(completedParts)
    /\ awaited \in [Msgs -> Calls \cup {NoCall}] /\ over \subseteq Msgs

LEMMA Steps ==
  ASSUME TypeOK, SetsFit, [Next]_vars
  PROVE  /\ Outside'
         /\ \/ Elsewhere
            \/ \E m \in Msgs, c \in Calls : Ask(m, c)
            \/ \E c \in Calls : \E m \in Msgs : Starts(c, m) \/ GoesOn(c, m) \/ GivesUp(c, m)
            \/ Restart
  <1>0. completedParts \in Seq(Entry) /\ Distinct(completedParts) /\ Len(completedParts) <= Cap
        /\ Entries = ToSet(completedParts)
    BY DEF TypeOK, Distinct, Entries
  <1>00. awaited \in [Msgs -> Calls \cup {NoCall}] /\ over \subseteq Msgs
    BY DEF TypeOK
  <1>1. CASE UNCHANGED vars
    BY <1>0, <1>00, <1>1 DEF vars, Elsewhere, Outside, Distinct
  <1>2. CASE \/ \E m \in Msgs : GiveUp(m)
             \/ \E m \in Msgs, part \in Parts : FileLost(m, part)
    <2>1. Elsewhere
      BY <1>2 DEF GiveUp, FileLost, Elsewhere
    <2>2. awaited' \in [Msgs -> Calls \cup {NoCall}] /\ UNCHANGED over
      BY <1>00, <1>2 DEF GiveUp, FileLost
    <2>. QED
      BY <1>0, <1>00, <2>1, <2>2 DEF Elsewhere, Outside, Distinct
  <1>3. ASSUME NEW c \in Calls, NotConnected(c) PROVE Outside' /\ \E m \in Msgs : GivesUp(c, m)
    <2>1. calls[c].pc = "asked" /\ Running(c) /\ IdOf(c) \in Msgs
      BY <1>3, CallsFit DEF NotConnected, Running
    <2>2. /\ calls' = [calls EXCEPT ![c] = Over(IdOf(c), "retryable")]
          /\ UNCHANGED <<content, completedParts, done, delivered, excused>>
      BY <1>3 DEF NotConnected, Return, Over, IdOf
    <2>3. Answer(c, IdOf(c), "retryable")
      BY <1>3 DEF NotConnected, Return, IdOf
    <2>4. Outside'
      BY <1>0, <2>1, <2>2, <2>3, AnswerFits DEF Outside, Distinct
    <2>. QED
      BY <2>1, <2>2, <2>4 DEF GivesUp
  <1>4. ASSUME NEW c \in Calls, PartFails(c) PROVE Outside' /\ \E m \in Msgs : GivesUp(c, m)
    <2>1. calls[c].pc = "sending" /\ Running(c) /\ IdOf(c) \in Msgs
      BY <1>4, CallsFit DEF PartFails, Running
    <2>2. /\ \E result \in {"retryable", "final"} : calls' = [calls EXCEPT ![c] = Over(IdOf(c), result)]
          /\ UNCHANGED <<content, completedParts, done, delivered, excused>>
      BY <1>4 DEF PartFails, Return, Over, IdOf, Kept
    <2>3. \E result : Answer(c, IdOf(c), result)
      BY <1>4 DEF PartFails, Return, IdOf
    <2>4. Outside'
      BY <1>0, <2>1, <2>2, <2>3, AnswerFits DEF Outside, Distinct
    <2>. QED
      BY <2>1, <2>2, <2>4 DEF GivesUp
  <1>5. ASSUME NEW c \in Calls, StartsTracked(c) PROVE Outside' /\ \E m \in Msgs : Starts(c, m)
    <2>. DEFINE m == IdOf(c)
                s == EntryOf(m).set
    <2>1. calls[c].pc = "asked" /\ Running(c) /\ m \in Msgs /\ m \in Ids
      BY <1>5, CallsFit DEF StartsTracked, Running, IdOf
    <2>2. s \in Calls /\ done[s] \in SUBSET Parts
      BY <2>1, EntryOfFacts DEF TypeOK
    <2>3. /\ Proceed(c, m, s, done[s], completedParts)
          /\ UNCHANGED <<content, done, delivered, excused>>
      BY <1>5 DEF StartsTracked, IdOf
    <2>. HIDE DEF s, m
    <2>4. Outside' /\ Outcome(c, m, s, done[s], Entries)
      BY <1>0, <2>1, <2>2, <2>3, ProceedFacts DEF Outside
    <2>5. done' = [done EXCEPT ![s] = done[s]]
      BY <2>2, <2>3 DEF TypeOK
    <2>6. Continues(c, m, s, done[s], Entries)
      BY <2>1, <2>2, <2>3, <2>4, <2>5 DEF Continues, m
    <2>. QED
      BY <2>1, <2>3, <2>4, <2>6 DEF Starts, s
  <1>6. ASSUME NEW c \in Calls, StartsUntracked(c) PROVE Outside' /\ \E m \in Msgs : Starts(c, m)
    <2>. DEFINE m == IdOf(c)
    <2>1. calls[c].pc = "asked" /\ Running(c) /\ m \in Msgs \ Ids
      BY <1>6, CallsFit DEF StartsUntracked, Running, IdOf
    <2>2. done[c] = {}
      BY <2>1 DEF SetsFit, Made
    <2>3. /\ Proceed(c, m, c, {}, Track(m, c))
          /\ excused' = excused \cup {e.id : e \in Evicted}
          /\ UNCHANGED <<content, done, delivered>>
      BY <1>6 DEF StartsUntracked, IdOf
    <2>. HIDE DEF m
    <2>4. /\ Track(m, c) \in Seq(Entry) /\ Len(Track(m, c)) <= Cap /\ Distinct(Track(m, c))
          /\ ToSet(Track(m, c)) = (Entries \ Evicted) \cup {[id |-> m, set |-> c]}
          /\ Evicted \subseteq Entries
      BY <2>1, TrackFacts
    <2>5. Outside' /\ Outcome(c, m, c, {}, ToSet(Track(m, c)))
      BY <2>1, <2>3, <2>4, ProceedFacts DEF Outside
    <2>6. done' = [done EXCEPT ![c] = done[c]]
      BY <2>3 DEF TypeOK
    <2>7. Continues(c, m, c, done[c], (Entries \ Evicted) \cup {[id |-> m, set |-> c]})
      BY <2>1, <2>2, <2>3, <2>4, <2>5, <2>6 DEF Continues, m
    <2>. QED
      BY <2>1, <2>3, <2>4, <2>5, <2>7 DEF Starts
  <1>7. ASSUME NEW c \in Calls, PartSent(c) PROVE Outside' /\ \E m \in Msgs : GoesOn(c, m)
    <2>. DEFINE m == IdOf(c)
                s == calls[c].set
                have == done[s] \cup calls[c].wire
    <2>1. calls[c].pc = "sending" /\ Running(c) /\ m \in Msgs
      BY <1>7, CallsFit DEF PartSent, Running, IdOf
    <2>2. s \in Calls /\ have \in SUBSET Parts
      BY <2>1, CallsFit DEF TypeOK
    <2>3. /\ done' = [done EXCEPT ![s] = have]
          /\ delivered' = [delivered EXCEPT ![m] =
                 [p \in Parts |-> IF p \in calls[c].wire THEN @[p] + 1 ELSE @[p]]]
          /\ Proceed(c, m, s, have, completedParts)
          /\ UNCHANGED <<content, excused>>
      BY <1>7 DEF PartSent, Marked, IdOf
    <2>. HIDE DEF s, m, have
    <2>4. Outside' /\ Outcome(c, m, s, have, Entries)
      BY <1>0, <2>1, <2>2, <2>3, ProceedFacts DEF Outside
    <2>5. Continues(c, m, s, have, Entries)
      BY <2>1, <2>2, <2>3, <2>4 DEF Continues, m
    <2>. QED
      BY <2>1, <2>3, <2>4, <2>5 DEF GoesOn, s, have
  <1>8. ASSUME NEW m \in Msgs, NEW c \in Calls, Ask(m, c) PROVE Outside'
    <2>1. UNCHANGED <<completedParts, over>> /\ awaited' = [awaited EXCEPT ![m] = c]
      BY <1>8 DEF Ask
    <2>. QED
      BY <1>0, <1>00, <2>1 DEF Outside, Distinct
  <1>9. CASE Restart
    <2>1. completedParts' = << >> /\ awaited' = [m \in Msgs |-> NoCall] /\ UNCHANGED over
      BY <1>9 DEF Restart
    <2>2. << >> \in Seq(Entry) /\ Len(<< >>) = 0 /\ DOMAIN << >> = {}
      BY EmptySeq
    <2>3. Distinct(<< >>) /\ Len(<< >>) <= Cap
      BY <2>2, SenderAssumption DEF Distinct
    <2>4. Distinct(completedParts') /\ Len(completedParts') <= Cap
      BY <2>1, <2>3
    <2>. QED
      BY <1>00, <1>9, <2>1, <2>2, <2>4 DEF Outside
  <1>. QED
    BY <1>1, <1>2, <1>3, <1>4, <1>5, <1>6, <1>7, <1>8, <1>9 DEF Next

-----------------------------------------------------------------------------
(* The types and the Sets *)

\* The answer to a call, or its next part, in place of what it was
LEMMA CallSet ==
  ASSUME TypeOK, NEW c \in Calls, NEW r, calls' = [calls EXCEPT ![c] = r]
  PROVE  calls'[c] = r /\ \A d \in Calls \ {c} : calls'[d] = calls[d]
  BY DEF TypeOK

\* The Set s is the only one of message m, and holds exactly what is out.
Accounted(m, s, have, tracked) ==
    /\ [id |-> m, set |-> s] \in tracked
    /\ \A e \in tracked : e.id = m => e.set = s
    /\ \A p \in Parts : delivered'[m][p] = IF p \in have THEN 1 ELSE 0

\* What a call that starts or goes on does, and what holds of the Set it uses:
\* it was made for that message, and what is in it is out.
Advances(c, m, s, have, tracked) ==
    /\ Continues(c, m, s, have, tracked)
    /\ IdOf(s) = m /\ (Made(s) \/ s = c)
    /\ \A e \in tracked : e \in Entry /\ IdOf(e.set) = e.id /\ (Made(e.set) \/ e.set = c)
    /\ delivered' \in [Msgs -> [Parts -> Nat]]
    /\ \A n \in Msgs : \A p \in Parts : delivered'[n][p] >= delivered[n][p]
    /\ \A n \in Msgs \ {m} : delivered'[n] = delivered[n]
    /\ \A p \in have : delivered'[m][p] > 0
    /\ excused \subseteq excused' /\ excused' \subseteq Msgs
    /\ \A e \in Entries : e.id \notin excused' => e \in tracked
    /\ \A e \in tracked : e.id # m => e \in Entries
    /\ m \notin excused' => Accounted(m, s, have, tracked)

LEMMA SendingAdds ==
  ASSUME NEW f \in [Msgs -> [Parts -> Nat]], NEW m \in Msgs, NEW w \in SUBSET Parts,
         NEW g, g = [f EXCEPT ![m] = [p \in Parts |-> IF p \in w THEN @[p] + 1 ELSE @[p]]]
  PROVE  /\ g \in [Msgs -> [Parts -> Nat]]
         /\ \A n \in Msgs \ {m} : g[n] = f[n]
         /\ \A p \in Parts : g[m][p] = IF p \in w THEN f[m][p] + 1 ELSE f[m][p]
         /\ \A n \in Msgs : \A p \in Parts : g[n][p] >= f[n][p]
  <1>. DEFINE h == [p \in Parts |-> IF p \in w THEN f[m][p] + 1 ELSE f[m][p]]
  <1>1. \A n \in Msgs : f[n] \in [Parts -> Nat]
    OBVIOUS
  <1>2. \A p \in Parts : f[m][p] \in Nat
    BY <1>1
  <1>3. h \in [Parts -> Nat] /\ \A p \in Parts : h[p] = IF p \in w THEN f[m][p] + 1 ELSE f[m][p]
    BY <1>2
  <1>4. g = [f EXCEPT ![m] = h]
    OBVIOUS
  <1>. HIDE DEF h
  <1>5. g \in [Msgs -> [Parts -> Nat]] /\ g[m] = h /\ \A n \in Msgs \ {m} : g[n] = f[n]
    BY <1>3, <1>4
  <1>6. ASSUME NEW n \in Msgs, NEW p \in Parts PROVE g[n][p] >= f[n][p]
    <2>1. f[n][p] \in Nat
      BY <1>1
    <2>2. CASE n = m
      BY <1>3, <1>5, <2>1, <2>2
    <2>3. CASE n # m
      BY <1>5, <2>1, <2>3
    <2>. QED
      BY <2>2, <2>3
  <1>. QED
    BY <1>3, <1>5, <1>6

LEMMA StepAdvances ==
  ASSUME TypeOK, SetsFit, DoneIsOut, Tracked, NEW c \in Calls, NEW m \in Msgs,
         Starts(c, m) \/ GoesOn(c, m)
  PROVE  \E s \in Calls, have \in SUBSET Parts : \E tracked :
            Advances(c, m, s, have, tracked)
  <1>0. /\ Entries \subseteq Entry /\ excused \subseteq Msgs
        /\ delivered \in [Msgs -> [Parts -> Nat]]
        /\ \A n \in Msgs : \A p \in Parts : delivered[n][p] \in Nat
    BY EntriesFit DEF TypeOK
  <1>00. \A e \in Entries : e \in Entry /\ IdOf(e.set) = e.id /\ Made(e.set)
    BY <1>0 DEF SetsFit
  <1>1. CASE calls[c].pc = "asked" /\ m \in Ids /\ Starts(c, m)
    <2>. DEFINE s == EntryOf(m).set
    <2>1. s \in Calls /\ IdOf(s) = m /\ Made(s)
      BY <1>1, <1>00, EntryOfFacts
    <2>2. /\ Continues(c, m, s, done[s], Entries)
          /\ UNCHANGED <<delivered, excused>>
      BY <1>1 DEF Starts
    <2>. HIDE DEF s
    <2>3. \A p \in done[s] : delivered[m][p] > 0
      BY <2>1 DEF DoneIsOut
    <2>4. done[s] \in SUBSET Parts
      BY <2>2 DEF Continues
    <2>5. ASSUME m \notin excused' PROVE Accounted(m, s, done[s], Entries)
      <3>1. Recorded(m)
        BY <2>2, <2>5 DEF Tracked
      <3>2. EntryOf(m) \in Entries /\ EntryOf(m).id = m /\ EntryOf(m) = [id |-> m, set |-> s]
        BY <1>1, EntryOfFacts DEF s
      <3>3. \A e \in Entries : e.id = m => e = EntryOf(m)
        BY <3>2, OneEntry
      <3>4. \A p \in Parts : delivered[m][p] = IF p \in done[s] THEN 1 ELSE 0
        BY <3>1, <3>2 DEF Recorded
      <3>. QED
        BY <2>2, <3>2, <3>3, <3>4 DEF Accounted
    <2>6. Advances(c, m, s, done[s], Entries)
      BY <1>0, <1>00, <2>1, <2>2, <2>3, <2>5 DEF Advances
    <2>. QED
      BY <2>1, <2>4, <2>6
  <1>2. CASE calls[c].pc = "asked" /\ m \notin Ids /\ Starts(c, m)
    <2>. DEFINE x == [id |-> m, set |-> c]
                tracked == (Entries \ Evicted) \cup {x}
    <2>1. /\ Continues(c, m, c, done[c], tracked)
          /\ excused' = excused \cup {e.id : e \in Evicted}
          /\ Evicted \subseteq Entries
          /\ UNCHANGED delivered
      BY <1>2 DEF Starts
    <2>2. IdOf(c) = m /\ done[c] \in SUBSET Parts
      BY <2>1 DEF Continues
    <2>3. done[c] = {}
      BY <1>2 DEF SetsFit, Made
    <2>4. x \in Entry /\ x.id = m /\ x.set = c
      BY DEF Entry
    <2>5. excused' \subseteq Msgs /\ excused \subseteq excused'
      BY <1>0, <2>1 DEF Entry
    <2>6. \A e \in tracked : e \in Entry /\ IdOf(e.set) = e.id /\ (Made(e.set) \/ e.set = c)
      BY <1>00, <2>2, <2>4
    <2>7. /\ \A e \in Entries : e.id \notin excused' => e \in tracked
          /\ \A e \in tracked : e.id # m => e \in Entries
      BY <2>1, <2>4
    <2>8. ASSUME m \notin excused' PROVE Accounted(m, c, done[c], tracked)
      <3>1. OneCall(m) /\ Recorded(m)
        BY <2>5, <2>8 DEF Tracked
      <3>2. \A d \in Calls : ~(IdOf(d) = m /\ calls[d].pc = "success")
        BY <1>2, <2>2, <3>1 DEF OneCall, Running
      <3>3. \A p \in Parts : delivered[m][p] = 0
        BY <1>2, <3>1, <3>2 DEF Recorded
      <3>4. \A e \in Entries : e.id # m
        BY <1>2, EntriesFit
      <3>5. x \in tracked /\ \A e \in tracked : e.id = m => e.set = c
        BY <2>4, <3>4
      <3>. QED
        BY <2>1, <2>3, <3>3, <3>5 DEF Accounted
    <2>. HIDE DEF tracked, x
    <2>9. Advances(c, m, c, done[c], tracked)
      BY <1>0, <2>1, <2>2, <2>3, <2>5, <2>6, <2>7, <2>8 DEF Advances
    <2>. QED
      BY <2>2, <2>9
  <1>3. CASE GoesOn(c, m)
    <2>. DEFINE s == calls[c].set
                w == calls[c].wire
                have == done[s] \cup w
    <2>1. /\ calls[c].pc = "sending"
          /\ Continues(c, m, s, have, Entries)
          /\ delivered' = [delivered EXCEPT ![m] =
                 [p \in Parts |-> IF p \in w THEN @[p] + 1 ELSE @[p]]]
          /\ UNCHANGED excused
      BY <1>3 DEF GoesOn
    <2>2. s \in Calls /\ w \in SUBSET Parts
      BY <2>1, CallsFit
    <2>3. IdOf(s) = m /\ Made(s) /\ have \in SUBSET Parts
      BY <2>1 DEF SetsFit, Continues
    <2>4. \A p \in done[s] : p \in Parts /\ delivered[m][p] > 0
      BY <2>2, <2>3 DEF DoneIsOut
    <2>5. \A p \in have : p \in Parts /\ (p \in w \/ p \in done[s])
      BY <2>3
    <2>. HIDE DEF s, w, have
    <2>6. /\ delivered' \in [Msgs -> [Parts -> Nat]]
          /\ \A n \in Msgs \ {m} : delivered'[n] = delivered[n]
          /\ \A p \in Parts : delivered'[m][p] = IF p \in w THEN delivered[m][p] + 1 ELSE delivered[m][p]
          /\ \A n \in Msgs : \A p \in Parts : delivered'[n][p] >= delivered[n][p]
      BY <1>0, <2>1, <2>2, SendingAdds
    <2>7. \A p \in have : delivered'[m][p] > 0
      BY <1>0, <2>4, <2>5, <2>6
    <2>8. ASSUME m \notin excused' PROVE Accounted(m, s, have, Entries)
      <3>1. Recorded(m)
        BY <2>1, <2>8 DEF Tracked
      <3>2. [id |-> m, set |-> s] \in Entries /\ w \cap done[s] = {}
        BY <2>1, <3>1 DEF Recorded, Continues, s, w
      <3>3. \A e \in Entries : e.id = m => e.set = s
        BY <3>2, OneEntry
      <3>4. \A p \in Parts : delivered[m][p] = IF p \in done[s] THEN 1 ELSE 0
        BY <3>1, <3>2 DEF Recorded
      <3>5. \A p \in Parts : delivered'[m][p] = IF p \in have THEN 1 ELSE 0
        BY <2>6, <3>2, <3>4 DEF have
      <3>. QED
        BY <3>2, <3>3, <3>5 DEF Accounted
    <2>9. Advances(c, m, s, have, Entries)
      BY <1>0, <1>00, <2>1, <2>3, <2>6, <2>7, <2>8 DEF Advances
    <2>. QED
      BY <2>2, <2>3, <2>9
  <1>. QED
    BY <1>1, <1>2, <1>3 DEF Starts

-----------------------------------------------------------------------------
(* What holds of all messages *)

\* Every call keeps its message, but for the one Kotlin makes, and a call that
\* has come to its Set does not go back.
LEMMA CallsMove ==
  ASSUME TypeOK, SetsFit, NEW c \in Calls, NEW m \in Msgs,
         \/ GivesUp(c, m)
         \/ \E s \in Calls, have \in SUBSET Parts : \E tracked : Continues(c, m, s, have, tracked)
  PROVE  /\ Running(c) /\ IdOf(c) = m
         /\ calls' \in [Calls -> Call]
         /\ \A d \in Calls \ {c} : calls'[d] = calls[d]
         /\ calls'[c].id = m
         /\ calls'[c].pc \in {"success", "retryable", "final", "sending"}
  <1>1. \E r \in Call : /\ calls' = [calls EXCEPT ![c] = r] /\ r.id = m
                        /\ r.pc \in {"success", "retryable", "final", "sending"}
    <2>1. \A result \in Results : Over(m, result) \in Call
      BY DEF Over, Call, Results
    <2>2. \A s \in Calls : \A w \in SUBSET Parts : Sending(m, s, w) \in Call
      BY DEF Sending, Call
    <2>3. CASE GivesUp(c, m)
      BY <2>1, <2>3 DEF GivesUp, Over, Results
    <2>4. CASE \E s \in Calls, have \in SUBSET Parts : \E tracked : Continues(c, m, s, have, tracked)
      <3>0. PICK s \in Calls, have \in SUBSET Parts : \E tracked : Continues(c, m, s, have, tracked)
        BY <2>4
      <3>1. \E tracked : Outcome(c, m, s, have, tracked)
        BY <3>0 DEF Continues
      <3>2. \/ calls' = [calls EXCEPT ![c] = Over(m, "success")]
            \/ calls' = [calls EXCEPT ![c] = Over(m, "final")]
            \/ \E w \in SUBSET Parts : calls' = [calls EXCEPT ![c] = Sending(m, s, w)]
        BY <3>1 DEF Outcome
      <3>3. CASE \/ calls' = [calls EXCEPT ![c] = Over(m, "success")]
                 \/ calls' = [calls EXCEPT ![c] = Over(m, "final")]
        BY <2>1, <3>3 DEF Over, Results
      <3>4. CASE \E w \in SUBSET Parts : calls' = [calls EXCEPT ![c] = Sending(m, s, w)]
        BY <2>2, <3>4 DEF Sending
      <3>. QED
        BY <3>2, <3>3, <3>4
    <2>. QED
      BY <2>3, <2>4
  <1>2. calls \in [Calls -> Call]
    BY DEF TypeOK
  <1>. QED
    BY <1>1, <1>2, CallSet DEF GivesUp, Continues

LEMMA AskFacts ==
  ASSUME TypeOK, SetsFit, NEW m \in Msgs, NEW c \in Calls, Ask(m, c)
  PROVE  /\ UNCHANGED <<content, completedParts, done, delivered>>
         /\ calls' \in [Calls -> Call]
         /\ calls[c].pc = "unused" /\ IdOf(c) = NoMsg
         /\ calls'[c].pc = "asked" /\ calls'[c].id = m
         /\ \A d \in Calls \ {c} : calls'[d] = calls[d]
         /\ excused' \in {excused, excused \cup {m}}
         /\ m \notin excused' =>
               \A d \in Calls : IdOf(d) = m => ~Running(d) /\ calls[d].pc # "success"
  <1>. DEFINE r == [[calls[c] EXCEPT !.pc = "asked"] EXCEPT !.id = m]
  <1>1. calls[c] \in Call
    BY DEF TypeOK
  <1>2. r \in Call /\ r.pc = "asked" /\ r.id = m
    BY <1>1 DEF Call
  <1>3. calls' = [calls EXCEPT ![c] = r]
    <2>1. calls' = [calls EXCEPT ![c].pc = "asked", ![c].id = m]
      BY DEF Ask
    <2>. QED
      BY <1>1, <2>1 DEF TypeOK, Call
  <1>. HIDE DEF r
  <1>4. calls' \in [Calls -> Call]
    BY <1>2, <1>3 DEF TypeOK
  <1>5. calls'[c] = r /\ \A d \in Calls \ {c} : calls'[d] = calls[d]
    BY <1>3, CallSet
  <1>6. calls[c].pc = "unused" /\ IdOf(c) = NoMsg
    BY DEF Ask, SetsFit
  <1>7. /\ excused' \in {excused, excused \cup {m}}
        /\ m \notin excused' =>
              \A d \in Calls : IdOf(d) = m => ~Running(d) /\ calls[d].pc # "success"
    BY DEF Ask, IdOf
  <1>. QED
    BY <1>2, <1>4, <1>5, <1>6, <1>7 DEF Ask

LEMMA RestartFacts ==
  ASSUME TypeOK, Restart
  PROVE  /\ UNCHANGED <<content, done, delivered>> /\ Entries' = {} /\ Ids' = {}
         /\ excused' = excused \cup Ids /\ Ids \subseteq Msgs
         /\ calls' \in [Calls -> Call]
         /\ \A d \in Calls : /\ calls'[d].id = calls[d].id
                             /\ ~Running(d) => calls'[d] = calls[d]
                             /\ Running(d) => calls'[d].pc = "dead"
  <1>1. /\ calls' = [c \in Calls |-> IF Running(c)
                                     THEN [calls[c] EXCEPT !.pc = "dead", !.set = NoCall, !.wire = {}]
                                     ELSE calls[c]]
        /\ completedParts' = << >> /\ excused' = excused \cup Ids
        /\ UNCHANGED <<content, done, delivered>>
    BY DEF Restart
  <1>2. ASSUME NEW d \in Calls
        PROVE  /\ calls'[d] \in Call
               /\ calls'[d].id = calls[d].id
               /\ ~Running(d) => calls'[d] = calls[d]
               /\ Running(d) => calls'[d].pc = "dead"
    <2>1. calls[d] \in Call
      BY DEF TypeOK
    <2>2. calls'[d] = IF Running(d)
                      THEN [calls[d] EXCEPT !.pc = "dead", !.set = NoCall, !.wire = {}]
                      ELSE calls[d]
      BY <1>1
    <2>3. CASE Running(d)
      <3>. DEFINE r == [calls[d] EXCEPT !.pc = "dead", !.set = NoCall, !.wire = {}]
      <3>1. r \in Call /\ r.pc = "dead" /\ r.id = calls[d].id
        BY <2>1 DEF Call
      <3>2. calls'[d] = r
        BY <2>2, <2>3
      <3>. QED
        BY <2>3, <3>1, <3>2
    <2>4. CASE ~Running(d)
      BY <2>1, <2>2, <2>4
    <2>. QED
      BY <2>3, <2>4
  <1>3. calls' \in [Calls -> Call]
    BY <1>1, <1>2
  <1>4. Entries' = {} /\ Ids' = {}
    <2>1. DOMAIN << >> = {}
      BY EmptySeq
    <2>. QED
      BY <1>1, <2>1 DEF Entries, Ids, ToSet
  <1>5. Ids \subseteq Msgs
    BY EntriesFit DEF Entry
  <1>. QED
    BY <1>1, <1>2, <1>3, <1>4, <1>5

\* The calls of a step that is not the engine's, or ends a call: no Set is
\* marked and no call comes to send or to succeed.
Quiet ==
    /\ UNCHANGED <<content, done, delivered>>
    /\ Entries' \subseteq Entries
    /\ calls' \in [Calls -> Call]
    /\ \A d \in Calls : \/ calls'[d] = calls[d]
                        \/ /\ calls'[d].pc \notin {"unused", "sending", "success"}
                           /\ calls'[d].id \in Msgs
                           /\ Made(d) => calls'[d].pc # "asked" /\ calls'[d].id = calls[d].id

SenderInv ==
    /\ TypeOK /\ SetsFit /\ DoneIsOut /\ TextLast /\ SuccessIsComplete /\ Tracked

LEMMA StepKinds ==
  ASSUME SenderInv, [Next]_vars
  PROVE  \/ Elsewhere
         \/ \E m \in Msgs, c \in Calls : Ask(m, c)
         \/ \E c \in Calls, m \in Msgs : GivesUp(c, m)
         \/ Restart
         \/ \E c \in Calls, m \in Msgs : \E s \in Calls, have \in SUBSET Parts : \E tracked :
               Advances(c, m, s, have, tracked)
  <1>1. \/ Elsewhere
        \/ \E m \in Msgs, c \in Calls : Ask(m, c)
        \/ \E c \in Calls : \E m \in Msgs : Starts(c, m) \/ GoesOn(c, m) \/ GivesUp(c, m)
        \/ Restart
    BY Steps DEF SenderInv
  <1>2. ASSUME NEW c \in Calls, NEW m \in Msgs, Starts(c, m) \/ GoesOn(c, m)
        PROVE  \E s \in Calls, have \in SUBSET Parts : \E tracked : Advances(c, m, s, have, tracked)
    BY <1>2, StepAdvances DEF SenderInv
  <1>. QED
    BY <1>1, <1>2

LEMMA IsQuiet ==
  ASSUME SenderInv,
         \/ Elsewhere
         \/ \E m \in Msgs, c \in Calls : Ask(m, c)
         \/ \E c \in Calls, m \in Msgs : GivesUp(c, m)
         \/ Restart
  PROVE  Quiet
  <1>0. TypeOK /\ SetsFit
    BY DEF SenderInv
  <1>1. CASE Elsewhere
    BY <1>0, <1>1 DEF Elsewhere, Quiet, Entries, TypeOK
  <1>2. ASSUME NEW m \in Msgs, NEW c \in Calls, Ask(m, c) PROVE Quiet
    <2>1. Entries' = Entries
      BY <1>0, <1>2, AskFacts DEF Entries
    <2>2. \A d \in Calls : \/ calls'[d] = calls[d]
                           \/ calls'[d].pc = "asked" /\ calls'[d].id \in Msgs /\ ~Made(d)
      BY <1>0, <1>2, AskFacts DEF Made
    <2>. QED
      BY <1>0, <1>2, <2>1, <2>2, AskFacts DEF Quiet
  <1>3. ASSUME NEW c \in Calls, NEW m \in Msgs, GivesUp(c, m) PROVE Quiet
    <2>1. UNCHANGED <<content, done, delivered>> /\ Entries' = Entries
      BY <1>3 DEF GivesUp, Entries
    <2>2. \E result \in {"retryable", "final"} : calls' = [calls EXCEPT ![c] = Over(m, result)]
      BY <1>3 DEF GivesUp
    <2>3. calls'[c].pc \in {"retryable", "final"}
      BY <1>0, <2>2 DEF TypeOK, Over
    <2>4. /\ IdOf(c) = m /\ calls' \in [Calls -> Call]
          /\ \A d \in Calls \ {c} : calls'[d] = calls[d]
          /\ calls'[c].id = m
      BY <1>0, <1>3, CallsMove
    <2>. QED
      BY <2>1, <2>3, <2>4 DEF Quiet, IdOf
  <1>4. CASE Restart
    <2>1. \A d \in Calls : Running(d) => IdOf(d) \in Msgs
      BY <1>0, CallsFit
    <2>2. \A d \in Calls : \/ calls'[d] = calls[d]
                           \/ /\ calls'[d].pc = "dead" /\ calls'[d].id \in Msgs
                              /\ calls'[d].id = calls[d].id
      BY <1>0, <1>4, <2>1, RestartFacts DEF IdOf
    <2>. QED
      BY <1>0, <1>4, <2>2, RestartFacts DEF Quiet
  <1>. QED
    BY <1>1, <1>2, <1>3, <1>4

LEMMA QuietKeeps ==
  ASSUME SenderInv, Quiet
  PROVE  SetsFit' /\ DoneIsOut' /\ TextLast' /\ SuccessIsComplete'
  <1>0. TypeOK /\ SetsFit
    BY DEF SenderInv
  <1>1. /\ content' = content /\ done' = done /\ delivered' = delivered
        /\ Entries' \subseteq Entries /\ Entries \subseteq Entry
    BY <1>0, EntriesFit DEF Quiet
  <1>2. \A d \in Calls : \/ calls'[d] = calls[d]
                         \/ /\ calls'[d].pc \notin {"unused", "sending", "success"}
                            /\ calls'[d].id \in Msgs
    BY DEF Quiet
  <1>3. \A d \in Calls : Made(d) => /\ calls'[d].pc \notin {"unused", "asked"}
                                    /\ calls'[d].id = calls[d].id
    BY DEF Quiet, Made
  <1>4. SetsFit'
    <2>1. \A d \in Calls : IF calls'[d].pc = "unused" THEN calls'[d].id = NoMsg ELSE calls'[d].id \in Msgs
      BY <1>0, <1>2 DEF SetsFit, IdOf
    <2>2. \A e \in Entries' : e.set \in Calls /\ Made(e.set) /\ IdOf(e.set) = e.id
      BY <1>0, <1>1 DEF SetsFit, Entry
    <2>3. \A e \in Entries' : calls'[e.set].pc \notin {"unused", "asked"} /\ calls'[e.set].id = e.id
      BY <1>3, <2>2 DEF IdOf
    <2>4. \A d \in Calls : calls'[d].pc = "sending" =>
             /\ calls'[d] = calls[d] /\ calls[d].set \in Calls
             /\ Made(calls[d].set) /\ IdOf(calls[d].set) = IdOf(d)
      BY <1>0, <1>2 DEF SetsFit
    <2>5. \A d \in Calls : calls'[d].pc = "sending" =>
             /\ calls'[d].set \in Calls /\ calls'[calls'[d].set].pc \notin {"unused", "asked"}
             /\ calls'[calls'[d].set].id = calls'[d].id
      BY <1>3, <2>4 DEF IdOf
    <2>6. \A d \in Calls : done'[d] # {} => calls'[d].pc \notin {"unused", "asked"}
      BY <1>0, <1>1, <1>3 DEF SetsFit
    <2>. QED
      BY <2>1, <2>3, <2>5, <2>6 DEF SetsFit, Made, IdOf
  <1>5. DoneIsOut'
    <2>1. \A d \in Calls : \A p \in done[d] : Made(d) /\ delivered[IdOf(d)][p] > 0
      BY <1>0 DEF SenderInv, SetsFit, DoneIsOut
    <2>. QED
      BY <1>1, <1>3, <2>1 DEF DoneIsOut, IdOf
  <1>6. TextLast'
    BY <1>1, <1>2 DEF SenderInv, TextLast, IdOf
  <1>7. SuccessIsComplete'
    BY <1>1, <1>2 DEF SenderInv, SuccessIsComplete
  <1>. QED
    BY <1>4, <1>5, <1>6, <1>7

\* What is left of a call that went on
Leaves(c, m, s, have, tracked) ==
    /\ Entries' \subseteq tracked
    /\ calls'[c].pc = "success" => content[m].parts \subseteq have
    /\ calls'[c].pc # "success" => Entries' = tracked
    /\ \A e \in tracked : e.id # m => e \in Entries'
    /\ calls'[c].pc = "sending" =>
          /\ calls'[c].set = s
          /\ calls'[c].wire \cap have = {}
          /\ "text" \in calls'[c].wire => content[m].parts \subseteq calls'[c].wire \cup have

LEMMA OutcomeFacts ==
  ASSUME TypeOK, NEW c \in Calls, NEW m \in Msgs, NEW s \in Calls, NEW have \in SUBSET Parts,
         NEW tracked, Continues(c, m, s, have, tracked)
  PROVE  Leaves(c, m, s, have, tracked)
  <1>1. Outcome(c, m, s, have, tracked)
    BY DEF Continues
  <1>2. CASE /\ content[m].parts \subseteq have
             /\ Entries' = {e \in tracked : e.id # m}
             /\ calls' = [calls EXCEPT ![c] = Over(m, "success")]
    <2>1. calls'[c] = Over(m, "success")
      BY <1>2, CallSet
    <2>. QED
      BY <1>2, <2>1 DEF Over, Leaves
  <1>3. CASE Entries' = tracked /\ calls' = [calls EXCEPT ![c] = Over(m, "final")]
    <2>1. calls'[c] = Over(m, "final")
      BY <1>3, CallSet
    <2>. QED
      BY <1>3, <2>1 DEF Over, Leaves
  <1>4. CASE /\ Entries' = tracked
             /\ \E w \in SUBSET Parts :
                   /\ calls' = [calls EXCEPT ![c] = Sending(m, s, w)]
                   /\ w \cap have = {}
                   /\ "text" \in w => content[m].parts \subseteq w \cup have
    <2>1. PICK w \in SUBSET Parts : /\ calls' = [calls EXCEPT ![c] = Sending(m, s, w)]
                                    /\ w \cap have = {}
                                    /\ "text" \in w => content[m].parts \subseteq w \cup have
      BY <1>4
    <2>2. calls'[c] = Sending(m, s, w)
      BY <2>1, CallSet
    <2>. QED
      BY <1>4, <2>1, <2>2 DEF Sending, Leaves
  <1>. QED
    BY <1>1, <1>2, <1>3, <1>4 DEF Outcome

LEMMA AdvanceKeeps ==
  ASSUME SenderInv, NEW c \in Calls, NEW m \in Msgs, NEW s \in Calls, NEW have \in SUBSET Parts,
         NEW tracked, Advances(c, m, s, have, tracked)
  PROVE  SetsFit' /\ DoneIsOut' /\ TextLast' /\ SuccessIsComplete'
  <1>0. TypeOK /\ SetsFit /\ Continues(c, m, s, have, tracked)
    BY DEF SenderInv, Advances
  <1>1. /\ Running(c) /\ IdOf(c) = m
        /\ \A d \in Calls \ {c} : calls'[d] = calls[d]
        /\ calls'[c].id = m
        /\ calls'[c].pc \in {"success", "retryable", "final", "sending"}
    BY <1>0, CallsMove
  <1>2. /\ content' = content
        /\ done'[s] = have /\ \A d \in Calls \ {s} : done'[d] = done[d]
    BY <1>0 DEF Continues, TypeOK
  <1>3. Leaves(c, m, s, have, tracked)
    BY <1>0, OutcomeFacts
  <1>4. \A d \in Calls : calls'[d].id = calls[d].id
    BY <1>1 DEF IdOf
  <1>5. \A d \in Calls : Made(d) \/ d = c => calls'[d].pc \notin {"unused", "asked"}
    BY <1>1 DEF Made
  <1>6. /\ IdOf(s) = m /\ (Made(s) \/ s = c)
        /\ \A e \in tracked : e \in Entry /\ IdOf(e.set) = e.id /\ (Made(e.set) \/ e.set = c)
        /\ \A n \in Msgs : \A p \in Parts : delivered'[n][p] >= delivered[n][p]
        /\ \A p \in have : delivered'[m][p] > 0
        /\ delivered' \in [Msgs -> [Parts -> Nat]]
    BY DEF Advances
  <1>7. \A n \in Msgs : \A p \in Parts : delivered[n][p] > 0 => delivered'[n][p] > 0
    <2>. SUFFICES ASSUME NEW n \in Msgs, NEW p \in Parts, delivered[n][p] > 0
                  PROVE  delivered'[n][p] > 0
      OBVIOUS
    <2>1. delivered[n][p] \in Nat /\ delivered'[n][p] \in Nat /\ delivered'[n][p] >= delivered[n][p]
      BY <1>0, <1>6 DEF TypeOK
    <2>. QED
      BY <2>1
  <1>8. SetsFit'
    <2>1. \A d \in Calls : IF calls'[d].pc = "unused" THEN calls'[d].id = NoMsg ELSE calls'[d].id \in Msgs
      BY <1>0, <1>1 DEF SetsFit, IdOf
    <2>2. \A e \in Entries' : calls'[e.set].pc \notin {"unused", "asked"} /\ calls'[e.set].id = e.id
      BY <1>3, <1>4, <1>5, <1>6 DEF IdOf, Entry, Leaves
    <2>3. \A d \in Calls : calls'[d].pc = "sending" =>
             /\ calls'[d].set \in Calls /\ calls'[calls'[d].set].pc \notin {"unused", "asked"}
             /\ calls'[calls'[d].set].id = calls'[d].id
      <3>. SUFFICES ASSUME NEW d \in Calls, calls'[d].pc = "sending"
                    PROVE  /\ calls'[d].set \in Calls
                           /\ calls'[calls'[d].set].pc \notin {"unused", "asked"}
                           /\ calls'[calls'[d].set].id = calls'[d].id
        OBVIOUS
      <3>1. CASE d = c
        BY <1>1, <1>3, <1>4, <1>5, <1>6, <3>1 DEF IdOf, Leaves
      <3>2. CASE d # c
        <4>1. calls'[d] = calls[d]
          BY <1>1, <3>2
        <4>2. calls[d].set \in Calls /\ Made(calls[d].set) /\ IdOf(calls[d].set) = IdOf(d)
          BY <1>0, <4>1 DEF SetsFit
        <4>. QED
          BY <1>4, <1>5, <4>1, <4>2 DEF IdOf
      <3>. QED
        BY <3>1, <3>2
    <2>4. \A d \in Calls : done'[d] # {} => calls'[d].pc \notin {"unused", "asked"}
      BY <1>0, <1>2, <1>5, <1>6 DEF SetsFit
    <2>. QED
      BY <2>1, <2>2, <2>3, <2>4 DEF SetsFit, Made, IdOf
  <1>9. DoneIsOut'
    <2>. SUFFICES ASSUME NEW d \in Calls, NEW p \in done'[d] PROVE delivered'[calls'[d].id][p] > 0
      BY DEF DoneIsOut, IdOf
    <2>1. CASE d = s
      BY <1>2, <1>4, <1>6, <2>1 DEF IdOf
    <2>2. CASE d # s
      <3>1. p \in done[d] /\ p \in Parts /\ Made(d) /\ delivered[IdOf(d)][p] > 0
        BY <1>0, <1>2, <2>2 DEF SenderInv, SetsFit, DoneIsOut, TypeOK
      <3>2. IdOf(d) \in Msgs
        BY <1>0, <3>1 DEF SetsFit, Made
      <3>. QED
        BY <1>4, <1>7, <3>1, <3>2 DEF IdOf
    <2>. QED
      BY <2>1, <2>2
  <1>10. \A n \in Msgs : content[n].parts \subseteq Parts
    BY <1>0, SenderAssumption, PartsFacts DEF TypeOK
  <1>11. TextLast'
    <2>. SUFFICES ASSUME NEW d \in Calls, calls'[d].pc = "sending", "text" \in calls'[d].wire,
                         NEW p \in content[calls'[d].id].parts
                  PROVE  p \in calls'[d].wire \/ delivered'[calls'[d].id][p] > 0
      BY <1>2 DEF TextLast, IdOf
    <2>1. CASE d = c
      BY <1>1, <1>3, <1>6, <2>1 DEF Leaves
    <2>2. CASE d # c
      <3>1. calls'[d] = calls[d] /\ IdOf(d) \in Msgs
        BY <1>0, <1>1, <2>2 DEF SetsFit
      <3>2. p \in calls[d].wire \/ delivered[IdOf(d)][p] > 0
        BY <3>1 DEF SenderInv, TextLast, IdOf
      <3>. QED
        BY <1>7, <1>10, <3>1, <3>2 DEF IdOf
    <2>. QED
      BY <2>1, <2>2
  <1>12. SuccessIsComplete'
    <2>. SUFFICES ASSUME NEW d \in Calls, calls'[d].pc = "success", NEW p \in content[calls'[d].id].parts
                  PROVE  delivered'[calls'[d].id][p] > 0
      BY <1>2 DEF SuccessIsComplete
    <2>1. CASE d = c
      BY <1>1, <1>3, <1>6, <2>1 DEF Leaves
    <2>2. CASE d # c
      <3>1. calls'[d] = calls[d] /\ IdOf(d) \in Msgs
        BY <1>0, <1>1, <2>2 DEF SetsFit
      <3>2. delivered[IdOf(d)][p] > 0
        BY <3>1 DEF SenderInv, SuccessIsComplete, IdOf
      <3>. QED
        BY <1>7, <1>10, <3>1, <3>2 DEF IdOf
    <2>. QED
      BY <2>1, <2>2
  <1>. QED
    BY <1>8, <1>9, <1>11, <1>12

-----------------------------------------------------------------------------
(* A message that is not excused *)

\* No call comes to run or to succeed beside another.
LEMMA OneCallStays ==
  ASSUME NEW n, OneCall(n),
         \A d \in Calls : calls'[d].id = n => /\ calls[d].id = n
                                              /\ calls'[d].pc \in {"asked", "sending"} => Running(d)
                                              /\ calls'[d].pc = "success" => Running(d) \/ calls[d].pc = "success"
  PROVE  OneCall(n)'
  BY DEF OneCall, Running, IdOf

\* A step that leaves the entry, the calls and the Set of a message
LEMMA RecordedStays ==
  ASSUME NEW n \in Msgs, Recorded(n), delivered'[n] = delivered[n],
         \A e \in Entries' : e.id = n => e \in Entries /\ done'[e.set] = done[e.set],
         n \in Ids => n \in Ids',
         \A d \in Calls : calls'[d].id = n /\ calls'[d].pc = "sending" =>
            /\ calls'[d] = calls[d] /\ done'[calls[d].set] = done[calls[d].set]
            /\ [id |-> n, set |-> calls[d].set] \in Entries => [id |-> n, set |-> calls[d].set] \in Entries',
         \A d \in Calls : calls[d].id = n /\ calls[d].pc = "success" => calls'[d] = calls[d]
  PROVE  Recorded(n)'
  <1>1. \A e \in Entries' : e.id = n => \A p \in Parts : delivered'[n][p] = IF p \in done'[e.set] THEN 1 ELSE 0
    BY DEF Recorded
  <1>2. \A d \in Calls : calls'[d].id = n /\ calls'[d].pc = "sending" =>
          /\ [id |-> n, set |-> calls'[d].set] \in Entries'
          /\ calls'[d].wire \cap done'[calls'[d].set] = {}
    <2>. SUFFICES ASSUME NEW d \in Calls, calls'[d].id = n, calls'[d].pc = "sending"
                  PROVE  /\ [id |-> n, set |-> calls'[d].set] \in Entries'
                         /\ calls'[d].wire \cap done'[calls'[d].set] = {}
      OBVIOUS
    <2>1. calls'[d] = calls[d] /\ done'[calls[d].set] = done[calls[d].set]
      OBVIOUS
    <2>2. [id |-> n, set |-> calls[d].set] \in Entries /\ calls[d].wire \cap done[calls[d].set] = {}
      BY <2>1 DEF Recorded, IdOf
    <2>. QED
      BY <2>1, <2>2
  <1>3. \/ n \in Ids' \/ \E d \in Calls : calls'[d].id = n /\ calls'[d].pc = "success"
        \/ \A p \in Parts : delivered'[n][p] = 0
    BY DEF Recorded, IdOf
  <1>4. \A p \in Parts : delivered'[n][p] <= 1
    BY DEF Recorded
  <1>. QED
    BY <1>1, <1>2, <1>3, <1>4 DEF Recorded, IdOf

LEMMA QuietTracks ==
  ASSUME SenderInv, [Next]_vars, NEW n \in Msgs \ excused',
         \/ Elsewhere
         \/ \E m \in Msgs, c \in Calls : Ask(m, c)
         \/ \E c \in Calls, m \in Msgs : GivesUp(c, m)
         \/ Restart
  PROVE  OneCall(n)' /\ Recorded(n)'
  <1>0. TypeOK /\ SetsFit /\ n \in Msgs
    BY DEF SenderInv
  <1>1. CASE Elsewhere
    <2>1. OneCall(n) /\ Recorded(n)
      BY <1>0, <1>1 DEF SenderInv, Tracked, Elsewhere
    <2>. QED
      BY <1>1, <2>1 DEF Elsewhere, OneCall, Recorded, Entries, Ids, IdOf, Running
  <1>2. ASSUME NEW m \in Msgs, NEW c \in Calls, Ask(m, c) PROVE OneCall(n)' /\ Recorded(n)'
    <2>1. /\ UNCHANGED <<completedParts, done, delivered>>
          /\ IdOf(c) = NoMsg /\ calls'[c].pc = "asked" /\ calls'[c].id = m
          /\ \A d \in Calls \ {c} : calls'[d] = calls[d]
          /\ excused \subseteq excused'
          /\ m \notin excused' =>
                \A d \in Calls : IdOf(d) = m => ~Running(d) /\ calls[d].pc # "success"
      BY <1>0, <1>2, AskFacts
    <2>2. OneCall(n) /\ Recorded(n)
      BY <2>1 DEF SenderInv, Tracked
    <2>3. Entries' = Entries /\ Ids' = Ids
      BY <2>1 DEF Entries, Ids
    <2>4. calls[c].id # n
      BY <1>0, <2>1, SenderAssumption DEF IdOf
    <2>5. Recorded(n)'
      BY <1>0, <2>1, <2>2, <2>3, <2>4, RecordedStays
    <2>6. OneCall(n)'
      <3>1. CASE n = m
        <4>1. \A d \in Calls : calls'[d].id = n /\ calls'[d].pc \in {"asked", "sending", "success"} => d = c
          BY <2>1, <3>1 DEF Running, IdOf
        <4>. QED
          BY <4>1 DEF OneCall, Running, IdOf
      <3>2. CASE n # m
        <4>1. \A d \in Calls : calls'[d].id = n => calls'[d] = calls[d]
          BY <2>1, <3>2
        <4>. QED
          BY <2>2, <4>1, OneCallStays DEF Running
      <3>. QED
        BY <3>1, <3>2
    <2>. QED
      BY <2>5, <2>6
  <1>3. ASSUME NEW c \in Calls, NEW m \in Msgs, GivesUp(c, m) PROVE OneCall(n)' /\ Recorded(n)'
    <2>1. UNCHANGED <<completedParts, done, delivered, excused>>
      BY <1>3 DEF GivesUp
    <2>2. \E result \in {"retryable", "final"} : calls' = [calls EXCEPT ![c] = Over(m, result)]
      BY <1>3 DEF GivesUp
    <2>3. calls'[c].pc \in {"retryable", "final"}
      BY <1>0, <2>2 DEF TypeOK, Over
    <2>4. /\ Running(c) /\ IdOf(c) = m /\ calls'[c].id = m
          /\ \A d \in Calls \ {c} : calls'[d] = calls[d]
      BY <1>0, <1>3, CallsMove
    <2>5. OneCall(n) /\ Recorded(n)
      BY <2>1 DEF SenderInv, Tracked
    <2>6. Entries' = Entries /\ Ids' = Ids
      BY <2>1 DEF Entries, Ids
    <2>7. \A d \in Calls : /\ calls'[d].pc \in {"asked", "sending", "success"} => calls'[d] = calls[d]
                           /\ calls[d].pc = "success" => calls'[d] = calls[d]
      BY <2>3, <2>4 DEF Running
    <2>8. Recorded(n)'
      BY <1>0, <2>1, <2>5, <2>6, <2>7, RecordedStays
    <2>9. \A d \in Calls : calls'[d].id = calls[d].id
      BY <2>4 DEF IdOf
    <2>10. OneCall(n)'
      BY <2>5, <2>7, <2>9, OneCallStays DEF Running
    <2>. QED
      BY <2>8, <2>10
  <1>4. CASE Restart
    <2>1. /\ UNCHANGED <<done, delivered>> /\ Entries' = {} /\ excused' = excused \cup Ids
          /\ \A d \in Calls : /\ calls'[d].id = calls[d].id
                              /\ ~Running(d) => calls'[d] = calls[d]
                              /\ Running(d) => calls'[d].pc = "dead"
      BY <1>0, <1>4, RestartFacts
    <2>2. OneCall(n) /\ Recorded(n) /\ n \notin Ids
      BY <2>1 DEF SenderInv, Tracked
    <2>3. \A d \in Calls : /\ calls'[d].pc \in {"asked", "sending", "success"} => calls'[d] = calls[d]
                           /\ calls'[d].pc \notin {"asked", "sending"}
                           /\ calls[d].pc = "success" => calls'[d] = calls[d]
      BY <2>1 DEF Running
    <2>4. Recorded(n)'
      BY <1>0, <2>1, <2>2, <2>3, RecordedStays
    <2>5. OneCall(n)'
      BY <2>1, <2>2, <2>3, OneCallStays
    <2>. QED
      BY <2>4, <2>5
  <1>. QED
    BY <1>1, <1>2, <1>3, <1>4

LEMMA AdvanceTracks ==
  ASSUME SenderInv, NEW c \in Calls, NEW m \in Msgs, NEW s \in Calls, NEW have \in SUBSET Parts,
         NEW tracked, Advances(c, m, s, have, tracked), NEW n \in Msgs, n \notin excused'
  PROVE  OneCall(n)' /\ Recorded(n)'
  <1>0. TypeOK /\ SetsFit /\ Continues(c, m, s, have, tracked)
    BY DEF SenderInv, Advances
  <1>1. /\ Running(c) /\ IdOf(c) = m
        /\ \A d \in Calls \ {c} : calls'[d] = calls[d]
        /\ calls'[c].id = m
        /\ calls'[c].pc \in {"success", "retryable", "final", "sending"}
    BY <1>0, CallsMove
  <1>2. done'[s] = have /\ \A d \in Calls \ {s} : done'[d] = done[d]
    BY <1>0 DEF Continues, TypeOK
  <1>3. Leaves(c, m, s, have, tracked)
    BY <1>0, OutcomeFacts
  <1>4. /\ IdOf(s) = m
        /\ \A e \in tracked : e \in Entry /\ IdOf(e.set) = e.id
        /\ \A l \in Msgs \ {m} : delivered'[l] = delivered[l]
        /\ excused \subseteq excused'
        /\ \A e \in Entries : e.id \notin excused' => e \in tracked
        /\ \A e \in tracked : e.id # m => e \in Entries
        /\ m \notin excused' => Accounted(m, s, have, tracked)
    BY DEF Advances
  <1>5. OneCall(n) /\ Recorded(n) /\ n \in Msgs /\ n \notin excused'
    BY <1>4 DEF SenderInv, Tracked
  <1>6. OneCall(n)'
    <2>1. \A d \in Calls : /\ calls'[d].id = calls[d].id
                           /\ calls'[d].pc \in {"asked", "sending"} => Running(d)
                           /\ calls'[d].pc = "success" => Running(d) \/ calls[d].pc = "success"
      BY <1>1 DEF IdOf, Running
    <2>. QED
      BY <1>5, <2>1, OneCallStays
  <1>7. Ids = {e.id : e \in Entries} /\ Ids' = {e.id : e \in Entries'}
    <2>1. Ids' = {e.id : e \in Entries'}
      BY DEF Ids, Entries, ToSet
    <2>. QED
      BY <1>0, <2>1, EntriesFit
  <1>8. CASE n # m
    <2>1. \A e \in Entries' : e.id = n => e \in Entries /\ done'[e.set] = done[e.set]
      BY <1>2, <1>3, <1>4, <1>8 DEF Entry, Leaves
    <2>2. \A e \in Entries : e.id = n => e \in Entries'
      BY <1>3, <1>4, <1>5, <1>8 DEF Leaves
    <2>3. n \in Ids => n \in Ids'
      BY <1>7, <2>2
    <2>4. \A d \in Calls : calls'[d].id = n => calls'[d] = calls[d]
      BY <1>1, <1>8
    <2>5. \A d \in Calls : calls'[d].id = n /\ calls'[d].pc = "sending" =>
            /\ calls'[d] = calls[d] /\ done'[calls[d].set] = done[calls[d].set]
            /\ [id |-> n, set |-> calls[d].set] \in Entries => [id |-> n, set |-> calls[d].set] \in Entries'
      <3>. SUFFICES ASSUME NEW d \in Calls, calls'[d].id = n, calls'[d].pc = "sending"
                    PROVE  /\ calls'[d] = calls[d] /\ done'[calls[d].set] = done[calls[d].set]
                           /\ [id |-> n, set |-> calls[d].set] \in Entries =>
                                 [id |-> n, set |-> calls[d].set] \in Entries'
        OBVIOUS
      <3>1. calls'[d] = calls[d]
        BY <2>4
      <3>2. calls[d].set \in Calls /\ IdOf(calls[d].set) = n
        BY <1>0, <3>1 DEF SetsFit, IdOf
      <3>3. done'[calls[d].set] = done[calls[d].set]
        BY <1>2, <1>4, <1>8, <3>2
      <3>. QED
        BY <2>2, <3>1, <3>3
    <2>6. \A d \in Calls : calls[d].id = n /\ calls[d].pc = "success" => calls'[d] = calls[d]
      BY <1>1, <1>8 DEF IdOf
    <2>7. delivered'[n] = delivered[n]
      BY <1>4, <1>5, <1>8
    <2>8. Recorded(n)'
      BY <1>5, <2>1, <2>3, <2>5, <2>6, <2>7, RecordedStays
    <2>. QED
      BY <1>6, <2>8
  <1>9. CASE n = m
    <2>1. Accounted(m, s, have, tracked)
      BY <1>4, <1>5, <1>9
    <2>2. \A e \in Entries' : e.id = m => e.set = s
      BY <1>3, <2>1 DEF Accounted, Leaves
    <2>3. \A e \in Entries' : e.id = m =>
             \A p \in Parts : delivered'[m][p] = IF p \in done'[e.set] THEN 1 ELSE 0
      BY <1>2, <2>1, <2>2 DEF Accounted
    <2>4. \A d \in Calls : calls'[d].id = m /\ calls'[d].pc = "sending" => d = c
      BY <1>1, <1>5, <1>9 DEF OneCall, Running, IdOf
    <2>5. \A d \in Calls : calls'[d].id = m /\ calls'[d].pc = "sending" =>
             /\ [id |-> m, set |-> calls'[d].set] \in Entries'
             /\ calls'[d].wire \cap done'[calls'[d].set] = {}
      BY <1>2, <1>3, <2>1, <2>4 DEF Accounted, Leaves
    <2>6. m \in Ids' \/ calls'[c].pc = "success"
      <3>. SUFFICES ASSUME calls'[c].pc # "success" PROVE m \in Ids'
        OBVIOUS
      <3>1. [id |-> m, set |-> s] \in Entries'
        BY <1>3, <2>1 DEF Accounted, Leaves
      <3>. QED
        BY <1>7, <3>1
    <2>7. \A p \in Parts : delivered'[m][p] <= 1
      BY <2>1 DEF Accounted
    <2>8. Recorded(m)'
      BY <1>1, <2>3, <2>5, <2>6, <2>7 DEF Recorded, IdOf
    <2>. QED
      BY <1>6, <1>9, <2>8
  <1>. QED
    BY <1>8, <1>9

-----------------------------------------------------------------------------
(* The invariant *)

LEMMA BoundsKept ==
  ASSUME TypeOK, [Next]_vars
  PROVE  /\ lost' \in [Msgs -> SUBSET Parts]
         /\ gaveUp' \in 0 .. MaxGiveUps /\ restarts' \in 0 .. MaxRestarts
  <1>0. /\ lost \in [Msgs -> SUBSET Parts]
        /\ gaveUp \in 0 .. MaxGiveUps /\ restarts \in 0 .. MaxRestarts
        /\ MaxGiveUps \in Nat /\ MaxRestarts \in Nat
    BY SenderAssumption DEF TypeOK
  <1>1. CASE UNCHANGED <<lost, gaveUp, restarts>>
    BY <1>0, <1>1
  <1>2. ASSUME NEW m \in Msgs, GiveUp(m)
        PROVE  UNCHANGED <<lost, restarts>> /\ gaveUp' = gaveUp + 1 /\ gaveUp < MaxGiveUps
    BY <1>2 DEF GiveUp
  <1>3. ASSUME NEW m \in Msgs, NEW part \in Parts, FileLost(m, part)
        PROVE  UNCHANGED <<gaveUp, restarts>> /\ lost' \in [Msgs -> SUBSET Parts]
    BY <1>0, <1>3 DEF FileLost
  <1>4. CASE Restart
    <2>1. UNCHANGED <<lost, gaveUp>> /\ restarts' = restarts + 1 /\ restarts < MaxRestarts
      BY <1>4 DEF Restart
    <2>. QED
      BY <1>0, <2>1
  <1>5. ASSUME NEW c \in Calls,
               \/ NotConnected(c) \/ StartsTracked(c) \/ StartsUntracked(c)
               \/ PartSent(c) \/ PartFails(c)
        PROVE  UNCHANGED <<lost, gaveUp, restarts>>
    BY <1>5 DEF NotConnected, StartsTracked, StartsUntracked, PartSent, PartFails
  <1>6. ASSUME NEW m \in Msgs, NEW c \in Calls, Ask(m, c) PROVE UNCHANGED <<lost, gaveUp, restarts>>
    BY <1>6 DEF Ask
  <1>7. CASE UNCHANGED vars
    BY <1>1, <1>7 DEF vars
  <1>8. CASE \E m \in Msgs : GiveUp(m)
    BY <1>0, <1>2, <1>8
  <1>. QED
    BY <1>0, <1>1, <1>3, <1>4, <1>5, <1>6, <1>7, <1>8 DEF Next

LEMMA TypeKept ==
  ASSUME SenderInv, [Next]_vars
  PROVE  TypeOK'
  <1>0. TypeOK /\ SetsFit
    BY DEF SenderInv
  <1>1. Outside'
    BY <1>0, Steps
  <1>2. /\ lost' \in [Msgs -> SUBSET Parts]
        /\ gaveUp' \in 0 .. MaxGiveUps /\ restarts' \in 0 .. MaxRestarts
    BY <1>0, BoundsKept
  <1>3. /\ content' \in [Msgs -> Payloads] /\ done' \in [Calls -> SUBSET Parts]
        /\ delivered' \in [Msgs -> [Parts -> Nat]] /\ calls' \in [Calls -> Call]
        /\ excused' \subseteq Msgs
    <2>1. CASE Elsewhere
      BY <1>0, <2>1 DEF Elsewhere, TypeOK
    <2>2. ASSUME NEW m \in Msgs, NEW c \in Calls, Ask(m, c)
          PROVE  /\ UNCHANGED <<content, done, delivered>> /\ calls' \in [Calls -> Call]
                 /\ excused' \in {excused, excused \cup {m}}
      BY <1>0, <2>2, AskFacts
    <2>3. ASSUME NEW c \in Calls, NEW m \in Msgs, GivesUp(c, m)
          PROVE  UNCHANGED <<content, done, delivered, excused>> /\ calls' \in [Calls -> Call]
      <3>1. calls' \in [Calls -> Call]
        BY <1>0, <2>3, CallsMove
      <3>. QED
        BY <2>3, <3>1 DEF GivesUp
    <2>4. CASE Restart
      BY <1>0, <2>4, RestartFacts DEF TypeOK
    <2>5. ASSUME NEW c \in Calls, NEW m \in Msgs, NEW s \in Calls, NEW have \in SUBSET Parts,
                 NEW tracked, Advances(c, m, s, have, tracked)
          PROVE  /\ content' = content /\ done' \in [Calls -> SUBSET Parts]
                 /\ delivered' \in [Msgs -> [Parts -> Nat]] /\ calls' \in [Calls -> Call]
                 /\ excused' \subseteq Msgs
      <3>1. Continues(c, m, s, have, tracked)
        BY <2>5 DEF Advances
      <3>2. calls' \in [Calls -> Call]
        BY <1>0, <3>1, CallsMove
      <3>3. content' = content /\ done' \in [Calls -> SUBSET Parts]
        BY <1>0, <3>1 DEF Continues, TypeOK
      <3>. QED
        BY <2>5, <3>2, <3>3 DEF Advances
    <2>6. /\ content \in [Msgs -> Payloads] /\ done \in [Calls -> SUBSET Parts]
          /\ delivered \in [Msgs -> [Parts -> Nat]] /\ excused \subseteq Msgs
      BY <1>0 DEF TypeOK
    <2>. QED
      BY <2>1, <2>2, <2>3, <2>4, <2>5, <2>6, StepKinds
  <1>. QED
    BY <1>1, <1>2, <1>3 DEF Outside, Distinct, TypeOK

LEMMA InvInit == Init => SenderInv
  <1>. SUFFICES ASSUME Init PROVE SenderInv
    OBVIOUS
  <1>1. << >> \in Seq(Entry) /\ Len(<< >>) = 0 /\ DOMAIN << >> = {}
    BY EmptySeq
  <1>2. /\ completedParts = << >> /\ done = [c \in Calls |-> {}] /\ excused = {}
        /\ calls = [c \in Calls |-> [pc |-> "unused", id |-> NoMsg, set |-> NoCall, wire |-> {}]]
        /\ delivered = [m \in Msgs |-> [p \in Parts |-> 0]]
    BY DEF Init
  <1>3. Entries = {}
    BY <1>1, <1>2 DEF Entries, ToSet
  <1>4. TypeOK
    BY <1>1, SenderAssumption DEF Init, TypeOK, Call
  <1>5. \A c \in Calls : calls[c].pc = "unused" /\ calls[c].id = NoMsg /\ done[c] = {}
    BY <1>2
  <1>6. SetsFit /\ DoneIsOut /\ TextLast /\ SuccessIsComplete
    BY <1>3, <1>5 DEF SetsFit, DoneIsOut, TextLast, SuccessIsComplete, IdOf
  <1>7. Tracked
    BY <1>2, <1>3, <1>5 DEF Tracked, OneCall, Recorded, Running
  <1>. QED
    BY <1>4, <1>6, <1>7 DEF SenderInv

LEMMA InvNext == SenderInv /\ [Next]_vars => SenderInv'
  <1>. SUFFICES ASSUME SenderInv, [Next]_vars PROVE SenderInv'
    OBVIOUS
  <1>1. TypeOK'
    BY TypeKept
  <1>2. CASE \/ Elsewhere
             \/ \E m \in Msgs, c \in Calls : Ask(m, c)
             \/ \E c \in Calls, m \in Msgs : GivesUp(c, m)
             \/ Restart
    <2>1. SetsFit' /\ DoneIsOut' /\ TextLast' /\ SuccessIsComplete'
      BY <1>2, IsQuiet, QuietKeeps
    <2>2. \A n \in Msgs \ excused' : OneCall(n)' /\ Recorded(n)'
      BY <1>2, QuietTracks
    <2>. QED
      BY <1>1, <2>1, <2>2 DEF SenderInv, Tracked
  <1>3. ASSUME NEW c \in Calls, NEW m \in Msgs, NEW s \in Calls, NEW have \in SUBSET Parts,
               NEW tracked, Advances(c, m, s, have, tracked)
        PROVE  SenderInv'
    <2>1. SetsFit' /\ DoneIsOut' /\ TextLast' /\ SuccessIsComplete'
      BY <1>3, AdvanceKeeps
    <2>2. \A n \in Msgs \ excused' : OneCall(n)' /\ Recorded(n)'
      BY <1>3, AdvanceTracks
    <2>. QED
      BY <1>1, <2>1, <2>2 DEF SenderInv, Tracked
  <1>. QED
    BY <1>2, <1>3, StepKinds

LEMMA InvHolds == Spec => []SenderInv
  BY InvInit, InvNext, PTL DEF Spec

-----------------------------------------------------------------------------
(* What the sender promises *)

\* The Map never holds more messages than its cap, nor one twice, and its Sets,
\* the calls and what Kotlin knows stay well formed (trackParts, sendMessage).
THEOREM TypeCorrect == Spec => []TypeOK
  <1>1. SenderInv => TypeOK
    BY DEF SenderInv
  <1>. QED
    BY <1>1, InvHolds, PTL

\* No part of a message reaches the recipient twice, over any number of retries,
\* for a message that is not resent without an answer, evicted from the Map or
\* caught by a restart (completedParts of sendMessage).
THEOREM PartsGoOutOnce == Spec => []PartsOnce
  <1>1. SenderInv => PartsOnce
    BY DEF SenderInv, Tracked, Recorded, PartsOnce
  <1>. QED
    BY <1>1, InvHolds, PTL

\* A call answers success only when every part of its message is out, excused
\* messages included.
THEOREM SuccessMeansComplete == Spec => []SuccessIsComplete
  <1>1. SenderInv => SuccessIsComplete
    BY DEF SenderInv
  <1>. QED
    BY <1>1, InvHolds, PTL

\* The step that brings a text to the recipient for the first time leaves all
\* parts of its message there: the text never overtakes a voice note or a file.
THEOREM TextComesLast == Spec => InOrder
  <1>. DEFINE Ordered == \A m \in Msgs :
                delivered[m]["text"] = 0 /\ delivered'[m]["text"] > 0 =>
                    \A p \in content[m].parts : delivered'[m][p] > 0
  <1>1. ASSUME SenderInv, Next PROVE Ordered
    <2>0. TypeOK /\ SetsFit
      BY <1>1 DEF SenderInv
    <2>1. \A n \in Msgs : /\ \A p \in Parts : delivered[n][p] \in Nat
                          /\ content[n].parts \subseteq Parts /\ "text" \in Parts
      BY <2>0, SenderAssumption, PartsFacts DEF TypeOK
    <2>2. CASE delivered' = delivered
      BY <2>1, <2>2
    <2>3. ASSUME NEW c \in Calls, NEW m \in Msgs, GoesOn(c, m) PROVE Ordered
      <3>. DEFINE w == calls[c].wire
      <3>1. /\ calls[c].pc = "sending" /\ IdOf(c) = m
            /\ delivered' = [delivered EXCEPT ![m] =
                   [p \in Parts |-> IF p \in w THEN @[p] + 1 ELSE @[p]]]
        BY <2>3 DEF GoesOn, Continues
      <3>2. w \in SUBSET Parts
        BY <2>0, <3>1, CallsFit
      <3>3. "text" \in w => \A p \in content[m].parts : p \in w \/ delivered[m][p] > 0
        BY <1>1, <3>1 DEF SenderInv, TextLast
      <3>. HIDE DEF w
      <3>4. /\ \A n \in Msgs \ {m} : delivered'[n] = delivered[n]
            /\ \A p \in Parts : delivered'[m][p] = IF p \in w THEN delivered[m][p] + 1 ELSE delivered[m][p]
        BY <2>0, <3>1, <3>2, SendingAdds DEF TypeOK
      <3>. SUFFICES ASSUME NEW n \in Msgs, delivered[n]["text"] = 0, delivered'[n]["text"] > 0,
                           NEW p \in content[n].parts
                    PROVE  delivered'[n][p] > 0
        OBVIOUS
      <3>5. n = m /\ "text" \in w
        BY <2>1, <3>4
      <3>. QED
        BY <2>1, <3>3, <3>4, <3>5
    <2>4. delivered' = delivered \/ \E c \in Calls, m \in Msgs : GoesOn(c, m)
      BY <1>1, <2>0, Steps DEF Elsewhere, Ask, Starts, GivesUp, Restart
    <2>. QED
      BY <2>2, <2>3, <2>4
  <1>2. SenderInv /\ [Next]_vars => [Ordered]_vars
    BY <1>1
  <1>. QED
    BY <1>2, InvHolds, PTL DEF Spec, InOrder

=============================================================================
