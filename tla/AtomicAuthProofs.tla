---------------------------- MODULE AtomicAuthProofs ----------------------------
(***************************************************************************)
(* Theorems about the session store, for any number of calls, key files,   *)
(* write errors and process deaths, and any size of the Map of mutexes.    *)
(*                                                                         *)
(* The inductive invariant has four parts beside the types: which calls    *)
(* there are, what the Map of mutexes still knows of the calls in          *)
(* progress, which name stands for which datum, and what is in the data of *)
(* the files whose mutex was never evicted in use.  From it follow the     *)
(* safety properties, that each file is an atomic register, and that no    *)
(* call waits for a mutex in vain.                                         *)
(***************************************************************************)
EXTENDS AtomicAuth, SequenceTheorems, WellFoundedInduction, TLAPS

PcVals == Settled \cup {"waiting", "writing", "renaming", "reading"}
Entry == [file : Files, lock : Ops]
CallRecord == [kind : Kinds \cup {"none"}, file : Files \cup {None}, lock : Ops \cup {None},
               pc : PcVals, data : Data \cup {None}, result : Data \cup {None, Corrupt},
               existed : BOOLEAN]

TypeOK ==
    /\ fileLocks \in Seq(Entry)
    /\ op \in [Ops -> CallRecord]
    /\ issued \in 0 .. MaxOps
    /\ disk \in [Files -> Data \cup {None}]
    /\ tmp \in [Files -> Data \cup {None}]
    /\ content \in [Data -> Data \cup Unparsable]
    /\ session \in BOOLEAN
    /\ forgotten \subseteq Files
    /\ errors \in Nat /\ crashes \in Nat

Active(o) == op[o].pc \notin Settled
Inside(o) == op[o].pc \in {"writing", "renaming", "reading"}
Opened(o) == op[o].pc \notin {"unmade", "waiting"}

\* The calls made so far, and what they were called for.
CallFits(o) ==
    /\ op[o].pc = "unmade" <=> o > issued
    /\ op[o].pc = "unmade" => op[o] = Unmade
    /\ op[o].pc # "unmade" => op[o].kind \in Kinds /\ op[o].file \in Files
    /\ Active(o) => op[o].lock \in Ops /\ op[o].lock <= issued /\ op[o].result = None
    /\ op[o].pc \in {"writing", "renaming"} => op[o].kind = "write"
    /\ op[o].pc = "reading" => op[o].kind \in {"read", "load"}
    /\ Inside(o) => op[o].data \in Data
    /\ op[o].kind = "load" => op[o].file = Creds
    /\ op[o].kind = "remove" => op[o].file \in Keys
CallsFit == \A o \in Ops : CallFits(o)

\* Two entries of the Map are of different files and different mutexes.
MapFits ==
    /\ \A i \in DOMAIN fileLocks : fileLocks[i].lock <= issued
    /\ \A i, j \in DOMAIN fileLocks :
           fileLocks[i].file = fileLocks[j].file \/ fileLocks[i].lock = fileLocks[j].lock => i = j

InMap(f, lock) == \E i \in DOMAIN fileLocks : fileLocks[i].file = f /\ fileLocks[i].lock = lock

\* A mutex is of one file; the Map has the mutex of every call in progress on
\* a file that was not forgotten; who is inside came first.
LocksFit ==
    /\ \A o, p \in Ops : Active(o) /\ Active(p) /\ op[o].lock = op[p].lock
                         => op[o].file = op[p].file
    /\ \A o \in Ops, i \in DOMAIN fileLocks :
           Active(o) /\ op[o].lock = fileLocks[i].lock => op[o].file = fileLocks[i].file
    /\ \A o \in Ops : Active(o) /\ op[o].file \notin forgotten => InMap(op[o].file, op[o].lock)
    /\ \A o \in Ops : Inside(o) => Holds(o)

\* A datum has one name at most, was opened by the call it is named after, and
\* what a call has opened is not the datum of another file.
NamesFit ==
    /\ \A f, g \in Files : disk[f] # None /\ disk[f] = disk[g] => f = g
    /\ \A f, g \in Files : tmp[f] # None /\ tmp[f] = tmp[g] => f = g
    /\ \A f, g \in Files : disk[f] # None => disk[f] # tmp[g]
    /\ \A f \in Files, e \in Ops : disk[f] = e \/ tmp[f] = e => Opened(e)
    /\ \A o, e \in Ops : Inside(o) /\ op[o].data = e => Opened(e)
    /\ \A o \in Ops, g \in Files :
           Inside(o) /\ (disk[g] = op[o].data \/ tmp[g] = op[o].data) => g = op[o].file

\* What a file not forgotten and its .tmp hold.
FileFits(f) ==
    /\ disk[f] # None => content[disk[f]] \notin Unparsable
    /\ \A o \in Ops : op[o].file = f =>
           /\ op[o].pc \in {"writing", "renaming"} => tmp[f] = op[o].data
           /\ op[o].pc = "writing" => content[op[o].data] = Partial
           /\ op[o].pc = "renaming" => content[op[o].data] = o
           /\ op[o].pc = "reading" => disk[f] = op[o].data
FilesFit == \A f \in Files \ forgotten : FileFits(f)

\* creds.json is never removed.
LoadFits(o) ==
    op[o].kind = "load" /\ op[o].existed =>
        /\ disk[Creds] # None
        /\ op[o].pc = "done" => op[o].result # None
LoadsFit == \A o \in Ops : LoadFits(o)

AuthInv == TypeOK /\ CallsFit /\ MapFits /\ LocksFit /\ NamesFit /\ FilesFit /\ LoadsFit

-----------------------------------------------------------------------------
(* The Map of mutexes *)

LEMMA SeqFacts ==
  ASSUME TypeOK
  PROVE  /\ DOMAIN fileLocks = 1 .. Len(fileLocks) /\ Len(fileLocks) \in Nat
         /\ \A i \in DOMAIN fileLocks : /\ fileLocks[i] \in Entry
                                        /\ fileLocks[i].file \in Files
                                        /\ fileLocks[i].lock \in Ops
  <1>1. fileLocks \in Seq(Entry)
    BY DEF TypeOK
  <1>2. DOMAIN fileLocks = 1 .. Len(fileLocks) /\ Len(fileLocks) \in Nat
    BY <1>1, LenProperties
  <1>3. \A i \in DOMAIN fileLocks : fileLocks[i] \in Entry
    BY <1>1, <1>2, ElementOfSeq
  <1>. QED
    BY <1>2, <1>3 DEF Entry

LEMMA PlaceFacts ==
  ASSUME TypeOK, NEW f \in Files, Known(f) # {}
  PROVE  /\ Place(f) \in DOMAIN fileLocks
         /\ fileLocks[Place(f)].file = f
         /\ LockOf(f) = fileLocks[Place(f)].lock
  BY DEF Known, Place, LockOf

\* What a sequence is without the element in place k.
LEMMA RemoveAtFacts ==
  ASSUME NEW S, NEW s \in Seq(S), NEW k \in 1 .. Len(s)
  PROVE  /\ RemoveAt(s, k) \in Seq(S)
         /\ Len(RemoveAt(s, k)) = Len(s) - 1
         /\ \A i \in 1 .. Len(s) - 1 : RemoveAt(s, k)[i] = IF i < k THEN s[i] ELSE s[i + 1]
  <1>. DEFINE left == SubSeq(s, 1, k - 1)
              right == SubSeq(s, k + 1, Len(s))
  <1>0. Len(s) \in Nat /\ k \in Int /\ \A i \in 1 .. Len(s) : s[i] \in S
    BY LenProperties, ElementOfSeq
  <1>1. left \in Seq(S) /\ Len(left) = k - 1 /\ \A i \in 1 .. k - 1 : left[i] = s[i]
    <2>1. \A i \in 1 .. k - 1 : s[i] \in S
      BY <1>0
    <2>. QED
      BY <1>0, <2>1, SubSeqProperties
  <1>2. right \in Seq(S) /\ Len(right) = Len(s) - k
        /\ \A i \in 1 .. Len(s) - k : right[i] = s[k + i]
    <2>1. \A i \in k + 1 .. Len(s) : s[i] \in S
      BY <1>0
    <2>. QED
      BY <1>0, <2>1, SubSeqProperties
  <1>. HIDE DEF left, right
  <1>3. RemoveAt(s, k) = left \o right
    BY DEF RemoveAt, left, right
  <1>4. /\ left \o right \in Seq(S)
        /\ Len(left \o right) = (k - 1) + (Len(s) - k)
        /\ \A i \in 1 .. (k - 1) + (Len(s) - k) :
              (left \o right)[i] = IF i <= k - 1 THEN left[i] ELSE right[i - (k - 1)]
    <2>1. /\ left \o right \in Seq(S)
          /\ Len(left \o right) = Len(left) + Len(right)
          /\ \A i \in 1 .. Len(left) + Len(right) :
                (left \o right)[i] = IF i <= Len(left) THEN left[i] ELSE right[i - Len(left)]
      BY <1>1, <1>2, ConcatProperties
    <2>. QED
      BY <1>1, <1>2, <2>1
  <1>5. \A i \in 1 .. Len(s) - 1 :
              (left \o right)[i] = IF i < k THEN s[i] ELSE s[i + 1]
    <2>. SUFFICES ASSUME NEW i \in 1 .. Len(s) - 1
                  PROVE  (left \o right)[i] = IF i < k THEN s[i] ELSE s[i + 1]
      OBVIOUS
    <2>0. i \in 1 .. (k - 1) + (Len(s) - k)
      BY <1>0
    <2>1. (left \o right)[i] = IF i <= k - 1 THEN left[i] ELSE right[i - (k - 1)]
      BY <1>4, <2>0
    <2>2. CASE i < k
      <3>1. i \in 1 .. k - 1 /\ i <= k - 1
        BY <1>0, <2>2
      <3>. QED
        BY <1>1, <2>1, <2>2, <3>1
    <2>3. CASE ~(i < k)
      <3>1. i - (k - 1) \in 1 .. Len(s) - k /\ k + (i - (k - 1)) = i + 1 /\ ~(i <= k - 1)
        BY <1>0, <2>3, k \in 1 .. Len(s)
      <3>2. right[i - (k - 1)] = s[i + 1]
        BY <1>2, <3>1
      <3>. QED
        BY <2>1, <2>3, <3>1, <3>2
    <2>. QED
      BY <2>2, <2>3
  <1>. QED
    BY <1>0, <1>3, <1>4, <1>5

\* getFileLock: the file is last with its mutex, every other entry stays but
\* the oldest of a full Map, and none comes twice.
LEMMA MapStep ==
  ASSUME TypeOK, MapFits, NEW f \in Files, issued < MaxOps, GetFileLock(f)
  PROVE  /\ fileLocks' \in Seq(Entry)
         /\ LockOf(f) \in Ops /\ LockOf(f) <= issued + 1
         /\ \A i \in DOMAIN fileLocks' :
                \/ fileLocks'[i].file = f /\ fileLocks'[i].lock = LockOf(f)
                \/ fileLocks'[i].file # f
                   /\ \E j \in DOMAIN fileLocks : fileLocks[j] = fileLocks'[i]
         /\ \E i \in DOMAIN fileLocks' : fileLocks'[i].file = f /\ fileLocks'[i].lock = LockOf(f)
         /\ \A j \in DOMAIN fileLocks :
                \/ fileLocks[j].file = f
                \/ \E i \in DOMAIN fileLocks' : fileLocks'[i] = fileLocks[j]
                \/ /\ Known(f) = {} /\ Len(fileLocks) >= Cap /\ j = 1
         /\ \A i, j \in DOMAIN fileLocks' : fileLocks'[i].file = fileLocks'[j].file => i = j
  <1>. DEFINE n == Len(fileLocks)
              full == Known(f) = {} /\ Len(fileLocks) >= Cap
              others == IF Known(f) # {} THEN RemoveAt(fileLocks, Place(f))
                        ELSE IF full THEN Tail(fileLocks) ELSE fileLocks
              new == [file |-> f, lock |-> LockOf(f)]
              out == IF Known(f) # {} THEN Place(f) ELSE IF full THEN 1 ELSE n + 1
              m == IF out <= n THEN n - 1 ELSE n
              before(i) == IF i < out THEN i ELSE i + 1
  <1>0. /\ fileLocks \in Seq(Entry) /\ n \in Nat /\ DOMAIN fileLocks = 1 .. n
        /\ \A i \in 1 .. n : /\ fileLocks[i] \in Entry /\ fileLocks[i].file \in Files
                             /\ fileLocks[i].lock \in Ops
        /\ Cap \in Nat \ {0} /\ MaxOps \in Nat /\ issued \in Nat
    BY SeqFacts, AtomicAuthAssumption DEF TypeOK
  <1>1. LockOf(f) \in Ops /\ LockOf(f) <= issued + 1 /\ new \in Entry
    <2>1. CASE Known(f) = {}
      BY <1>0, <2>1 DEF LockOf, Entry, Ops
    <2>2. CASE Known(f) # {}
      BY <1>0, <2>2, PlaceFacts DEF MapFits, Entry, Ops
    <2>. QED
      BY <2>1, <2>2
  <1>2. fileLocks' = Append(others, new)
    BY DEF GetFileLock
  <1>3. out \in 1 .. n + 1 /\ m \in Nat
    <2>1. Known(f) # {} => Place(f) \in 1 .. n
      BY <1>0, PlaceFacts
    <2>. QED
      BY <1>0, <2>1
  <1>4. /\ others \in Seq(Entry) /\ Len(others) = m
        /\ \A i \in 1 .. m : others[i] = fileLocks[before(i)]
    <2>1. CASE Known(f) # {}
      <3>1. Place(f) \in 1 .. n
        BY <1>0, <2>1, PlaceFacts
      <3>2. others = RemoveAt(fileLocks, Place(f)) /\ out = Place(f)
        BY <2>1
      <3>. HIDE DEF others, out, n
      <3>3. m = n - 1
        BY <1>0, <3>1, <3>2
      <3>. HIDE DEF m
      <3>. USE DEF n
      <3>4. /\ RemoveAt(fileLocks, Place(f)) \in Seq(Entry)
            /\ Len(RemoveAt(fileLocks, Place(f))) = n - 1
            /\ \A i \in 1 .. n - 1 : RemoveAt(fileLocks, Place(f))[i]
                                     = IF i < Place(f) THEN fileLocks[i] ELSE fileLocks[i + 1]
        BY <1>0, <3>1, RemoveAtFacts
      <3>. HIDE DEF n
      <3>. QED
        BY <3>2, <3>3, <3>4
    <2>2. CASE Known(f) = {} /\ full
      <3>1. others = Tail(fileLocks) /\ out = 1
        BY <2>2
      <3>4. n > 0
        BY <1>0, <2>2
      <3>6. fileLocks # << >>
        BY <3>4, EmptySeq
      <3>. HIDE DEF others, out, n
      <3>5. fileLocks # << >> /\ m = n - 1
        BY <1>0, <3>1, <3>4, <3>6
      <3>. USE DEF n
      <3>2. /\ Tail(fileLocks) \in Seq(Entry) /\ Len(Tail(fileLocks)) = n - 1
            /\ \A i \in 1 .. n - 1 : Tail(fileLocks)[i] = fileLocks[i + 1]
        BY <1>0, <3>5, HeadTailProperties
      <3>. HIDE DEF others, out, m, n
      <3>. QED
        BY <1>0, <3>1, <3>2, <3>5
    <2>3. CASE Known(f) = {} /\ ~full
      <3>1. others = fileLocks /\ out = n + 1
        BY <2>3
      <3>. HIDE DEF others, out, n
      <3>2. m = n
        BY <1>0, <3>1
      <3>. HIDE DEF m
      <3>. QED
        BY <1>0, <3>1, <3>2
    <2>. QED
      BY <2>1, <2>2, <2>3
  <1>. HIDE DEF others
  <1>5. /\ Append(others, new) \in Seq(Entry)
        /\ Len(Append(others, new)) = m + 1
        /\ \A i \in 1 .. m : Append(others, new)[i] = others[i]
        /\ Append(others, new)[m + 1] = new
    BY <1>1, <1>4, AppendProperties
  <1>6. /\ fileLocks' \in Seq(Entry) /\ DOMAIN fileLocks' = 1 .. m + 1
        /\ \A i \in 1 .. m : fileLocks'[i] = fileLocks[before(i)]
        /\ fileLocks'[m + 1] = new
    BY <1>2, <1>3, <1>4, <1>5, LenProperties
  <1>7. new.file = f /\ new.lock = LockOf(f)
    OBVIOUS
  <1>8. \A i \in 1 .. m : before(i) \in 1 .. n /\ before(i) # out
    BY <1>0, <1>3
  <1>9. \A j \in 1 .. n : fileLocks[j].file = f => j = out
    <2>1. CASE Known(f) = {}
      BY <1>0, <2>1 DEF Known
    <2>2. CASE Known(f) # {}
      BY <1>0, <2>2, PlaceFacts DEF MapFits
    <2>. QED
      BY <2>1, <2>2
  <1>10. \A i \in 1 .. m : fileLocks'[i].file # f
    BY <1>6, <1>8, <1>9
  <1>11. \A j \in 1 .. n : j # out => \E i \in 1 .. m : before(i) = j
    <2>. SUFFICES ASSUME NEW j \in 1 .. n, j # out
                  PROVE  \E i \in 1 .. m : before(i) = j
      OBVIOUS
    <2>1. CASE j < out
      BY <1>0, <1>3, <2>1
    <2>2. CASE j > out
      <3>1. j - 1 \in 1 .. m /\ before(j - 1) = j
        BY <1>0, <1>3, <2>2
      <3>. QED
        BY <3>1
    <2>. QED
      BY <1>0, <1>3, <2>1, <2>2
  <1>12. \A i \in DOMAIN fileLocks' :
            \/ fileLocks'[i].file = f /\ fileLocks'[i].lock = LockOf(f)
            \/ fileLocks'[i].file # f
               /\ \E j \in DOMAIN fileLocks : fileLocks[j] = fileLocks'[i]
    <2>. SUFFICES ASSUME NEW i \in 1 .. m + 1
                  PROVE  \/ fileLocks'[i].file = f /\ fileLocks'[i].lock = LockOf(f)
                         \/ fileLocks'[i].file # f
                            /\ \E j \in 1 .. n : fileLocks[j] = fileLocks'[i]
      BY <1>0, <1>6
    <2>1. CASE i \in 1 .. m
      BY <1>6, <1>8, <1>10, <2>1
    <2>2. CASE i = m + 1
      BY <1>6, <1>7, <2>2
    <2>. QED
      BY <1>3, <2>1, <2>2
  <1>13. \E i \in DOMAIN fileLocks' : fileLocks'[i].file = f /\ fileLocks'[i].lock = LockOf(f)
    <2>1. m + 1 \in DOMAIN fileLocks'
      BY <1>3, <1>6
    <2>. QED
      BY <1>6, <1>7, <2>1
  <1>14. ASSUME NEW j \in DOMAIN fileLocks
         PROVE  \/ fileLocks[j].file = f
                \/ \E i \in DOMAIN fileLocks' : fileLocks'[i] = fileLocks[j]
                \/ /\ Known(f) = {} /\ Len(fileLocks) >= Cap /\ j = 1
    <2>1. CASE j # out
      <3>1. PICK i \in 1 .. m : before(i) = j
        BY <1>0, <1>11, <2>1
      <3>2. i \in DOMAIN fileLocks'
        BY <1>3, <1>6
      <3>. QED
        BY <1>6, <3>1, <3>2
    <2>2. CASE j = out
      BY <1>0, <2>2, PlaceFacts
    <2>. QED
      BY <2>1, <2>2
  <1>15. ASSUME NEW i \in DOMAIN fileLocks', NEW j \in DOMAIN fileLocks',
                fileLocks'[i].file = fileLocks'[j].file
         PROVE  i = j
    <2>0. i \in 1 .. m + 1 /\ j \in 1 .. m + 1
      BY <1>6
    <2>1. CASE i \in 1 .. m /\ j \in 1 .. m
      <3>1. /\ before(i) \in DOMAIN fileLocks /\ before(j) \in DOMAIN fileLocks
            /\ fileLocks[before(i)].file = fileLocks[before(j)].file
        BY <1>0, <1>6, <1>8, <1>15, <2>1
      <3>2. before(i) = before(j)
        BY <3>1 DEF MapFits
      <3>. QED
        BY <1>3, <2>1, <3>2
    <2>2. CASE i = m + 1 \/ j = m + 1
      BY <1>3, <1>6, <1>7, <1>10, <1>15, <2>0, <2>2
    <2>. QED
      BY <1>3, <2>0, <2>1, <2>2
  <1>. QED
    BY <1>1, <1>6, <1>12, <1>13, <1>14, <1>15

-----------------------------------------------------------------------------
(* A call is made *)

\* What each kind of call is made on.
Asked(kind, f) ==
    /\ kind \in Kinds /\ f \in Files
    /\ kind = "load" => f = Creds
    /\ kind = "remove" => f \in Keys

\* A file is forgotten only when its entry is evicted with a call in progress.
LEMMA Eviction ==
  ASSUME AuthInv, NEW f \in Files, GetFileLock(f)
  PROVE  /\ forgotten \subseteq forgotten' /\ forgotten' \subseteq Files
         /\ Known(f) = {} /\ Len(fileLocks) >= Cap /\ InUse(fileLocks[1].lock)
            => fileLocks[1].file \in forgotten'
  <1>1. CASE Known(f) = {} /\ Len(fileLocks) >= Cap
    <2>1. fileLocks \in Seq(Entry) /\ Len(fileLocks) \in Nat /\ Len(fileLocks) > 0
      BY <1>1, SeqFacts, AtomicAuthAssumption DEF AuthInv, TypeOK
    <2>2. Head(fileLocks) = fileLocks[1] /\ fileLocks[1].file \in Files
      BY <2>1, SeqFacts DEF AuthInv
    <2>. QED
      BY <1>1, <2>2 DEF GetFileLock, AuthInv, TypeOK
  <1>2. CASE ~(Known(f) = {} /\ Len(fileLocks) >= Cap)
    BY <1>2 DEF GetFileLock, AuthInv, TypeOK
  <1>. QED
    BY <1>1, <1>2

\* The new call has the mutex of its file, if the Map has one.
LEMMA MakeLocks ==
  ASSUME AuthInv, NEW kind, NEW f, Asked(kind, f), Make(kind, f)
  PROVE  MapFits' /\ LocksFit'
  <1>. DEFINE o == issued + 1
  <1>0. /\ o \in Ops /\ issued \in Nat /\ issued' = o /\ f \in Files
        /\ issued < MaxOps /\ GetFileLock(f) /\ TypeOK /\ MapFits
    BY AtomicAuthAssumption DEF AuthInv, TypeOK, Make, Asked, Ops
  <1>1. /\ \A p \in Ops : p # o => op'[p] = op[p]
        /\ op'[o].pc = "waiting" /\ op'[o].file = f /\ op'[o].lock = LockOf(f)
    BY <1>0 DEF Make, Unmade, AuthInv, TypeOK
  <1>2. \A p \in Ops : Active(p) => p <= issued /\ op[p].lock \in Ops /\ op[p].lock <= issued
    BY <1>0 DEF AuthInv, CallsFit, CallFits, Active, Settled, Ops
  <1>3. ~Active(o)
    BY <1>0, <1>2
  <1>4. \A i \in DOMAIN fileLocks : fileLocks[i].lock \in Ops /\ fileLocks[i].lock <= issued
    BY <1>0, SeqFacts DEF MapFits
  <1>5. Known(f) # {} => /\ Place(f) \in DOMAIN fileLocks /\ fileLocks[Place(f)].file = f
                         /\ LockOf(f) = fileLocks[Place(f)].lock
    BY <1>0, PlaceFacts
  <1>6. Known(f) = {} => LockOf(f) = o
    BY DEF LockOf
  \* the mutex of the file was of no other
  <1>7. \A i \in DOMAIN fileLocks : fileLocks[i].lock = LockOf(f) => fileLocks[i].file = f
    <2>1. CASE Known(f) = {}
      BY <1>0, <1>4, <1>6, <2>1 DEF Ops
    <2>2. CASE Known(f) # {}
      BY <1>0, <1>5, <2>2 DEF MapFits
    <2>. QED
      BY <2>1, <2>2
  <1>8. \A p \in Ops : Active(p) /\ op[p].lock = LockOf(f) => op[p].file = f
    <2>1. CASE Known(f) = {}
      BY <1>0, <1>2, <1>6, <2>1 DEF Ops
    <2>2. CASE Known(f) # {}
      BY <1>0, <1>5, <2>2 DEF AuthInv, LocksFit
    <2>. QED
      BY <2>1, <2>2
  <1>9. /\ \A i \in DOMAIN fileLocks' :
               \/ fileLocks'[i].file = f /\ fileLocks'[i].lock = LockOf(f)
               \/ fileLocks'[i].file # f
                  /\ \E j \in DOMAIN fileLocks : fileLocks[j] = fileLocks'[i]
        /\ LockOf(f) \in Ops /\ LockOf(f) <= o
        /\ \A i, j \in DOMAIN fileLocks' : fileLocks'[i].file = fileLocks'[j].file => i = j
    BY <1>0, MapStep
  <1>10. MapFits'
    <2>1. ASSUME NEW i \in DOMAIN fileLocks'
          PROVE  fileLocks'[i].lock <= issued'
      BY <1>0, <1>4, <1>9 DEF Ops
    <2>2. \A i \in DOMAIN fileLocks' : fileLocks'[i].lock = LockOf(f) => fileLocks'[i].file = f
      BY <1>7, <1>9
    <2>3. ASSUME NEW i \in DOMAIN fileLocks', NEW j \in DOMAIN fileLocks',
                 fileLocks'[i].lock = fileLocks'[j].lock
          PROVE  fileLocks'[i].file = fileLocks'[j].file
      <3>1. CASE fileLocks'[i].file = f /\ fileLocks'[i].lock = LockOf(f)
        BY <2>2, <2>3, <3>1
      <3>2. CASE fileLocks'[j].file = f /\ fileLocks'[j].lock = LockOf(f)
        BY <2>2, <2>3, <3>2
      <3>3. CASE /\ \E k \in DOMAIN fileLocks : fileLocks[k] = fileLocks'[i]
                 /\ \E k \in DOMAIN fileLocks : fileLocks[k] = fileLocks'[j]
        BY <1>0, <2>3, <3>3 DEF MapFits
      <3>. QED
        BY <1>9, <3>1, <3>2, <3>3
    <2>4. \A i, j \in DOMAIN fileLocks' :
             fileLocks'[i].file = fileLocks'[j].file \/ fileLocks'[i].lock = fileLocks'[j].lock
             => i = j
      BY <1>9, <2>3
    <2>. QED
      BY <2>1, <2>4 DEF MapFits
  <1>11. \A p \in Ops : Active(p)' => p = o \/ (Active(p) /\ op'[p] = op[p])
    BY <1>1 DEF Active
  <1>12. ASSUME NEW p \in Ops, NEW q \in Ops, Active(p)', Active(q)', op'[p].lock = op'[q].lock
         PROVE  op'[p].file = op'[q].file
    BY <1>1, <1>8, <1>11, <1>12 DEF AuthInv, LocksFit
  <1>13. ASSUME NEW p \in Ops, NEW i \in DOMAIN fileLocks', Active(p)',
                op'[p].lock = fileLocks'[i].lock
         PROVE  op'[p].file = fileLocks'[i].file
    BY <1>1, <1>7, <1>8, <1>9, <1>11, <1>13 DEF AuthInv, LocksFit
  <1>14. ASSUME NEW p \in Ops, Active(p)', op'[p].file \notin forgotten'
         PROVE  InMap(op[p].file, op[p].lock)' 
    <2>0. \E i \in DOMAIN fileLocks' : fileLocks'[i].file = f /\ fileLocks'[i].lock = LockOf(f)
      BY <1>0, MapStep
    <2>1. CASE p = o
      BY <1>1, <2>0, <2>1 DEF InMap
    <2>2. CASE p # o
      <3>1. Active(p) /\ op'[p] = op[p] /\ op[p].file \notin forgotten
        BY <1>0, <1>11, <1>14, <2>2, Eviction
      <3>2. PICK j \in DOMAIN fileLocks : fileLocks[j].file = op[p].file
                                          /\ fileLocks[j].lock = op[p].lock
        BY <3>1 DEF AuthInv, LocksFit, InMap
      <3>3. CASE fileLocks[j].file = f
        <4>1. fileLocks[j].lock = LockOf(f)
          BY <1>0, <1>5, <3>3 DEF MapFits, Known
        <4>. QED
          BY <2>0, <3>1, <3>2, <3>3, <4>1 DEF InMap
      <3>4. CASE \E i \in DOMAIN fileLocks' : fileLocks'[i] = fileLocks[j]
        BY <3>1, <3>2, <3>4 DEF InMap
      <3>5. CASE Known(f) = {} /\ Len(fileLocks) >= Cap /\ j = 1
        <4>1. InUse(fileLocks[1].lock)
          BY <3>1, <3>2, <3>5 DEF InUse, Active
        <4>2. fileLocks[1].file \in forgotten'
          BY <1>0, <3>5, <4>1, Eviction
        <4>. QED
          BY <1>14, <3>1, <3>2, <3>5, <4>2
      <3>6. \/ fileLocks[j].file = f
            \/ \E i \in DOMAIN fileLocks' : fileLocks'[i] = fileLocks[j]
            \/ Known(f) = {} /\ Len(fileLocks) >= Cap /\ j = 1
        BY <1>0, MapStep
      <3>. QED
        BY <3>3, <3>4, <3>5, <3>6
    <2>. QED
      BY <2>1, <2>2
  <1>15. ASSUME NEW p \in Ops, Inside(p)'
         PROVE  Holds(p)'
    <2>1. p # o /\ Inside(p) /\ op'[p] = op[p]
      BY <1>1, <1>15 DEF Inside
    <2>2. Holds(p) /\ p <= issued
      BY <1>2, <2>1 DEF AuthInv, LocksFit, Inside, Active, Settled
    <2>. QED
      BY <1>0, <1>11, <2>1, <2>2 DEF Holds, Active, Ops
  <1>. QED
    BY <1>10, <1>12, <1>13, <1>14, <1>15 DEF LocksFit, Active

LEMMA MakeKeeps ==
  ASSUME AuthInv, NEW kind, NEW f, Asked(kind, f), Make(kind, f)
  PROVE  AuthInv'
  <1>. DEFINE o == issued + 1
              r == [Unmade EXCEPT !.kind = kind, !.file = f, !.lock = LockOf(f),
                                  !.pc = "waiting", !.existed = disk[f] # None]
  <1>0. /\ o \in Ops /\ issued \in Nat /\ issued' = o /\ issued' \in 0 .. MaxOps /\ f \in Files
        /\ issued < MaxOps /\ GetFileLock(f) /\ TypeOK /\ MapFits
        /\ UNCHANGED <<files, session, budgets>>
    BY AtomicAuthAssumption DEF AuthInv, TypeOK, Make, Asked, Ops
  <1>1. fileLocks' \in Seq(Entry) /\ LockOf(f) \in Ops /\ LockOf(f) <= o
    BY <1>0, MapStep
  <1>2. /\ r \in CallRecord /\ r.kind = kind /\ r.file = f /\ r.lock = LockOf(f)
        /\ r.pc = "waiting" /\ r.result = None /\ r.existed = (disk[f] # None)
    BY <1>0, <1>1 DEF Unmade, CallRecord, PcVals, Asked
  <1>3. op' = [op EXCEPT ![o] = r]
    BY DEF Make
  <1>. HIDE DEF r
  <1>4. /\ op' \in [Ops -> CallRecord] /\ op'[o] = r
        /\ \A p \in Ops : p # o => op'[p] = op[p]
    BY <1>0, <1>2, <1>3 DEF TypeOK
  <1>5. forgotten \subseteq forgotten' /\ forgotten' \subseteq Files
    BY <1>0, Eviction
  <1>6. TypeOK'
    BY <1>0, <1>1, <1>4, <1>5 DEF TypeOK, files, budgets
  <1>7. CallsFit'
    <2>. SUFFICES ASSUME NEW p \in Ops PROVE CallFits(p)'
      BY DEF CallsFit
    <2>1. CASE p = o
      BY <1>0, <1>1, <1>2, <1>4, <2>1 DEF CallFits, Active, Inside, Settled, Asked, Ops
    <2>2. CASE p # o
      <3>1. CallFits(p) /\ op'[p] = op[p] /\ (p > issued' <=> p > issued)
        BY <1>0, <1>4, <2>2 DEF AuthInv, CallsFit, Ops
      <3>2. Active(p) => op[p].lock <= issued'
        BY <1>0, <3>1 DEF CallFits, Ops
      <3>. QED
        BY <3>1, <3>2 DEF CallFits, Active, Inside
    <2>. QED
      BY <2>1, <2>2
  <1>8. \A p \in Ops : /\ Inside(p)' => Inside(p) /\ op'[p] = op[p]
                       /\ Opened(p) => Opened(p)'
    <2>1. op[o].pc = "unmade"
      BY <1>0 DEF AuthInv, CallsFit, CallFits, Ops
    <2>. QED
      BY <1>2, <1>4, <2>1 DEF Inside, Opened
  <1>9. NamesFit'
    BY <1>0, <1>4, <1>8 DEF AuthInv, NamesFit, files
  <1>10. FilesFit'
    <2>. SUFFICES ASSUME NEW g \in Files, g \notin forgotten' PROVE FileFits(g)'
      BY DEF FilesFit
    <2>1. FileFits(g)
      BY <1>5 DEF AuthInv, FilesFit
    <2>2. \A p \in Ops : op'[p].pc \in {"writing", "renaming", "reading"} => op'[p] = op[p]
      BY <1>2, <1>4
    <2>. QED
      BY <1>0, <2>1, <2>2 DEF FileFits, files
  <1>11. LoadsFit'
    <2>. SUFFICES ASSUME NEW p \in Ops PROVE LoadFits(p)'
      BY DEF LoadsFit
    <2>1. CASE p = o
      BY <1>0, <1>2, <1>4, <2>1 DEF LoadFits, Asked, files
    <2>2. CASE p # o
      BY <1>0, <1>4, <2>2 DEF AuthInv, LoadsFit, LoadFits, files
    <2>. QED
      BY <2>1, <2>2
  <1>. QED
    BY <1>6, <1>7, <1>9, <1>10, <1>11, MakeLocks DEF AuthInv

-----------------------------------------------------------------------------
(* A call does something under its mutex *)

\* r: what a step of the call o leaves of it.
Leaves(o, r) ==
    /\ r \in CallRecord
    /\ r.kind = op[o].kind /\ r.file = op[o].file /\ r.existed = op[o].existed
    /\ r.pc \notin {"unmade", "waiting"}
    /\ r.pc \notin Settled => r.lock = op[o].lock /\ r.result = None /\ r.data \in Data
    /\ r.pc \in {"writing", "renaming"} => r.kind = "write"
    /\ r.pc = "reading" => r.kind \in {"read", "load"}

\* The calls and the mutexes after a step of the call that holds its mutex.
LEMMA Frame ==
  ASSUME AuthInv, NEW o \in Ops, Holds(o), NEW r, Leaves(o, r),
         op' = [op EXCEPT ![o] = r], UNCHANGED <<fileLocks, issued, forgotten>>
  PROVE  /\ op' \in [Ops -> CallRecord] /\ op'[o] = r
         /\ \A p \in Ops : p # o => op'[p] = op[p]
         /\ \A p \in Ops : Opened(p) => Opened(p)'
         /\ CallsFit' /\ MapFits' /\ LocksFit'
  <1>1. /\ op' \in [Ops -> CallRecord] /\ op'[o] = r
        /\ \A p \in Ops : p # o => op'[p] = op[p]
    BY DEF AuthInv, TypeOK, Leaves
  <1>2. \A p \in Ops : Opened(p) => Opened(p)'
    BY <1>1 DEF Opened, Leaves
  <1>3. Active(o) /\ CallFits(o)
    BY DEF Holds, Active, AuthInv, CallsFit
  <1>4. CallsFit'
    <2>. SUFFICES ASSUME NEW p \in Ops PROVE CallFits(p)'
      BY DEF CallsFit
    <2>1. CASE p = o
      <3>1. r.kind \in Kinds /\ r.file \in Files /\ o <= issued /\ op[o].lock \in Ops
            /\ op[o].lock <= issued
        BY <1>3 DEF CallFits, Active, Settled, Leaves, AuthInv, TypeOK, Ops
      <3>. QED
        BY <1>1, <1>3, <2>1, <3>1 DEF CallFits, Active, Inside, Settled, Leaves, AuthInv, TypeOK, Ops
    <2>2. CASE p # o
      BY <1>1, <2>2 DEF AuthInv, CallsFit, CallFits, Active, Inside
    <2>. QED
      BY <2>1, <2>2
  <1>5. MapFits'
    BY DEF AuthInv, MapFits
  <1>6. \A p \in Ops : Active(p)' => Active(p) /\ op'[p].lock = op[p].lock
                                     /\ op'[p].file = op[p].file
    BY <1>1, <1>3 DEF Active, Leaves
  <1>7. ASSUME NEW p \in Ops, Inside(p)'
        PROVE  Holds(p)'
    <2>1. Holds(p) /\ Active(p)'
      BY <1>1, <1>7 DEF AuthInv, LocksFit, Inside, Active, Settled
    <2>. QED
      BY <1>6, <2>1 DEF Holds, Active
  <1>8. LocksFit'
    <2>1. \A p, q \in Ops : Active(p)' /\ Active(q)' /\ op'[p].lock = op'[q].lock
                            => op'[p].file = op'[q].file
      BY <1>6 DEF AuthInv, LocksFit
    <2>2. \A p \in Ops, i \in DOMAIN fileLocks' :
             Active(p)' /\ op'[p].lock = fileLocks'[i].lock => op'[p].file = fileLocks'[i].file
      BY <1>6 DEF AuthInv, LocksFit
    <2>3. \A p \in Ops : Active(p)' /\ op'[p].file \notin forgotten'
                         => InMap(op[p].file, op[p].lock)'
      BY <1>6 DEF AuthInv, LocksFit, InMap
    <2>. QED
      BY <1>7, <2>1, <2>2, <2>3 DEF LocksFit
  <1>. QED
    BY <1>1, <1>2, <1>4, <1>5, <1>8

\* On a file that was not forgotten there is one mutex: the call that holds it
\* is the oldest, and no other is inside.
LEMMA Sole ==
  ASSUME AuthInv, NEW o \in Ops, Holds(o), op[o].file \notin forgotten,
         NEW p \in Ops, Active(p), op[p].file = op[o].file
  PROVE  o <= p /\ (Inside(p) => p = o)
  <1>1. Active(o)
    BY DEF Holds, Active
  <1>2. InMap(op[o].file, op[o].lock) /\ InMap(op[p].file, op[p].lock)
    BY <1>1 DEF AuthInv, LocksFit
  <1>3. op[p].lock = op[o].lock
    BY <1>2 DEF AuthInv, MapFits, InMap
  <1>4. o <= p
    BY <1>3 DEF Holds, Active
  <1>5. Inside(p) => p <= o
    BY <1>1, <1>3 DEF AuthInv, LocksFit, Holds, Active
  <1>. QED
    BY <1>4, <1>5 DEF Ops

\* Files that a step does not touch keep what they hold: d is the datum that
\* is written, if any.
LEMMA OtherFile ==
  ASSUME AuthInv, NEW o \in Ops, NEW g \in Files, g # op[o].file, FileFits(g),
         \A p \in Ops : p # o => op'[p] = op[p], op'[o].file = op[o].file,
         disk'[g] = disk[g], tmp'[g] = tmp[g], NEW d,
         \A e \in Data : e # d => content'[e] = content[e],
         disk[g] # None => disk[g] # d, tmp[g] # None => tmp[g] # d
  PROVE  FileFits(g)'
  <1>1. disk[g] \in Data \cup {None} /\ tmp[g] \in Data \cup {None} /\ None \notin Data
    BY AtomicAuthAssumption DEF AuthInv, TypeOK, Data, None
  <1>2. disk'[g] # None => content'[disk'[g]] \notin Unparsable
    BY <1>1 DEF FileFits
  <1>3. ASSUME NEW p \in Ops, op'[p].file = g
        PROVE  /\ op'[p].pc \in {"writing", "renaming"} => tmp'[g] = op'[p].data
               /\ op'[p].pc = "writing" => content'[op'[p].data] = Partial
               /\ op'[p].pc = "renaming" => content'[op'[p].data] = p
               /\ op'[p].pc = "reading" => disk'[g] = op'[p].data
    <2>1. p # o /\ op'[p] = op[p]
      BY <1>3
    <2>2. op[p].pc \in {"writing", "renaming"} => op[p].data \in Data /\ op[p].data # d
      BY <1>1, <1>3, <2>1 DEF AuthInv, CallsFit, CallFits, Inside, FileFits
    <2>. QED
      BY <1>3, <2>1, <2>2 DEF FileFits
  <1>. QED
    BY <1>2, <1>3 DEF FileFits

\* What the types say of the numbers used as values.
LEMMA Values ==
  /\ None \notin Data /\ None \notin Ops /\ None \notin Unparsable /\ Corrupt # None
  /\ Ops \subseteq Data
  /\ Data \cap Unparsable = {} /\ Partial \in Unparsable /\ Mixed \in Unparsable
  BY AtomicAuthAssumption DEF None, Data, Ops, Unparsable, Partial, Mixed, Corrupt

LEMMA OpenKeeps ==
  ASSUME AuthInv, NEW o \in Ops, Open(o)
  PROVE  AuthInv'
  <1>. DEFINE f == op[o].file
              d == IF tmp[f] = None THEN o ELSE tmp[f]
              r == [op[o] EXCEPT !.pc = "writing", !.data = d]
  <1>1. /\ Holds(o) /\ op[o].pc = "waiting" /\ op[o].kind = "write" /\ CallFits(o)
        /\ op[o] \in CallRecord /\ f \in Files /\ tmp[f] \in Data \cup {None}
    BY DEF Open, Starts, AuthInv, TypeOK, CallsFit, CallFits, Settled
  <1>2. d \in Data /\ ~Opened(o)
    BY <1>1, Values DEF Opened
  <1>3. Leaves(o, r) /\ r.pc = "writing" /\ r.data = d
    BY <1>1, <1>2 DEF Leaves, CallRecord, PcVals, Settled, CallFits, Active
  <1>4. /\ op' = [op EXCEPT ![o] = r] /\ tmp' = [tmp EXCEPT ![f] = d]
        /\ content' = [content EXCEPT ![d] = Partial]
        /\ UNCHANGED <<fileLocks, issued, forgotten, crashes, disk, session, errors>>
    BY <1>1 DEF Open, UnchangedByStep, CallRecord, AuthInv, TypeOK
  \* the datum is of no other file and of no other call
  <1>5. \A g \in Files : disk[g] # d /\ (tmp[g] = d => g = f)
    BY <1>1, <1>2, Values DEF AuthInv, NamesFit
  <1>6. \A p \in Ops : Inside(p) /\ op[p].data = d => op[p].file = f
    BY <1>1, <1>2, Values DEF AuthInv, NamesFit
  <1>. HIDE DEF r, d
  <1>7. /\ op' \in [Ops -> CallRecord] /\ op'[o] = r
        /\ \A p \in Ops : p # o => op'[p] = op[p]
        /\ \A p \in Ops : Opened(p) => Opened(p)'
        /\ CallsFit' /\ MapFits' /\ LocksFit'
    BY <1>1, <1>3, <1>4, Frame
  <1>8. r.file = f
    BY <1>3 DEF Leaves
  <1>9. TypeOK'
    BY <1>1, <1>2, <1>4, <1>7 DEF AuthInv, TypeOK, Unparsable
  <1>10. /\ tmp'[f] = d /\ \A g \in Files : g # f => tmp'[g] = tmp[g]
         /\ content'[d] = Partial /\ \A e \in Data : e # d => content'[e] = content[e]
         /\ disk' = disk
    BY <1>1, <1>2, <1>4 DEF AuthInv, TypeOK
  <1>11. Opened(o)'
    BY <1>3, <1>7 DEF Opened
  <1>12. NamesFit'
    <2>0. /\ \A g, h \in Files : disk[g] # None /\ disk[g] = disk[h] => g = h
          /\ \A g, h \in Files : tmp[g] # None /\ tmp[g] = tmp[h] => g = h
          /\ \A g, h \in Files : disk[g] # None => disk[g] # tmp[h]
          /\ \A g \in Files, e \in Ops : disk[g] = e \/ tmp[g] = e => Opened(e)
          /\ \A p, e \in Ops : Inside(p) /\ op[p].data = e => Opened(e)
          /\ \A p \in Ops, g \in Files :
                 Inside(p) /\ (disk[g] = op[p].data \/ tmp[g] = op[p].data) => g = op[p].file
      BY DEF AuthInv, NamesFit
    <2>1. \A e \in Ops : d = e => Opened(e)'
      BY <1>1, <1>7, <1>11, <2>0 DEF d
    <2>2. \A g, h \in Files : disk'[g] # None /\ disk'[g] = disk'[h] => g = h
      BY <1>10, <2>0
    <2>3. \A g, h \in Files : tmp'[g] # None /\ tmp'[g] = tmp'[h] => g = h
      BY <1>5, <1>10, <2>0
    <2>4. \A g, h \in Files : disk'[g] # None => disk'[g] # tmp'[h]
      BY <1>5, <1>10, <2>0
    <2>5. \A g \in Files, e \in Ops : disk'[g] = e \/ tmp'[g] = e => Opened(e)'
      BY <1>7, <1>10, <2>0, <2>1
    <2>6. \A p, e \in Ops : Inside(p)' /\ op'[p].data = e => Opened(e)'
      BY <1>3, <1>7, <2>0, <2>1 DEF Inside
    <2>7. \A p \in Ops, g \in Files :
             Inside(p)' /\ (disk'[g] = op'[p].data \/ tmp'[g] = op'[p].data)
             => g = op'[p].file
      BY <1>3, <1>5, <1>6, <1>7, <1>8, <1>10, <2>0 DEF Inside
    <2>. QED
      BY <2>2, <2>3, <2>4, <2>5, <2>6, <2>7 DEF NamesFit
  <1>13. FilesFit'
    <2>. SUFFICES ASSUME NEW g \in Files, g \notin forgotten PROVE FileFits(g)'
      BY <1>4 DEF FilesFit
    <2>0. FileFits(g)
      BY DEF AuthInv, FilesFit
    <2>1. CASE g # f
      BY <1>5, <1>7, <1>8, <1>10, <2>0, <2>1, OtherFile
    <2>2. CASE g = f
      <3>1. disk'[g] # None => content'[disk'[g]] \notin Unparsable
        BY <1>5, <1>10, <2>0, <2>2 DEF FileFits, AuthInv, TypeOK
      <3>2. ASSUME NEW p \in Ops, op'[p].file = g, Inside(p)'
            PROVE  p = o
        BY <1>1, <1>7, <2>2, <3>2, Sole DEF Inside, Active, Settled
      <3>. QED
        BY <1>3, <1>7, <1>10, <2>2, <3>1, <3>2 DEF FileFits, Inside
    <2>. QED
      BY <2>1, <2>2
  <1>14. LoadsFit'
    BY <1>1, <1>3, <1>7, <1>10 DEF AuthInv, LoadsFit, LoadFits, Leaves
  <1>. QED
    BY <1>7, <1>9, <1>12, <1>13, <1>14 DEF AuthInv

\* Names that stay, and a call that goes on with what it had opened or opens
\* what its file names.
LEMMA NamesStay ==
  ASSUME AuthInv, NEW o \in Ops, op'[o].file = op[o].file,
         \A p \in Ops : p # o => op'[p] = op[p], \A p \in Ops : Opened(p) => Opened(p)',
         disk' = disk, tmp' = tmp,
         Inside(o)' => \/ Inside(o) /\ op'[o].data = op[o].data
                       \/ op[o].file \in Files /\ disk[op[o].file] # None
                          /\ op'[o].data = disk[op[o].file]
  PROVE  NamesFit'
  <1>1. ASSUME NEW p \in Ops, Inside(p)', p # o
        PROVE  Inside(p) /\ op'[p] = op[p]
    BY <1>1 DEF Inside
  <1>2. \A p, e \in Ops : Inside(p)' /\ op'[p].data = e => Opened(e)'
    BY <1>1 DEF AuthInv, NamesFit
  <1>3. ASSUME NEW p \in Ops, NEW g \in Files, Inside(p)',
               disk'[g] = op'[p].data \/ tmp'[g] = op'[p].data
        PROVE  g = op'[p].file
    BY <1>1, <1>3 DEF AuthInv, NamesFit
  <1>. QED
    BY <1>2, <1>3 DEF AuthInv, NamesFit

LEMMA WrittenKeeps ==
  ASSUME AuthInv, NEW o \in Ops, Written(o)
  PROVE  AuthInv'
  <1>. DEFINE f == op[o].file
              d == op[o].data
              r == [op[o] EXCEPT !.pc = "renaming"]
  <1>1. /\ op[o].pc = "writing" /\ CallFits(o) /\ Inside(o) /\ Holds(o)
        /\ op[o] \in CallRecord /\ f \in Files /\ d \in Data /\ op[o].kind = "write"
    BY DEF Written, AuthInv, TypeOK, CallsFit, CallFits, Inside, LocksFit
  <1>2. Leaves(o, r) /\ r.pc = "renaming" /\ r.data = d /\ r.file = f
    BY <1>1 DEF Leaves, CallRecord, PcVals, Settled, CallFits, Active
  <1>3. op' = [op EXCEPT ![o] = r]
    BY <1>1 DEF Written, Step, Settled, CallRecord, AuthInv, TypeOK
  <1>4. /\ UNCHANGED <<fileLocks, issued, forgotten, crashes, disk, tmp, session, errors>>
        /\ content' \in [Data -> Data \cup Unparsable]
        /\ \A e \in Data : e # d => content'[e] = content[e]
        /\ content[d] = Partial => content'[d] = o
    BY <1>1, Values DEF Written, UnchangedByStep, AuthInv, TypeOK
  <1>. HIDE DEF r
  <1>5. /\ op' \in [Ops -> CallRecord] /\ op'[o] = r
        /\ \A p \in Ops : p # o => op'[p] = op[p]
        /\ \A p \in Ops : Opened(p) => Opened(p)'
        /\ CallsFit' /\ MapFits' /\ LocksFit'
    BY <1>1, <1>2, <1>3, <1>4, Frame
  <1>6. TypeOK'
    BY <1>4, <1>5 DEF AuthInv, TypeOK
  <1>7. NamesFit'
    BY <1>1, <1>2, <1>4, <1>5, NamesStay
  <1>8. FilesFit'
    <2>. SUFFICES ASSUME NEW g \in Files, g \notin forgotten PROVE FileFits(g)'
      BY <1>4 DEF FilesFit
    <2>0. FileFits(g)
      BY DEF AuthInv, FilesFit
    <2>1. CASE g # f
      <3>1. disk[g] # d /\ tmp[g] # d
        BY <1>1, <2>1 DEF AuthInv, NamesFit
      <3>. QED
        BY <1>2, <1>4, <1>5, <2>0, <2>1, <3>1, OtherFile
    <2>2. CASE g = f
      <3>1. tmp[g] = d /\ content[d] = Partial
        BY <1>1, <2>0, <2>2 DEF FileFits
      <3>2. disk'[g] # None => content'[disk'[g]] \notin Unparsable
        <4>1. disk[g] # None => disk[g] # d /\ disk[g] \in Data
          BY <2>2, <3>1 DEF AuthInv, NamesFit, TypeOK
        <4>. QED
          BY <1>4, <2>0, <4>1 DEF FileFits
      <3>3. ASSUME NEW p \in Ops, op'[p].file = g, Inside(p)'
            PROVE  p = o
        BY <1>1, <1>5, <2>2, <3>3, Sole DEF Inside, Active, Settled
      <3>. QED
        BY <1>2, <1>4, <1>5, <3>1, <3>2, <3>3 DEF FileFits, Inside
    <2>. QED
      BY <2>1, <2>2
  <1>9. LoadsFit'
    BY <1>1, <1>2, <1>4, <1>5 DEF AuthInv, LoadsFit, LoadFits, Leaves
  <1>. QED
    BY <1>5, <1>6, <1>7, <1>8, <1>9 DEF AuthInv

\* A step that leaves the files alone.
LEMMA FilesStay ==
  ASSUME AuthInv, NEW o \in Ops, Holds(o), NEW r, Leaves(o, r),
         op' = [op EXCEPT ![o] = r], UNCHANGED <<fileLocks, issued, forgotten, files>>,
         session' \in BOOLEAN, errors' \in Nat, crashes' \in Nat,
         \/ r.pc \in Settled
         \/ r.pc = "reading" /\ disk[op[o].file] # None /\ r.data = disk[op[o].file],
         r.kind = "load" /\ r.existed /\ r.pc = "done" /\ disk[Creds] # None => r.result # None
  PROVE  AuthInv'
  <1>1. /\ op' \in [Ops -> CallRecord] /\ op'[o] = r
        /\ \A p \in Ops : p # o => op'[p] = op[p]
        /\ \A p \in Ops : Opened(p) => Opened(p)'
        /\ CallsFit' /\ MapFits' /\ LocksFit'
    BY Frame
  <1>2. /\ disk' = disk /\ tmp' = tmp /\ content' = content /\ r.file = op[o].file
        /\ r.kind = op[o].kind /\ r.existed = op[o].existed
    BY DEF files, Leaves
  <1>3. op[o].file \in Files
    BY DEF Holds, Settled, AuthInv, CallsFit, CallFits
  <1>4. TypeOK'
    BY <1>1, <1>2 DEF AuthInv, TypeOK
  <1>5. NamesFit'
    BY <1>1, <1>2, <1>3, NamesStay DEF Inside, Settled
  <1>6. FilesFit'
    <2>. SUFFICES ASSUME NEW g \in Files, g \notin forgotten PROVE FileFits(g)'
      BY DEF FilesFit
    <2>1. FileFits(g)
      BY DEF AuthInv, FilesFit
    <2>2. ASSUME NEW p \in Ops, op'[p].file = g
          PROVE  /\ op'[p].pc \in {"writing", "renaming"} => tmp'[g] = op'[p].data
                 /\ op'[p].pc = "writing" => content'[op'[p].data] = Partial
                 /\ op'[p].pc = "renaming" => content'[op'[p].data] = p
                 /\ op'[p].pc = "reading" => disk'[g] = op'[p].data
      <3>1. CASE p = o
        BY <1>1, <1>2, <2>2, <3>1 DEF Settled
      <3>2. CASE p # o
        BY <1>1, <1>2, <2>1, <2>2, <3>2 DEF FileFits
      <3>. QED
        BY <3>1, <3>2
    <2>. QED
      BY <1>2, <2>1, <2>2 DEF FileFits
  <1>7. LoadsFit'
    <2>. SUFFICES ASSUME NEW p \in Ops PROVE LoadFits(p)'
      BY DEF LoadsFit
    <2>1. LoadFits(p)
      BY DEF AuthInv, LoadsFit
    <2>2. CASE p = o
      BY <1>1, <1>2, <2>1, <2>2 DEF LoadFits
    <2>3. CASE p # o
      BY <1>1, <1>2, <2>1, <2>3 DEF LoadFits
    <2>. QED
      BY <2>2, <2>3
  <1>. QED
    BY <1>1, <1>4, <1>5, <1>6, <1>7 DEF AuthInv

LEMMA WriteFailsKeeps ==
  ASSUME AuthInv, NEW o \in Ops, WriteFails(o)
  PROVE  AuthInv'
  <1>. DEFINE r == [op[o] EXCEPT !.pc = "failed", !.lock = None, !.data = None]
  <1>1. /\ op[o].pc = "writing" /\ Holds(o) /\ op[o] \in CallRecord /\ op \in [Ops -> CallRecord]
    BY DEF WriteFails, AuthInv, TypeOK, Inside, LocksFit
  <1>2. Leaves(o, r) /\ r.pc = "failed"
    BY <1>1 DEF Leaves, CallRecord, PcVals, Settled
  <1>3. op' = [op EXCEPT ![o] = r]
    BY <1>1 DEF WriteFails, Step, Settled, CallRecord
  <1>4. /\ UNCHANGED <<fileLocks, issued, forgotten, files>>
        /\ session' \in BOOLEAN /\ errors' \in Nat /\ crashes' \in Nat
    BY DEF WriteFails, UnchangedByStep, AuthInv, TypeOK, files
  <1>. HIDE DEF r
  <1>. QED
    BY <1>1, <1>2, <1>3, <1>4, FilesStay DEF Settled

LEMMA OpenForReadKeeps ==
  ASSUME AuthInv, NEW o \in Ops, OpenForRead(o)
  PROVE  AuthInv'
  <1>. DEFINE f == op[o].file
              r == [op[o] EXCEPT !.pc = "reading", !.data = disk[f]]
  <1>1. /\ op[o].pc = "waiting" /\ op[o].kind \in {"read", "load"} /\ Holds(o)
        /\ op[o] \in CallRecord /\ op \in [Ops -> CallRecord] /\ CallFits(o)
        /\ f \in Files /\ disk[f] # None /\ disk[f] \in Data
    BY DEF OpenForRead, Starts, AuthInv, TypeOK, CallsFit, CallFits, Settled
  <1>2. Leaves(o, r) /\ r.pc = "reading" /\ r.data = disk[f]
    BY <1>1 DEF Leaves, CallRecord, PcVals, Settled, CallFits, Active
  <1>3. op' = [op EXCEPT ![o] = r]
    BY <1>1 DEF OpenForRead, CallRecord
  <1>4. /\ UNCHANGED <<fileLocks, issued, forgotten, files>>
        /\ session' \in BOOLEAN /\ errors' \in Nat /\ crashes' \in Nat
    BY DEF OpenForRead, UnchangedByStep, AuthInv, TypeOK, files
  <1>. HIDE DEF r
  <1>. QED
    BY <1>1, <1>2, <1>3, <1>4, FilesStay

\* A result other than null is returned when creds.json is there.
LEMMA ReturnKeeps ==
  ASSUME AuthInv, NEW o \in Ops, Holds(o), NEW result \in Data \cup {None, Corrupt},
         Return(o, result), op[o].kind = "load" /\ disk[Creds] # None => result # None
  PROVE  AuthInv'
  <1>. DEFINE r == [op[o] EXCEPT !.pc = "done", !.result = result, !.lock = None, !.data = None]
  <1>1. op[o] \in CallRecord /\ op \in [Ops -> CallRecord]
    BY DEF AuthInv, TypeOK
  <1>2. Leaves(o, r) /\ r.pc = "done" /\ r.result = result /\ r.kind = op[o].kind
    BY <1>1 DEF Leaves, CallRecord, PcVals, Settled
  <1>3. op' = [op EXCEPT ![o] = r]
    BY <1>1 DEF Return, CallRecord
  <1>4. /\ UNCHANGED <<fileLocks, issued, forgotten, files>>
        /\ session' \in BOOLEAN /\ errors' \in Nat /\ crashes' \in Nat
    BY DEF Return, UnchangedByStep, AuthInv, TypeOK, files
  <1>. HIDE DEF r
  <1>. QED
    BY <1>2, <1>3, <1>4, FilesStay DEF Settled

LEMMA ReadNothingKeeps ==
  ASSUME AuthInv, NEW o \in Ops, ReadNothing(o)
  PROVE  AuthInv'
  <1>1. Holds(o) /\ disk[op[o].file] = None /\ Return(o, None)
    BY DEF ReadNothing, Starts
  <1>2. op[o].kind = "load" => op[o].file = Creds
    BY DEF AuthInv, CallsFit, CallFits
  <1>. QED
    BY <1>1, <1>2, ReturnKeeps

\* What a reader returns.
LEMMA ParsedFacts ==
  ASSUME AuthInv, NEW o \in Ops, op[o].pc = "reading"
  PROVE  /\ Parsed(o) \in Data \cup {None, Corrupt}
         /\ op[o].kind = "load" => Parsed(o) # None
         /\ op[o].data \in Data
  <1>1. op[o].data \in Data /\ content[op[o].data] \in Data \cup Unparsable
    BY DEF AuthInv, CallsFit, CallFits, Inside, TypeOK
  <1>. QED
    BY <1>1, Values DEF Parsed

LEMMA ReadReturnsKeeps ==
  ASSUME AuthInv, NEW o \in Ops, ReadReturns(o)
  PROVE  AuthInv'
  <1>1. op[o].pc = "reading" /\ Holds(o) /\ Return(o, Parsed(o))
    BY DEF ReadReturns, AuthInv, LocksFit, Inside
  <1>. QED
    BY <1>1, ParsedFacts, ReturnKeeps

\* A call that ends; f names e afterwards and f.tmp nothing, or both stay.
LEMMA EndKeeps ==
  ASSUME AuthInv, NEW o \in Ops, Holds(o), NEW r, Leaves(o, r), r.pc \in Settled,
         op' = [op EXCEPT ![o] = r], NEW f, f = op[o].file, NEW e \in Data \cup {None},
         disk' = [disk EXCEPT ![f] = e],
         \/ tmp' = [tmp EXCEPT ![f] = None] /\ e = tmp[f]
         \/ tmp' = tmp /\ e = None,
         UNCHANGED <<fileLocks, issued, forgotten, crashes, content, session, errors>>,
         f \notin forgotten /\ e # None => content[e] \notin Unparsable,
         e # None \/ f # Creds, r.kind = "load" => r.pc # "done"
  PROVE  AuthInv'
  <1>1. /\ op' \in [Ops -> CallRecord] /\ op'[o] = r
        /\ \A p \in Ops : p # o => op'[p] = op[p]
        /\ \A p \in Ops : Opened(p) => Opened(p)'
        /\ CallsFit' /\ MapFits' /\ LocksFit'
    BY Frame
  <1>2. f \in Files /\ r.file = f /\ r.kind = op[o].kind /\ r.existed = op[o].existed
    BY DEF Holds, Settled, AuthInv, CallsFit, CallFits, Leaves
  <1>3. /\ disk'[f] = e /\ (tmp'[f] = None \/ (tmp'[f] = tmp[f] /\ e = None))
        /\ \A g \in Files : g # f => disk'[g] = disk[g] /\ tmp'[g] = tmp[g]
        /\ e # None => tmp[f] = e /\ tmp'[f] = None
    BY <1>2 DEF AuthInv, TypeOK
  <1>4. TypeOK'
    BY <1>1, <1>2 DEF AuthInv, TypeOK
  <1>5. ASSUME NEW p \in Ops, Inside(p)'
        PROVE  p # o /\ Inside(p) /\ op'[p] = op[p]
    BY <1>1, <1>5 DEF Inside, Settled
  <1>6. NamesFit'
    <2>0. /\ \A g, h \in Files : disk[g] # None /\ disk[g] = disk[h] => g = h
          /\ \A g, h \in Files : tmp[g] # None /\ tmp[g] = tmp[h] => g = h
          /\ \A g, h \in Files : disk[g] # None => disk[g] # tmp[h]
          /\ \A g \in Files, c \in Ops : disk[g] = c \/ tmp[g] = c => Opened(c)
          /\ \A p, c \in Ops : Inside(p) /\ op[p].data = c => Opened(c)
          /\ \A p \in Ops, g \in Files :
                 Inside(p) /\ (disk[g] = op[p].data \/ tmp[g] = op[p].data) => g = op[p].file
      BY DEF AuthInv, NamesFit
    <2>1. \A g, h \in Files : disk'[g] # None /\ disk'[g] = disk'[h] => g = h
      BY <1>2, <1>3, <2>0
    <2>2. \A g, h \in Files : tmp'[g] # None /\ tmp'[g] = tmp'[h] => g = h
      BY <1>2, <1>3, <2>0
    <2>3. \A g, h \in Files : disk'[g] # None => disk'[g] # tmp'[h]
      BY <1>2, <1>3, <2>0
    <2>4. \A g \in Files, c \in Ops : disk'[g] = c \/ tmp'[g] = c => Opened(c)'
      BY <1>1, <1>2, <1>3, <2>0, Values
    <2>5. \A p, c \in Ops : Inside(p)' /\ op'[p].data = c => Opened(c)'
      BY <1>1, <1>5, <2>0
    <2>6. ASSUME NEW p \in Ops, NEW g \in Files, Inside(p)',
                 disk'[g] = op'[p].data \/ tmp'[g] = op'[p].data
          PROVE  g = op'[p].file
      <3>1. op[p].data \in Data /\ op[p].data # None
        BY <1>5, <2>6, Values DEF AuthInv, CallsFit, CallFits
      <3>. QED
        BY <1>2, <1>3, <1>5, <2>0, <2>6, <3>1
    <2>. QED
      BY <2>1, <2>2, <2>3, <2>4, <2>5, <2>6 DEF NamesFit
  <1>7. FilesFit'
    <2>. SUFFICES ASSUME NEW g \in Files, g \notin forgotten PROVE FileFits(g)'
      BY DEF FilesFit
    <2>0. FileFits(g)
      BY DEF AuthInv, FilesFit
    <2>1. CASE g # f
      <3>1. \A c \in Data : c # None => content'[c] = content[c]
        OBVIOUS
      <3>. QED
        BY <1>1, <1>2, <1>3, <2>0, <2>1, <3>1, OtherFile
    <2>2. CASE g = f
      <3>1. disk'[g] # None => content'[disk'[g]] \notin Unparsable
        BY <1>3, <2>2
      <3>2. \A p \in Ops : op'[p].file = g => ~Inside(p)'
        <4>1. ASSUME NEW p \in Ops, op'[p].file = g, Inside(p)' PROVE FALSE
          <5>1. p # o /\ Inside(p) /\ op[p].file = op[o].file
            BY <1>5, <2>2, <4>1
          <5>. QED
            BY <2>2, <5>1, Sole DEF Inside, Active, Settled
        <4>. QED
          BY <4>1
      <3>. QED
        BY <3>1, <3>2 DEF FileFits, Inside
    <2>. QED
      BY <2>1, <2>2
  <1>8. LoadsFit'
    <2>. SUFFICES ASSUME NEW p \in Ops PROVE LoadFits(p)'
      BY DEF LoadsFit
    <2>1. LoadFits(p)
      BY DEF AuthInv, LoadsFit
    <2>2. disk[Creds] # None => disk'[Creds] # None
      BY <1>3 DEF Files
    <2>3. CASE p = o
      BY <1>1, <1>2, <2>1, <2>2, <2>3 DEF LoadFits
    <2>4. CASE p # o
      BY <1>1, <2>1, <2>2, <2>4 DEF LoadFits
    <2>. QED
      BY <2>3, <2>4
  <1>. QED
    BY <1>1, <1>4, <1>6, <1>7, <1>8 DEF AuthInv

LEMMA RenameKeeps ==
  ASSUME AuthInv, NEW o \in Ops, Rename(o)
  PROVE  AuthInv'
  <1>. DEFINE f == op[o].file
              pc == IF tmp[f] = None THEN "failed" ELSE "done"
              r == [op[o] EXCEPT !.pc = pc, !.lock = None, !.data = None]
  <1>1. /\ op[o].pc = "renaming" /\ Holds(o) /\ op[o] \in CallRecord
        /\ op \in [Ops -> CallRecord] /\ f \in Files /\ op[o].kind = "write"
        /\ Inside(o) /\ op[o].data \in Data /\ tmp[f] \in Data \cup {None}
    BY DEF Rename, AuthInv, TypeOK, Inside, LocksFit, CallsFit, CallFits
  <1>2. Leaves(o, r) /\ r.pc = pc /\ r.pc \in Settled /\ r.kind = "write"
    BY <1>1 DEF Leaves, CallRecord, PcVals, Settled
  <1>3. op' = [op EXCEPT ![o] = r]
    BY <1>1 DEF Rename, Step, Settled, CallRecord
  <1>4. UNCHANGED <<fileLocks, issued, forgotten, crashes, content, session, errors>>
    BY DEF Rename, UnchangedByStep
  <1>5. CASE tmp[f] = None
    <2>1. UNCHANGED <<disk, tmp>>
      BY <1>5 DEF Rename
    <2>2. session' \in BOOLEAN /\ errors' \in Nat /\ crashes' \in Nat
      BY <1>4 DEF AuthInv, TypeOK
    <2>3. r.pc \in Settled /\ r.kind # "load"
      BY <1>2
    <2>. HIDE DEF r
    <2>. QED
      BY <1>1, <1>2, <1>3, <1>4, <2>1, <2>2, <2>3, FilesStay DEF files
  <1>6. CASE tmp[f] # None
    <2>1. disk' = [disk EXCEPT ![f] = tmp[f]] /\ tmp' = [tmp EXCEPT ![f] = None]
      BY <1>6 DEF Rename
    <2>2. f \notin forgotten => content[tmp[f]] \notin Unparsable
      BY <1>1, Values DEF AuthInv, FilesFit, FileFits
    <2>3. r.kind # "load" /\ r.pc \in Settled
      BY <1>2
    <2>. HIDE DEF r
    <2>. QED
      BY <1>1, <1>2, <1>3, <1>4, <1>6, <2>1, <2>2, <2>3, EndKeeps
  <1>. QED
    BY <1>5, <1>6

LEMMA UnlinkKeeps ==
  ASSUME AuthInv, NEW o \in Ops, Unlink(o)
  PROVE  AuthInv'
  <1>. DEFINE f == op[o].file
              r == [op[o] EXCEPT !.pc = "done", !.lock = None, !.data = None]
  <1>1. /\ Holds(o) /\ op[o] \in CallRecord /\ op \in [Ops -> CallRecord]
        /\ op[o].kind = "remove" /\ f \in Keys
    BY DEF Unlink, Starts, AuthInv, TypeOK, CallsFit, CallFits
  <1>2. Leaves(o, r) /\ r.pc \in Settled /\ r.kind = "remove"
    BY <1>1 DEF Leaves, CallRecord, PcVals, Settled
  <1>3. op' = [op EXCEPT ![o] = r]
    BY <1>1 DEF Unlink, Step, Settled, CallRecord
  <1>4. /\ UNCHANGED <<fileLocks, issued, forgotten, crashes, content, session, errors, tmp>>
        /\ disk' = [disk EXCEPT ![f] = None]
    BY DEF Unlink, UnchangedByStep
  <1>5. f # Creds
    BY <1>1, AtomicAuthAssumption
  <1>. HIDE DEF r
  <1>. QED
    BY <1>1, <1>2, <1>3, <1>4, <1>5, EndKeeps

LEMMA CrashKeeps ==
  ASSUME AuthInv, Crash
  PROVE  AuthInv'
  <1>1. /\ fileLocks' = <<>> /\ session' = FALSE /\ crashes' = crashes + 1
        /\ UNCHANGED <<issued, disk, tmp, content, forgotten, errors>>
    BY DEF Crash, files
  <1>2. ASSUME NEW o \in Ops
        PROVE  /\ op[o] \in CallRecord
               /\ op'[o] = IF op[o].pc \in Settled THEN op[o]
                           ELSE [op[o] EXCEPT !.pc = "dead", !.lock = None, !.data = None]
    BY DEF Crash, AuthInv, TypeOK
  <1>3. ASSUME NEW o \in Ops
        PROVE  /\ op'[o] \in CallRecord /\ op'[o].pc \in Settled
               /\ op'[o].kind = op[o].kind /\ op'[o].file = op[o].file
               /\ op'[o].existed = op[o].existed /\ op'[o].result = op[o].result
               /\ op'[o].pc = "unmade" <=> op[o].pc = "unmade"
               /\ op'[o].pc = "unmade" => op'[o] = op[o]
               /\ op'[o].pc = "done" => op[o].pc = "done"
               /\ Opened(o) => Opened(o)'
    <2>1. CASE op[o].pc \in Settled
      BY <1>2, <2>1 DEF Opened
    <2>2. CASE op[o].pc \notin Settled
      <3>1. op'[o] = [op[o] EXCEPT !.pc = "dead", !.lock = None, !.data = None]
        BY <1>2, <2>2
      <3>2. /\ op'[o] \in CallRecord /\ op'[o].pc = "dead"
            /\ op'[o].kind = op[o].kind /\ op'[o].file = op[o].file
            /\ op'[o].existed = op[o].existed /\ op'[o].result = op[o].result
        BY <1>2, <3>1 DEF CallRecord, PcVals, Settled
      <3>. QED
        BY <2>2, <3>2 DEF Opened, Settled
    <2>. QED
      BY <2>1, <2>2
  <1>4. TypeOK'
    <2>1. op' = [o \in Ops |-> op'[o]]
      BY DEF Crash
    <2>2. op' \in [Ops -> CallRecord]
      BY <1>3, <2>1
    <2>3. fileLocks' \in Seq(Entry)
      <3>1. << >> \in Seq(Entry)
        BY EmptySeq
      <3>. QED
        BY <1>1, <3>1
    <2>4. crashes' \in Nat
      BY <1>1 DEF AuthInv, TypeOK
    <2>. QED
      BY <1>1, <2>2, <2>3, <2>4 DEF AuthInv, TypeOK
  <1>5. CallsFit'
    BY <1>1, <1>3 DEF AuthInv, CallsFit, CallFits, Active, Inside, Settled
  <1>6. MapFits' /\ LocksFit'
    BY <1>1, <1>3 DEF MapFits, LocksFit, Active, Inside, Settled
  <1>7. NamesFit'
    BY <1>1, <1>3 DEF AuthInv, NamesFit, Inside, Settled
  <1>8. FilesFit'
    BY <1>1, <1>3 DEF AuthInv, FilesFit, FileFits, Settled
  <1>9. LoadsFit'
    BY <1>1, <1>3 DEF AuthInv, LoadsFit, LoadFits
  <1>. QED
    BY <1>4, <1>5, <1>6, <1>7, <1>8, <1>9 DEF AuthInv

-----------------------------------------------------------------------------
(* The theorems *)

LEMMA InitKeeps == Init => AuthInv
  <1>. SUFFICES ASSUME Init PROVE AuthInv
    OBVIOUS
  <1>1. \A o \in Ops : op[o] = Unmade
    BY DEF Init
  <1>2. /\ Unmade.pc = "unmade" /\ Unmade.kind = "none" /\ Unmade \in CallRecord
        /\ Unmade.file = None
    BY Values DEF Unmade, CallRecord, PcVals, Settled
  <1>3. 0 \in Data /\ 0 \notin Ops
    BY AtomicAuthAssumption DEF Data, Ops
  <1>4. TypeOK
    <2>1. op \in [Ops -> CallRecord]
      BY <1>2 DEF Init
    <2>2. disk \in [Files -> Data \cup {None}]
      BY <1>3 DEF Init
    <2>3. fileLocks \in Seq(Entry) /\ issued \in 0 .. MaxOps
      BY AtomicAuthAssumption DEF Init
    <2>. QED
      BY <2>1, <2>2, <2>3 DEF Init, TypeOK
  <1>5. CallsFit
    BY <1>1, <1>2 DEF CallsFit, CallFits, Active, Inside, Settled, Init, Ops
  <1>6. MapFits /\ LocksFit
    BY <1>1, <1>2 DEF Init, MapFits, LocksFit, Active, Inside, Settled
  <1>7. \A f \in Files : (disk[f] = None \/ (disk[f] = 0 /\ f = Creds)) /\ tmp[f] = None
    BY DEF Init
  <1>8. NamesFit
    BY <1>1, <1>2, <1>3, <1>7, Values DEF NamesFit, Inside
  <1>9. FilesFit
    <2>1. content[0] = 0
      BY <1>3 DEF Init
    <2>. QED
      BY <1>1, <1>2, <1>3, <1>7, <2>1, Values DEF FilesFit, FileFits
  <1>10. LoadsFit
    BY <1>1, <1>2 DEF LoadsFit, LoadFits
  <1>. QED
    BY <1>4, <1>5, <1>6, <1>8, <1>9, <1>10 DEF AuthInv

\* What the calls of the interface are asked for.
LEMMA Making ==
  ASSUME Load \/ SaveCreds \/ \E f \in Keys : KeysGet(f) \/ KeysSet(f)
  PROVE  \E kind, f : Asked(kind, f) /\ Make(kind, f)
  <1>1. Creds \in Files /\ Keys \subseteq Files
    BY DEF Files
  <1>2. CASE Load
    <2>1. Asked("load", Creds)
      BY <1>1 DEF Asked, Kinds
    <2>. QED
      BY <1>2, <2>1 DEF Load
  <1>3. CASE SaveCreds
    <2>1. Asked("write", Creds)
      BY <1>1 DEF Asked, Kinds
    <2>. QED
      BY <1>3, <2>1 DEF SaveCreds
  <1>4. ASSUME NEW f \in Keys, KeysGet(f) \/ KeysSet(f)
        PROVE  \E kind, g : Asked(kind, g) /\ Make(kind, g)
    <2>1. Asked("read", f) /\ Asked("write", f) /\ Asked("remove", f)
      BY <1>1 DEF Asked, Kinds
    <2>. QED
      BY <1>4, <2>1 DEF KeysGet, KeysSet
  <1>. QED
    BY <1>2, <1>3, <1>4

LEMMA StepKeeps == AuthInv /\ [Next]_vars => AuthInv'
  <1>. SUFFICES ASSUME AuthInv, [Next]_vars PROVE AuthInv'
    OBVIOUS
  <1>1. CASE Load \/ SaveCreds \/ \E f \in Keys : KeysGet(f) \/ KeysSet(f)
    BY <1>1, Making, MakeKeeps
  <1>2. ASSUME NEW o \in Ops, Under(o) \/ WriteFails(o)
        PROVE  AuthInv'
    BY <1>2, OpenKeeps, WrittenKeeps, RenameKeeps, OpenForReadKeeps, ReadNothingKeeps,
       ReadReturnsKeeps, UnlinkKeeps, WriteFailsKeeps DEF Under
  <1>3. CASE Crash
    BY <1>3, CrashKeeps
  <1>4. CASE UNCHANGED vars
    BY <1>4 DEF vars, files, budgets, AuthInv, TypeOK, CallsFit, CallFits, MapFits, LocksFit,
       InMap, NamesFit, FilesFit, FileFits, LoadsFit, LoadFits, Active, Inside, Opened, Holds
  <1>. QED
    BY <1>1, <1>2, <1>3, <1>4 DEF Next

LEMMA AuthInvariant == Spec => []AuthInv
  BY InitKeeps, StepKeeps, PTL DEF Spec

\* The Map, the calls and what the names stand for keep their types, for any number
\* of calls, evictions, failed writes and deaths (atomic-auth.js:28-107).
THEOREM TypeCorrect == Spec => []TypeOK
  <1>1. AuthInv => TypeOK
    BY DEF AuthInv
  <1>. QED
    BY <1>1, AuthInvariant, PTL

\* What a session file names can be parsed at every moment, in every
\* interleaving of calls, failed writes and deaths, unless the Map has
\* forgotten its mutex in use ("A process kill mid-write can never leave a
\* torn JSON file behind", atomic-auth.js:5-7).
THEOREM FilesAreWhole == Spec => []NeverTorn
  <1>1. AuthInv => NeverTorn
    BY DEF AuthInv, FilesFit, FileFits, NeverTorn
  <1>. QED
    BY <1>1, AuthInvariant, PTL

\* A connect made when creds.json existed never takes it for missing, so the
\* session is not replaced by fresh credentials, whatever was evicted.
THEOREM SessionIsKept == Spec => []NoSilentReset
  <1>1. AuthInv => NoSilentReset
    BY DEF AuthInv, LoadsFit, LoadFits, NoSilentReset
  <1>. QED
    BY <1>1, AuthInvariant, PTL

-----------------------------------------------------------------------------
(* Each file is an atomic register *)

\* What the mapping reads off the calls and the files.
Stored == [f \in Files |-> IF disk[f] = None THEN None ELSE content[disk[f]]]
Phases == [o \in Ops |-> Phase(o)]
Targets == [o \in Ops |-> [kind |-> Kind(o), file |-> op[o].file]]
Results == [o \in Ops |-> op[o].result]
Abstract == <<Stored, Phases, Targets, Results, forgotten>>

\* What a step of one call leaves of the others.
LEMMA AbstractFrame ==
  ASSUME AuthInv, NEW o \in Ops, Holds(o), NEW r, Leaves(o, r),
         op' = [op EXCEPT ![o] = r], UNCHANGED <<fileLocks, issued, forgotten>>
  PROVE  /\ Phases[o] = "pending"
         /\ Phases' = [Phases EXCEPT ![o] = IF r.pc \in Settled THEN r.pc ELSE "pending"]
         /\ Targets' = Targets
         /\ Results' = [Results EXCEPT ![o] = r.result]
         /\ Results[o] = None
  <1>1. /\ op'[o] = r /\ \A p \in Ops : p # o => op'[p] = op[p]
    BY Frame
  <1>2. /\ r.kind = op[o].kind /\ r.file = op[o].file /\ op[o].pc \notin Settled
        /\ op[o].result = None
    BY DEF Leaves, Holds, AuthInv, CallsFit, CallFits, Active
  <1>3. \A p \in Ops : Kind(p)' = Kind(p) /\ op'[p].file = op[p].file
    BY <1>1, <1>2 DEF Kind
  <1>4. \A p \in Ops : Phase(p)' = IF p # o THEN Phase(p)
                                   ELSE IF r.pc \in Settled THEN r.pc ELSE "pending"
    BY <1>1 DEF Phase
  <1>5. Targets' = Targets
    BY <1>3 DEF Targets
  <1>6. Phases' = [Phases EXCEPT ![o] = IF r.pc \in Settled THEN r.pc ELSE "pending"]
    BY <1>4 DEF Phases
  <1>7. Results' = [Results EXCEPT ![o] = r.result]
    <2>1. \A p \in Ops : op'[p].result = IF p # o THEN op[p].result ELSE r.result
      BY <1>1
    <2>. QED
      BY <2>1 DEF Results
  <1>8. Phases[o] = "pending" /\ Results[o] = None
    BY <1>2 DEF Phases, Phase, Results
  <1>. QED
    BY <1>5, <1>6, <1>7, <1>8

\* A step in the middle of a call.
LEMMA GoesOn ==
  ASSUME AuthInv, NEW o \in Ops, Holds(o), NEW r, Leaves(o, r), r.pc \notin Settled,
         op' = [op EXCEPT ![o] = r], UNCHANGED <<fileLocks, issued, forgotten>>
  PROVE  UNCHANGED <<Phases, Targets, Results>>
  <1>1. r.result = None
    BY DEF Leaves
  <1>2. /\ Phases[o] = "pending" /\ Phases' = [Phases EXCEPT ![o] = "pending"]
        /\ Targets' = Targets /\ Results' = [Results EXCEPT ![o] = None] /\ Results[o] = None
    BY <1>1, AbstractFrame
  <1>3. Phases' = Phases
    BY <1>2 DEF Phases
  <1>4. Results' = Results
    BY <1>2 DEF Results
  <1>. QED
    BY <1>2, <1>3, <1>4

\* The last step of a call that returns nothing.
LEMMA Ends ==
  ASSUME AuthInv, NEW o \in Ops, Holds(o), NEW r, Leaves(o, r), r.pc \in Settled,
         r.result = None, NEW pc, r.pc = pc,
         op' = [op EXCEPT ![o] = r], UNCHANGED <<fileLocks, issued, forgotten>>
  PROVE  Phases' = [Phases EXCEPT ![o] = pc] /\ UNCHANGED <<Targets, Results>>
  <1>1. /\ Phases' = [Phases EXCEPT ![o] = pc]
        /\ Targets' = Targets /\ Results' = [Results EXCEPT ![o] = None] /\ Results[o] = None
    BY AbstractFrame
  <1>2. Results' = Results
    BY <1>1 DEF Results
  <1>. QED
    BY <1>1, <1>2

\* The call that holds the mutex of a file not forgotten is the next one.
LEMMA NextIsHolder ==
  ASSUME AuthInv, NEW o \in Ops, Holds(o), op[o].file \notin forgotten
  PROVE  Registers!IsNext(o)
  <1>1. \A p \in Ops : Phase(p) = "pending" <=> Active(p)
    BY DEF Phase, Active, Settled
  <1>2. Active(o) /\ \A p \in Ops : Active(p) /\ op[p].file = op[o].file => o <= p
    BY Sole DEF Holds, Active
  <1>. QED
    BY <1>1, <1>2 DEF Registers!IsNext, Registers!Pending, Registers!File

\* A step on a forgotten file.
LEMMA UnsoundStep ==
  ASSUME AuthInv, NEW o \in Ops, Holds(o), NEW r, Leaves(o, r),
         op' = [op EXCEPT ![o] = r], UNCHANGED <<fileLocks, issued, forgotten>>,
         NEW f, f = op[o].file, f \in forgotten,
         \A g \in Files : g # f => Stored'[g] = Stored[g]
  PROVE  Registers!Unsound(f)
  <1>1. /\ Targets' = Targets /\ forgotten' = forgotten
        /\ \A p \in Ops : Targets[p].file # f => Phases'[p] = Phases[p] /\ Results'[p] = Results[p]
    <2>1. \A p \in Ops : Targets[p].file = op[p].file
      BY DEF Targets
    <2>2. \A p \in Ops : p # o => Phases'[p] = Phases[p] /\ Results'[p] = Results[p]
      <3>1. \A p \in Ops : p # o => op'[p] = op[p]
        BY Frame
      <3>. QED
        BY <3>1 DEF Phases, Phase, Results
    <2>3. Targets' = Targets
      BY AbstractFrame
    <2>. QED
      BY <2>1, <2>2, <2>3
  <1>. QED
    BY <1>1 DEF Registers!Unsound, Targets, Phases, Results, Stored

\* Files that keep their name keep their value when only the datum d changes.
LEMMA SameStored ==
  ASSUME TypeOK, NEW d, \A e \in Data : e # d => content'[e] = content[e],
         NEW g \in Files, disk'[g] = disk[g], disk[g] # None => disk[g] # d
  PROVE  Stored'[g] = Stored[g]
  BY DEF Stored, TypeOK

LEMMA OpenMaps ==
  ASSUME AuthInv, NEW o \in Ops, Open(o)
  PROVE  UNCHANGED Abstract
  <1>. DEFINE f == op[o].file
              d == IF tmp[f] = None THEN o ELSE tmp[f]
              r == [op[o] EXCEPT !.pc = "writing", !.data = d]
  <1>1. /\ Holds(o) /\ op[o].pc = "waiting" /\ op[o].kind = "write" /\ CallFits(o)
        /\ op[o] \in CallRecord /\ f \in Files /\ tmp[f] \in Data \cup {None}
    BY DEF Open, Starts, AuthInv, TypeOK, CallsFit, CallFits, Settled
  <1>2. d \in Data /\ ~Opened(o)
    BY <1>1, Values DEF Opened
  <1>3. Leaves(o, r) /\ r.pc = "writing" /\ r.result = None
    BY <1>1, <1>2 DEF Leaves, CallRecord, PcVals, Settled, CallFits, Active
  <1>4. /\ op' = [op EXCEPT ![o] = r] /\ content' = [content EXCEPT ![d] = Partial]
        /\ UNCHANGED <<fileLocks, issued, forgotten, disk>>
    BY <1>1 DEF Open, UnchangedByStep, CallRecord, AuthInv, TypeOK
  <1>5. \A g \in Files : disk[g] # d
    BY <1>1, <1>2, Values DEF AuthInv, NamesFit
  <1>. HIDE DEF r, d
  <1>6. \A g \in Files : Stored'[g] = Stored[g]
    <2>1. \A e \in Data : e # d => content'[e] = content[e]
      BY <1>4 DEF AuthInv, TypeOK
    <2>. QED
      BY <1>4, <1>5, <2>1, SameStored DEF AuthInv
  <1>7. Stored' = Stored
    BY <1>6 DEF Stored
  <1>8. r.pc \notin Settled
    BY <1>3 DEF Settled
  <1>9. UNCHANGED <<Phases, Targets, Results>>
    BY <1>1, <1>3, <1>4, <1>8, GoesOn
  <1>. QED
    BY <1>4, <1>7, <1>9 DEF Abstract

LEMMA WrittenMaps ==
  ASSUME AuthInv, NEW o \in Ops, Written(o)
  PROVE  UNCHANGED Abstract \/ \E f \in Files : Registers!Unsound(f)
  <1>. DEFINE f == op[o].file
              d == op[o].data
              r == [op[o] EXCEPT !.pc = "renaming"]
  <1>1. /\ op[o].pc = "writing" /\ CallFits(o) /\ Inside(o) /\ Holds(o)
        /\ op[o] \in CallRecord /\ f \in Files /\ d \in Data /\ op[o].kind = "write"
        /\ op[o].result = None
    BY DEF Written, AuthInv, TypeOK, CallsFit, CallFits, Inside, LocksFit, Active, Settled
  <1>2. Leaves(o, r) /\ r.pc = "renaming" /\ r.result = None
    BY <1>1 DEF Leaves, CallRecord, PcVals, Settled, CallFits, Active
  <1>3. op' = [op EXCEPT ![o] = r]
    BY <1>1 DEF Written, Step, Settled, CallRecord, AuthInv, TypeOK
  <1>4. /\ UNCHANGED <<fileLocks, issued, forgotten, disk>>
        /\ \A e \in Data : e # d => content'[e] = content[e]
    BY <1>1 DEF Written, UnchangedByStep, AuthInv, TypeOK
  <1>. HIDE DEF r
  <1>5. \A g \in Files : g # f => Stored'[g] = Stored[g]
    <2>1. \A g \in Files : g # f => disk[g] # d
      BY <1>1 DEF AuthInv, NamesFit
    <2>. QED
      BY <1>4, <2>1, SameStored DEF AuthInv
  <1>6. CASE f \in forgotten
    BY <1>1, <1>2, <1>3, <1>4, <1>5, <1>6, UnsoundStep
  <1>7. CASE f \notin forgotten
    <2>1. tmp[f] = d
      BY <1>1, <1>7 DEF AuthInv, FilesFit, FileFits
    <2>2. disk[f] # None => disk[f] # d
      BY <1>1, <2>1 DEF AuthInv, NamesFit
    <2>3. Stored'[f] = Stored[f]
      BY <1>1, <1>4, <2>2, SameStored DEF AuthInv
    <2>4. Stored' = Stored
      BY <1>5, <2>3 DEF Stored
    <2>5. r.pc \notin Settled
      BY <1>2 DEF Settled
    <2>6. UNCHANGED <<Phases, Targets, Results>>
      BY <1>1, <1>2, <1>3, <1>4, <2>5, GoesOn
    <2>. QED
      BY <1>4, <2>4, <2>6 DEF Abstract
  <1>. QED
    BY <1>6, <1>7

LEMMA OpenForReadMaps ==
  ASSUME AuthInv, NEW o \in Ops, OpenForRead(o)
  PROVE  UNCHANGED Abstract
  <1>. DEFINE f == op[o].file
              r == [op[o] EXCEPT !.pc = "reading", !.data = disk[f]]
  <1>1. /\ op[o].pc = "waiting" /\ op[o].kind \in {"read", "load"} /\ Holds(o)
        /\ op[o] \in CallRecord /\ op \in [Ops -> CallRecord] /\ CallFits(o)
        /\ f \in Files /\ disk[f] # None /\ disk[f] \in Data
    BY DEF OpenForRead, Starts, AuthInv, TypeOK, CallsFit, CallFits, Settled
  <1>2. Leaves(o, r) /\ r.pc \notin Settled
    BY <1>1 DEF Leaves, CallRecord, PcVals, Settled, CallFits, Active
  <1>3. op' = [op EXCEPT ![o] = r]
    BY <1>1 DEF OpenForRead, CallRecord
  <1>4. UNCHANGED <<fileLocks, issued, forgotten, disk, content>>
    BY DEF OpenForRead, UnchangedByStep, files
  <1>. HIDE DEF r
  <1>5. UNCHANGED <<Phases, Targets, Results>>
    BY <1>1, <1>2, <1>3, <1>4, GoesOn
  <1>6. Stored' = Stored
    BY <1>4 DEF Stored
  <1>. QED
    BY <1>4, <1>5, <1>6 DEF Abstract

LEMMA WriteFailsMaps ==
  ASSUME AuthInv, NEW o \in Ops, WriteFails(o)
  PROVE  Registers!Fail(o) \/ \E f \in Files : Registers!Unsound(f)
  <1>. DEFINE f == op[o].file
              r == [op[o] EXCEPT !.pc = "failed", !.lock = None, !.data = None]
  <1>1. /\ op[o].pc = "writing" /\ Holds(o) /\ op[o] \in CallRecord /\ op \in [Ops -> CallRecord]
        /\ op[o].kind = "write" /\ f \in Files /\ op[o].result = None
    BY DEF WriteFails, AuthInv, TypeOK, Inside, LocksFit, CallsFit, CallFits, Active, Settled
  <1>2. Leaves(o, r) /\ r.pc = "failed" /\ r.pc \in Settled /\ r.result = None
    BY <1>1 DEF Leaves, CallRecord, PcVals, Settled
  <1>3. op' = [op EXCEPT ![o] = r]
    BY <1>1 DEF WriteFails, Step, Settled, CallRecord
  <1>4. UNCHANGED <<fileLocks, issued, forgotten, disk, content>>
    BY DEF WriteFails, UnchangedByStep, files
  <1>. HIDE DEF r
  <1>5. Stored' = Stored
    BY <1>4 DEF Stored
  <1>6. CASE f \in forgotten
    BY <1>1, <1>2, <1>3, <1>4, <1>5, <1>6, UnsoundStep
  <1>7. CASE f \notin forgotten
    <2>1. Registers!IsNext(o)
      BY <1>1, <1>7, NextIsHolder
    <2>2. Phases' = [Phases EXCEPT ![o] = "failed"] /\ UNCHANGED <<Targets, Results>>
      BY <1>1, <1>2, <1>3, <1>4, Ends
    <2>3. Targets[o].kind = "write"
      BY <1>1 DEF Targets, Kind
    <2>. QED
      BY <1>4, <1>5, <2>1, <2>2, <2>3
         DEF Registers!Fail, Registers!Settle, Stored, Phases, Targets, Results
  <1>. QED
    BY <1>6, <1>7

LEMMA RenameMaps ==
  ASSUME AuthInv, NEW o \in Ops, Rename(o)
  PROVE  Registers!Write(o) \/ \E f \in Files : Registers!Unsound(f)
  <1>. DEFINE f == op[o].file
              pc == IF tmp[f] = None THEN "failed" ELSE "done"
              r == [op[o] EXCEPT !.pc = pc, !.lock = None, !.data = None]
  <1>1. /\ op[o].pc = "renaming" /\ Holds(o) /\ op[o] \in CallRecord
        /\ op \in [Ops -> CallRecord] /\ f \in Files /\ op[o].kind = "write"
        /\ op[o].data \in Data /\ op[o].result = None
    BY DEF Rename, AuthInv, TypeOK, Inside, LocksFit, CallsFit, CallFits, Active, Settled
  <1>2. Leaves(o, r) /\ r.pc = pc /\ r.pc \in Settled /\ r.result = None
    BY <1>1 DEF Leaves, CallRecord, PcVals, Settled
  <1>3. op' = [op EXCEPT ![o] = r]
    BY <1>1 DEF Rename, Step, Settled, CallRecord
  <1>4. UNCHANGED <<fileLocks, issued, forgotten, content>>
    BY DEF Rename, UnchangedByStep
  <1>5. /\ \A g \in Files : g # f => disk'[g] = disk[g]
        /\ tmp[f] # None => disk' = [disk EXCEPT ![f] = tmp[f]]
    BY DEF Rename, AuthInv, TypeOK
  <1>. HIDE DEF r
  <1>6. \A g \in Files : g # f => Stored'[g] = Stored[g]
    BY <1>4, <1>5 DEF Stored
  <1>7. CASE f \in forgotten
    BY <1>1, <1>2, <1>3, <1>4, <1>6, <1>7, UnsoundStep
  <1>8. CASE f \notin forgotten
    <2>1. Registers!IsNext(o)
      BY <1>1, <1>8, NextIsHolder
    <2>2. tmp[f] = op[o].data /\ content[op[o].data] = o /\ tmp[f] # None
      BY <1>1, <1>8, Values DEF AuthInv, FilesFit, FileFits
    <2>3. disk'[f] = tmp[f]
      BY <1>1, <1>5, <2>2 DEF AuthInv, TypeOK
    <2>4. Stored'[f] = o
      BY <1>1, <1>4, <2>2, <2>3 DEF Stored
    <2>5. Stored' = [Stored EXCEPT ![f] = o]
      BY <1>6, <2>4 DEF Stored
    <2>6. Phases' = [Phases EXCEPT ![o] = "done"] /\ UNCHANGED <<Targets, Results>>
      <3>1. r.pc = "done"
        BY <1>2, <2>2
      <3>. QED
        BY <1>1, <1>2, <1>3, <1>4, <3>1, Ends
    <2>7. Targets[o].kind = "write" /\ Targets[o].file = f
      BY <1>1 DEF Targets, Kind
    <2>. QED
      BY <1>4, <2>1, <2>5, <2>6, <2>7
         DEF Registers!Write, Registers!Settle, Registers!File, Stored, Phases, Targets, Results
  <1>. QED
    BY <1>7, <1>8

LEMMA UnlinkMaps ==
  ASSUME AuthInv, NEW o \in Ops, Unlink(o)
  PROVE  Registers!Remove(o) \/ \E f \in Files : Registers!Unsound(f)
  <1>. DEFINE f == op[o].file
              r == [op[o] EXCEPT !.pc = "done", !.lock = None, !.data = None]
  <1>1. /\ op[o].pc = "waiting" /\ Holds(o) /\ op[o] \in CallRecord
        /\ op \in [Ops -> CallRecord] /\ f \in Files /\ op[o].kind = "remove"
        /\ op[o].result = None
    BY DEF Unlink, Starts, AuthInv, TypeOK, CallsFit, CallFits, Active, Settled
  <1>2. Leaves(o, r) /\ r.pc = "done" /\ r.pc \in Settled /\ r.result = None
    BY <1>1 DEF Leaves, CallRecord, PcVals, Settled
  <1>3. op' = [op EXCEPT ![o] = r]
    BY <1>1 DEF Unlink, Step, Settled, CallRecord
  <1>4. /\ UNCHANGED <<fileLocks, issued, forgotten, content>>
        /\ disk' = [disk EXCEPT ![f] = None]
    BY DEF Unlink, UnchangedByStep
  <1>5. disk'[f] = None /\ \A g \in Files : g # f => disk'[g] = disk[g]
    BY <1>1, <1>4 DEF AuthInv, TypeOK
  <1>. HIDE DEF r
  <1>6. \A g \in Files : g # f => Stored'[g] = Stored[g]
    BY <1>4, <1>5 DEF Stored
  <1>7. CASE f \in forgotten
    BY <1>1, <1>2, <1>3, <1>4, <1>6, <1>7, UnsoundStep
  <1>8. CASE f \notin forgotten
    <2>1. Registers!IsNext(o)
      BY <1>1, <1>8, NextIsHolder
    <2>2. Stored'[f] = None
      BY <1>1, <1>5 DEF Stored
    <2>3. Stored' = [Stored EXCEPT ![f] = None]
      BY <1>6, <2>2 DEF Stored
    <2>4. Phases' = [Phases EXCEPT ![o] = "done"] /\ UNCHANGED <<Targets, Results>>
      BY <1>1, <1>2, <1>3, <1>4, Ends
    <2>5. Targets[o].kind = "remove" /\ Targets[o].file = f
      BY <1>1 DEF Targets, Kind
    <2>. QED
      BY <1>4, <2>1, <2>3, <2>4, <2>5
         DEF Registers!Remove, Registers!Settle, Registers!File, Registers!None, None,
             Stored, Phases, Targets, Results
  <1>. QED
    BY <1>7, <1>8

\* A call that returns what its file holds.
LEMMA ReturnMaps ==
  ASSUME AuthInv, NEW o \in Ops, Holds(o), op[o].kind \in {"read", "load"},
         NEW result \in Data \cup {None, Corrupt}, Return(o, result),
         op[o].file \notin forgotten => result = Stored[op[o].file]
  PROVE  Registers!Read(o) \/ \E f \in Files : Registers!Unsound(f)
  <1>. DEFINE f == op[o].file
              r == [op[o] EXCEPT !.pc = "done", !.result = result, !.lock = None, !.data = None]
  <1>1. op[o] \in CallRecord /\ op \in [Ops -> CallRecord] /\ f \in Files
    BY DEF AuthInv, TypeOK, CallsFit, CallFits, Holds, Settled
  <1>2. Leaves(o, r) /\ r.pc = "done" /\ r.pc \in Settled /\ r.result = result
    BY <1>1 DEF Leaves, CallRecord, PcVals, Settled
  <1>3. op' = [op EXCEPT ![o] = r]
    BY <1>1 DEF Return, CallRecord
  <1>4. UNCHANGED <<fileLocks, issued, forgotten, disk, content>>
    BY DEF Return, UnchangedByStep, files
  <1>. HIDE DEF r
  <1>5. Stored' = Stored
    BY <1>4 DEF Stored
  <1>6. CASE f \in forgotten
    BY <1>1, <1>2, <1>3, <1>4, <1>5, <1>6, UnsoundStep
  <1>7. CASE f \notin forgotten
    <2>1. Registers!IsNext(o)
      BY <1>7, NextIsHolder
    <2>2. /\ Phases' = [Phases EXCEPT ![o] = "done"] /\ Targets' = Targets
          /\ Results' = [Results EXCEPT ![o] = result]
      BY <1>2, <1>3, <1>4, AbstractFrame
    <2>3. Results' = [Results EXCEPT ![o] = Stored[f]]
      BY <1>7, <2>2
    <2>4. Targets[o].kind = "read" /\ Targets[o].file = f
      BY DEF Targets, Kind
    <2>. QED
      BY <1>4, <1>5, <2>1, <2>2, <2>3, <2>4
         DEF Registers!Read, Registers!Settle, Registers!File, Stored, Phases, Targets, Results
  <1>. QED
    BY <1>6, <1>7

LEMMA ReadMaps ==
  ASSUME AuthInv, NEW o \in Ops, ReadNothing(o) \/ ReadReturns(o)
  PROVE  Registers!Read(o) \/ \E f \in Files : Registers!Unsound(f)
  <1>1. CASE ReadNothing(o)
    <2>1. /\ Holds(o) /\ op[o].kind \in {"read", "load"} /\ disk[op[o].file] = None
          /\ Return(o, None) /\ op[o].file \in Files
      BY <1>1 DEF ReadNothing, Starts, AuthInv, CallsFit, CallFits
    <2>2. Stored[op[o].file] = None
      BY <2>1 DEF Stored
    <2>. QED
      BY <2>1, <2>2, ReturnMaps
  <1>2. CASE ReadReturns(o)
    <2>1. /\ op[o].pc = "reading" /\ Holds(o) /\ op[o].kind \in {"read", "load"}
          /\ Return(o, Parsed(o)) /\ op[o].file \in Files
      BY <1>2 DEF ReadReturns, AuthInv, LocksFit, Inside, CallsFit, CallFits
    <2>2. ASSUME op[o].file \notin forgotten PROVE Parsed(o) = Stored[op[o].file]
      <3>1. disk[op[o].file] = op[o].data /\ disk[op[o].file] # None
            /\ content[disk[op[o].file]] \notin Unparsable
        BY <2>1, <2>2, ParsedFacts, Values DEF AuthInv, FilesFit, FileFits
      <3>. QED
        BY <2>1, <3>1 DEF Parsed, Stored
    <2>. QED
      BY <2>1, <2>2, ParsedFacts, ReturnMaps
  <1>. QED
    BY <1>1, <1>2

LEMMA MakeMaps ==
  ASSUME AuthInv, NEW kind, NEW f, Asked(kind, f), Make(kind, f),
         NEW o, o = issued + 1
  PROVE  o \in Ops /\ Registers!Call(o)
  <1>. DEFINE r == [Unmade EXCEPT !.kind = kind, !.file = f, !.lock = LockOf(f),
                                  !.pc = "waiting", !.existed = disk[f] # None]
              asked == IF kind = "load" THEN "read" ELSE kind
  <1>0. /\ o \in Ops /\ f \in Files /\ GetFileLock(f) /\ UNCHANGED <<disk, content>>
        /\ op[o].pc = "unmade" /\ op[o] = Unmade /\ op \in [Ops -> CallRecord]
    BY AtomicAuthAssumption DEF AuthInv, TypeOK, Make, Asked, Ops, files, CallsFit, CallFits
  <1>1. op' = [op EXCEPT ![o] = r]
    BY DEF Make
  <1>2. r.kind = kind /\ r.file = f /\ r.pc = "waiting" /\ r.result = None /\ Unmade.result = None
    BY DEF Unmade
  <1>. HIDE DEF r
  <1>3. op'[o] = r /\ \A p \in Ops : p # o => op'[p] = op[p]
    BY <1>0, <1>1
  <1>4. Phases[o] = "unmade" /\ Phases' = [Phases EXCEPT ![o] = "pending"]
    <2>1. \A p \in Ops : Phase(p)' = IF p # o THEN Phase(p) ELSE "pending"
      BY <1>2, <1>3 DEF Phase, Settled
    <2>. QED
      BY <1>0, <2>1 DEF Phases, Phase, Settled
  <1>5. Targets' = [Targets EXCEPT ![o] = [kind |-> asked, file |-> f]]
    <2>1. \A p \in Ops : /\ p # o => Kind(p)' = Kind(p) /\ op'[p].file = op[p].file
                         /\ p = o => Kind(p)' = asked /\ op'[p].file = f
      BY <1>2, <1>3 DEF Kind
    <2>. HIDE DEF asked
    <2>. QED
      BY <1>0, <2>1 DEF Targets
  <1>6. Results' = Results
    <2>1. \A p \in Ops : op'[p].result = op[p].result
      BY <1>0, <1>2, <1>3
    <2>. QED
      BY <2>1 DEF Results
  <1>7. Stored' = Stored
    BY <1>0 DEF Stored
  <1>8. asked \in Registers!Kinds /\ forgotten \subseteq forgotten'
    BY <1>0, Eviction DEF Asked, Kinds, Registers!Kinds
  <1>. HIDE DEF asked
  <1>9. \E k \in Registers!Kinds, g \in Files :
            Targets' = [Targets EXCEPT ![o] = [kind |-> k, file |-> g]]
    BY <1>0, <1>5, <1>8
  <1>10. Registers!Call(o)
    BY <1>4, <1>6, <1>7, <1>8, <1>9 DEF Registers!Call, Stored, Phases, Targets, Results
  <1>. QED
    BY <1>0, <1>10

LEMMA CrashMaps ==
  ASSUME AuthInv, Crash
  PROVE  Registers!Die
  <1>1. UNCHANGED <<disk, content, forgotten>>
    BY DEF Crash, files
  <1>2. ASSUME NEW o \in Ops
        PROVE  /\ op'[o].kind = op[o].kind /\ op'[o].file = op[o].file
               /\ op'[o].result = op[o].result
               /\ Phase(o)' = IF Phase(o) = "pending" THEN "dead" ELSE Phase(o)
    <2>1. /\ op[o] \in CallRecord
          /\ op'[o] = IF op[o].pc \in Settled THEN op[o]
                      ELSE [op[o] EXCEPT !.pc = "dead", !.lock = None, !.data = None]
      BY DEF Crash, AuthInv, TypeOK
    <2>2. CASE op[o].pc \in Settled
      BY <2>1, <2>2 DEF Phase, Settled
    <2>3. CASE op[o].pc \notin Settled
      <3>1. op'[o] = [op[o] EXCEPT !.pc = "dead", !.lock = None, !.data = None]
        BY <2>1, <2>3
      <3>2. /\ op'[o].kind = op[o].kind /\ op'[o].file = op[o].file
            /\ op'[o].result = op[o].result /\ op'[o].pc = "dead"
        BY <2>1, <3>1 DEF CallRecord
      <3>. QED
        BY <2>3, <3>2 DEF Phase, Settled
    <2>. QED
      BY <2>2, <2>3
  <1>3. Stored' = Stored
    BY <1>1 DEF Stored
  <1>4. Targets' = Targets /\ Results' = Results
    <2>1. \A o \in Ops : Kind(o)' = Kind(o)
      BY <1>2 DEF Kind
    <2>. QED
      BY <1>2, <2>1 DEF Targets, Results
  <1>5. Phases' = [o \in Ops |-> IF o \in Registers!Pending THEN "dead" ELSE Phases[o]]
    <2>1. \A o \in Ops : o \in Registers!Pending <=> Phase(o) = "pending"
      BY DEF Registers!Pending
    <2>. QED
      BY <1>2, <2>1 DEF Phases
  <1>. QED
    BY <1>1, <1>3, <1>4, <1>5 DEF Registers!Die, Stored, Targets, Results, Phases

LEMMA InitMaps == Init => Registers!Init
  <1>. SUFFICES ASSUME Init PROVE Registers!Init
    OBVIOUS
  <1>1. \A o \in Ops : op[o] = Unmade
    BY DEF Init
  <1>2. Unmade.pc = "unmade" /\ Unmade.kind = "none" /\ Unmade.file = None /\ Unmade.result = None
    BY DEF Unmade
  <1>3. Stored \in [Files -> {None, 0}]
    <2>1. 0 \in Data /\ content[0] = 0
      BY AtomicAuthAssumption DEF Init, Data
    <2>2. \A f \in Files : disk[f] \in {None, 0}
      BY DEF Init
    <2>. QED
      BY <2>1, <2>2 DEF Stored
  <1>4. Phases = [o \in Ops |-> "unmade"]
    BY <1>1, <1>2 DEF Phases, Phase, Settled
  <1>5. Targets = [o \in Ops |-> [kind |-> "none", file |-> None]]
    BY <1>1, <1>2 DEF Targets, Kind
  <1>6. Results = [o \in Ops |-> None]
    BY <1>1, <1>2 DEF Results
  <1>. QED
    BY <1>3, <1>4, <1>5, <1>6
       DEF Registers!Init, Registers!None, None, Stored, Phases, Targets, Results, Init

LEMMA StepMaps == AuthInv /\ [Next]_vars => [Registers!Next]_Registers!vars
  <1>. SUFFICES ASSUME AuthInv, [Next]_vars PROVE Registers!Next \/ UNCHANGED Registers!vars
    OBVIOUS
  <1>0. UNCHANGED Abstract => UNCHANGED Registers!vars
    BY DEF Abstract, Registers!vars, Stored, Phases, Targets, Results
  <1>1. CASE Load \/ SaveCreds \/ \E f \in Keys : KeysGet(f) \/ KeysSet(f)
    <2>1. PICK kind, f : Asked(kind, f) /\ Make(kind, f)
      BY <1>1, Making
    <2>2. PICK o : o = issued + 1
      OBVIOUS
    <2>3. o \in Ops /\ Registers!Call(o)
      BY <2>1, <2>2, MakeMaps
    <2>. QED
      BY <2>3 DEF Registers!Next
  <1>2. ASSUME NEW o \in Ops, Under(o) \/ WriteFails(o)
        PROVE  Registers!Next \/ UNCHANGED Registers!vars
    BY <1>0, <1>2, OpenMaps, WrittenMaps, RenameMaps, OpenForReadMaps, ReadMaps, UnlinkMaps,
       WriteFailsMaps DEF Under, Registers!Next
  <1>3. CASE Crash
    BY <1>3, CrashMaps DEF Registers!Next
  <1>4. CASE UNCHANGED vars
    BY <1>0, <1>4 DEF vars, files, Abstract, Stored, Phases, Phase, Targets, Kind, Results
  <1>. QED
    BY <1>1, <1>2, <1>3, <1>4 DEF Next

\* The session store implements registers served in the order of the calls
\* that survive the death of the process: writeFile and rename under the mutex
\* of the file are one atomic write, a failed write none.
THEOREM RefinesRegisters == Spec => ImplementsRegisters
  <1>. QED
    BY InitMaps, StepMaps, AuthInvariant, PTL DEF Spec, ImplementsRegisters, Registers!Spec

-----------------------------------------------------------------------------
(* Nobody waits for nobody: the safety half of CallsSettle *)

\* A guard of Under holds for the call.
Ready(o) ==
    \/ \E kind \in Kinds : Starts(o, {kind})
    \/ op[o].pc \in {"writing", "renaming", "reading"}

\* Under the mutex of a call that has not settled, some call made no later has it
\* and can go on.
SomebodyIsServed ==
    \A o \in Ops : op[o].pc \notin Settled =>
        \E p \in Ops : p <= o /\ op[p].lock = op[o].lock /\ Holds(p) /\ Ready(p)

\* The steps a call has before it at most, the one that makes it included.
StepsLeft(pc) ==
    CASE pc = "unmade" -> 4 [] pc = "waiting" -> 3 [] pc = "writing" -> 2
      [] pc \in {"renaming", "reading"} -> 1 [] OTHER -> 0

\* No call goes back, and what is done under a mutex takes its call on.
OnlyForward ==
    [][\A o \in Ops : /\ StepsLeft(op'[o].pc) <= StepsLeft(op[o].pc)
                      /\ Under(o) => StepsLeft(op'[o].pc) < StepsLeft(op[o].pc)]_vars

\* A set of natural numbers that is not empty has a least one.
LEMMA LeastNat ==
  ASSUME NEW T \in SUBSET Nat, T # {}
  PROVE  \E n \in T : \A m \in T : n <= m
  <1>1. PICK n \in T : \A m \in T : ~ (<<m, n>> \in OpToRel(<, Nat))
    BY NatLessThanWellFounded, WFMin
  <1>2. \A m \in T : ~ (m < n)
    BY <1>1, Zenon DEF OpToRel
  <1>. QED
    BY <1>2

\* No mutex is waited for in vain: whatever calls, failed writes, evictions and deaths
\* there were, the first of those that want a mutex has it and has a step to take
\* (release() is in a finally: atomic-auth.js:66-107).
THEOREM NobodyIsStuck == Spec => []SomebodyIsServed
  <1>1. AuthInv => SomebodyIsServed
    <2>. SUFFICES ASSUME AuthInv, NEW o \in Ops, op[o].pc \notin Settled
                  PROVE  \E p \in Ops : p <= o /\ op[p].lock = op[o].lock /\ Holds(p) /\ Ready(p)
      BY DEF SomebodyIsServed
    <2>. DEFINE T == {p \in Ops : Active(p) /\ op[p].lock = op[o].lock}
    <2>1. T \in SUBSET Nat /\ o \in T
      BY DEF Ops, Active
    <2>2. PICK p \in T : \A q \in T : p <= q
      BY <2>1, LeastNat
    <2>3. p <= o /\ Holds(p)
      BY <2>1, <2>2 DEF Holds, Active
    <2>4. Ready(p)
      <3>1. op[p].pc \in PcVals /\ Active(p) /\ CallFits(p)
        BY <2>2 DEF AuthInv, TypeOK, CallRecord, CallsFit
      <3>2. op[p].kind \in Kinds
        BY <3>1 DEF CallFits, Active, Settled
      <3>3. CASE op[p].pc = "waiting"
        BY <2>3, <3>2, <3>3 DEF Ready, Starts
      <3>4. CASE op[p].pc \in {"writing", "renaming", "reading"}
        BY <3>4 DEF Ready
      <3>. QED
        BY <3>1, <3>3, <3>4 DEF PcVals, Active
    <2>. QED
      BY <2>2, <2>3, <2>4
  <1>. QED
    BY <1>1, AuthInvariant, PTL

\* A step from one place in a call to another.
LEMMA Takes ==
  ASSUME AuthInv, NEW o \in Ops, Under(o) \/ WriteFails(o)
  PROVE  /\ \A p \in Ops \ {o} : op'[p] = op[p]
         /\ StepsLeft(op'[o].pc) < StepsLeft(op[o].pc)
  <1>. USE DEF StepsLeft, Step, Return, Starts
  <1>0. op \in [Ops -> CallRecord]
    BY DEF AuthInv, TypeOK
  <1>. USE <1>0 DEF CallRecord
  <1>1. CASE Open(o)
    BY <1>1 DEF Open
  <1>2. CASE Written(o)
    BY <1>2 DEF Written
  <1>3. CASE WriteFails(o)
    BY <1>3 DEF WriteFails
  <1>4. CASE Rename(o)
    BY <1>4 DEF Rename
  <1>5. CASE OpenForRead(o)
    BY <1>5 DEF OpenForRead
  <1>6. CASE ReadNothing(o)
    BY <1>6 DEF ReadNothing
  <1>7. CASE ReadReturns(o)
    BY <1>7 DEF ReadReturns
  <1>8. CASE Unlink(o)
    BY <1>8 DEF Unlink
  <1>. QED
    BY <1>1, <1>2, <1>3, <1>4, <1>5, <1>6, <1>7, <1>8 DEF Under

\* A call has at most four steps: being made, and what Under counts down.  With
\* NobodyIsStuck, what is left of CallsSettle is that the file system answers.
THEOREM CallsGoForward == Spec => OnlyForward
  <1>. DEFINE Forward ==
                \A o \in Ops : /\ StepsLeft(op'[o].pc) <= StepsLeft(op[o].pc)
                               /\ Under(o) => StepsLeft(op'[o].pc) < StepsLeft(op[o].pc)
  <1>1. AuthInv /\ [Next]_vars => [Forward]_vars
    <2>. SUFFICES ASSUME AuthInv, Next, NEW o \in Ops
                  PROVE  /\ StepsLeft(op'[o].pc) <= StepsLeft(op[o].pc)
                         /\ Under(o) => StepsLeft(op'[o].pc) < StepsLeft(op[o].pc)
      OBVIOUS
    <2>0. \A pc : StepsLeft(pc) \in 0 .. 4
      BY DEF StepsLeft
    <2>1. CASE Under(o)
      BY <2>0, <2>1, Takes
    <2>2. ASSUME NEW p \in Ops, Under(p) \/ WriteFails(p) PROVE StepsLeft(op'[o].pc) <= StepsLeft(op[o].pc)
      <3>1. CASE p = o
        BY <2>0, <2>2, <3>1, Takes
      <3>2. CASE p # o
        BY <2>0, <2>2, <3>2, Takes
      <3>. QED
        BY <3>1, <3>2
    <2>3. ASSUME NEW kind, NEW f, Make(kind, f) PROVE StepsLeft(op'[o].pc) <= StepsLeft(op[o].pc)
      <3>1. op \in [Ops -> CallRecord] /\ issued \in Nat
        BY DEF AuthInv, TypeOK
      <3>2. issued + 1 \in Ops => op[issued + 1].pc = "unmade"
        BY <3>1 DEF AuthInv, CallsFit, CallFits
      <3>3. o # issued + 1 => op'[o] = op[o]
        BY <2>3, <3>1 DEF Make
      <3>4. CASE o = issued + 1
        BY <2>0, <3>2, <3>4 DEF StepsLeft
      <3>. QED
        BY <2>0, <3>3, <3>4
    <2>4. ASSUME Crash PROVE StepsLeft(op'[o].pc) <= StepsLeft(op[o].pc)
      <3>1. op'[o] = op[o] \/ op'[o] = [op[o] EXCEPT !.pc = "dead", !.lock = None, !.data = None]
        BY <2>4 DEF Crash
      <3>2. op[o] \in CallRecord
        BY DEF AuthInv, TypeOK
      <3>3. op'[o] = op[o] \/ op'[o].pc = "dead"
        BY <3>1, <3>2 DEF CallRecord
      <3>4. StepsLeft("dead") = 0
        BY DEF StepsLeft
      <3>5. StepsLeft(op'[o].pc) \in {0, StepsLeft(op[o].pc)}
        BY <3>3, <3>4
      <3>6. StepsLeft(op[o].pc) \in 0 .. 4
        BY <2>0
      <3>. QED
        BY <3>5, <3>6
    <2>. QED
      BY <2>1, <2>2, <2>3, <2>4 DEF Next, Load, SaveCreds, KeysGet, KeysSet
  <1>. QED
    BY <1>1, AuthInvariant, PTL DEF Spec, OnlyForward

=============================================================================
