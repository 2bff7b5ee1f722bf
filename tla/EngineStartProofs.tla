-------------------------- MODULE EngineStartProofs --------------------------
(***************************************************************************)
(* Proofs about EngineStart, for any number of setups, files, ports and    *)
(* faults: the arguments of Node arrive, whatever they are; no engine is   *)
(* started by a setup that began beside a listening one; a tree that is    *)
(* taken for up to date is whole; Node is started on its files; Kotlin and *)
(* Node keep to their ports; a setup that began beside a listening Node    *)
(* comes to it.                                                            *)
(*                                                                         *)
(* None of them is inductive: the second needs to know where the probe is  *)
(* (ProbeWillHear), the files how far each copy is (TrustedFor, ThereFor)  *)
(* and that one setup works at a time, the types how many tries Node has   *)
(* left (PortsFit), the last whose port activePort is (OwedFits).          *)
(***************************************************************************)
EXTENDS EngineStart, TLAPS, FiniteSetTheorems, SequenceTheorems, WellFoundedInduction

-----------------------------------------------------------------------------
(* The arguments of Node: an induction over their list, from LeastNat *)
Bytes == Nat \ {0}
Lists == Seq(Seq(Bytes))

\* A set of natural numbers that is not empty has a least one: what the
\* inductions over the list of arguments below rest on.
LEMMA LeastNat ==
    ASSUME NEW T \in SUBSET Nat, T # {}
    PROVE  \E n \in T : \A m \in T : n <= m
  <1>1. PICK n \in T : \A m \in T : ~ (<<m, n>> \in OpToRel(<, Nat))
      BY NatLessThanWellFounded, WFMin
  <1>2. \A m \in T : ~ (m < n)
      BY <1>1, Zenon DEF OpToRel
  <1> QED  BY <1>2

\* A set of natural numbers that has 0, and with a number below k the next one,
\* has k.
LEMMA Ascent ==
    ASSUME NEW k \in Nat, NEW S, 0 \in S, \A n \in 0 .. k - 1 : n \in S => n + 1 \in S
    PROVE  \A n \in 0 .. k : n \in S
  <1> DEFINE T == {n \in 0 .. k : n \notin S}
  <1> SUFFICES ASSUME T # {} PROVE FALSE  OBVIOUS
  <1>1. T \in SUBSET Nat  OBVIOUS
  <1>2. PICK n \in T : \A m \in T : n <= m  BY <1>1, LeastNat
  <1>3. n - 1 \in 0 .. k - 1 /\ n - 1 \notin T  BY <1>2
  <1> QED  BY <1>3

\* The sizes are what the loop makes of them.
LEMMA SizesDef ==
    ASSUME NEW args \in Lists
    PROVE  Sizes(args) = [n \in 0 .. Len(args) |->
                IF n = 0 THEN 0 ELSE Sizes(args)[n - 1] + Len(args[n]) + 1]
  <1> DEFINE S == {k \in Nat : \E f : f = [n \in 0 .. k |->
                IF n = 0 THEN 0 ELSE f[n - 1] + Len(args[n]) + 1]}
  <1> Len(args) \in Nat  BY DEF Lists
  <1>1. 0 \in S
    <2> DEFINE f == [n \in 0 .. 0 |-> 0]
    <2>1. f = [n \in 0 .. 0 |-> IF n = 0 THEN 0 ELSE f[n - 1] + Len(args[n]) + 1]
        OBVIOUS
    <2> QED  BY <2>1
  <1>2. ASSUME NEW k \in 0 .. Len(args) - 1, k \in S PROVE k + 1 \in S
    <2>1. PICK f : f = [n \in 0 .. k |-> IF n = 0 THEN 0 ELSE f[n - 1] + Len(args[n]) + 1]
        BY <1>2
    <2> DEFINE g == [n \in 0 .. k + 1 |->
                IF n <= k THEN f[n] ELSE f[k] + Len(args[k + 1]) + 1]
    <2>2. ASSUME NEW n \in 0 .. k + 1
          PROVE  g[n] = IF n = 0 THEN 0 ELSE g[n - 1] + Len(args[n]) + 1
      <3>1. CASE n <= k
        <4>1. f[n] = IF n = 0 THEN 0 ELSE f[n - 1] + Len(args[n]) + 1  BY <2>1, <3>1
        <4>2. g[n] = f[n]  BY <3>1
        <4>3. n # 0 => g[n - 1] = f[n - 1]  BY <3>1
        <4> HIDE DEF g
        <4> QED  BY <4>1, <4>2, <4>3
      <3>2. CASE n = k + 1
        <4>1. g[n - 1] = f[k]  BY <3>2
        <4> QED  BY <3>2, <4>1
      <3> QED  BY <3>1, <3>2
    <2> HIDE DEF g
    <2>3. g = [n \in 0 .. k + 1 |-> g[n]]  BY DEF g
    <2>4. g = [n \in 0 .. k + 1 |-> IF n = 0 THEN 0 ELSE g[n - 1] + Len(args[n]) + 1]
        BY <2>2, <2>3
    <2>5. k + 1 \in Nat  OBVIOUS
    <2> QED  BY <2>4, <2>5
  <1> HIDE DEF S
  <1>3. Len(args) \in S
    <2>1. \A n \in 0 .. Len(args) - 1 : n \in S => n + 1 \in S  BY <1>2
    <2>2. \A n \in 0 .. Len(args) : n \in S  BY <1>1, <2>1, Ascent
    <2> QED  BY <2>2
  <1>4. \E f : f = [n \in 0 .. Len(args) |->
                IF n = 0 THEN 0 ELSE f[n - 1] + Len(args[n]) + 1]
      BY <1>3 DEF S
  <1> QED  BY <1>4, Zenon DEF Sizes

\* Offsets in the buffer are numbers, and grow with the arguments.
LEMMA SizesGrow ==
    ASSUME NEW args \in Lists
    PROVE  /\ Len(args) \in Nat
           /\ \A n \in 1 .. Len(args) : args[n] \in Seq(Bytes) /\ Len(args[n]) \in Nat
           /\ Sizes(args)[0] = 0
           /\ \A n \in 0 .. Len(args) : Sizes(args)[n] \in Nat
           /\ \A n \in 1 .. Len(args) : Sizes(args)[n] = Sizes(args)[n - 1] + Len(args[n]) + 1
           /\ \A m, n \in 0 .. Len(args) : m <= n => Sizes(args)[m] <= Sizes(args)[n]
           /\ Size(args) = Sizes(args)[Len(args)]
  <1> DEFINE size == Sizes(args)
             L == Len(args)
  <1>1. L \in Nat /\ \A n \in 1 .. L : args[n] \in Seq(Bytes) /\ Len(args[n]) \in Nat
      BY DEF Lists
  <1>2. size[0] = 0
    <2>1. 0 \in 0 .. Len(args)  BY <1>1
    <2> QED  BY <2>1, SizesDef
  <1>3. \A n \in 1 .. L : size[n] = size[n - 1] + Len(args[n]) + 1  BY <1>1, SizesDef
  <1> HIDE DEF size, L
  <1>4. \A n \in 0 .. L : size[n] \in Nat
    <2> DEFINE S == {n \in 0 .. L : size[n] \in Nat}
    <2>1. 0 \in S  BY <1>1, <1>2
    <2>2. \A n \in 0 .. L - 1 : n \in S => n + 1 \in S
      <3> SUFFICES ASSUME NEW n \in 0 .. L - 1, n \in S PROVE n + 1 \in S  OBVIOUS
      <3>1. n + 1 \in 1 .. L /\ (n + 1) - 1 = n  BY <1>1
      <3> QED  BY <1>1, <1>3, <3>1
    <2> HIDE DEF S
    <2>3. \A n \in 0 .. L : n \in S  BY <1>1, <2>1, <2>2, Ascent
    <2> QED  BY <2>3 DEF S
  <1>5. ASSUME NEW m \in 0 .. L PROVE \A n \in 0 .. L : m <= n => size[m] <= size[n]
    <2> DEFINE S == {n \in 0 .. L : m <= n => size[m] <= size[n]}
    <2>1. 0 \in S  BY <1>1, <1>4
    <2>2. \A n \in 0 .. L - 1 : n \in S => n + 1 \in S
      <3> SUFFICES ASSUME NEW n \in 0 .. L - 1, n \in S PROVE n + 1 \in S  OBVIOUS
      <3>1. n + 1 \in 1 .. L /\ (n + 1) - 1 = n  BY <1>1
      <3>2. size[n] <= size[n + 1]  BY <1>1, <1>3, <1>4, <3>1
      <3> QED  BY <1>1, <1>4, <3>1, <3>2
    <2> HIDE DEF S
    <2>3. \A n \in 0 .. L : n \in S  BY <1>1, <2>1, <2>2, Ascent
    <2> QED  BY <2>3 DEF S
  <1>6. Size(args) = size[L]  BY DEF Size, size, L
  <1> QED  BY <1>1, <1>2, <1>3, <1>4, <1>5, <1>6 DEF size, L

\* So is the memory.
LEMMA PopulatedDef ==
    ASSUME NEW args \in Lists
    PROVE  Populated(args) = [n \in 0 .. Len(args) |->
                IF n = 0 THEN [buffer |-> Calloc(Size(args)), argv |-> <<>>, at |-> 0]
                ELSE Populate(Populated(args)[n - 1], args[n])]
  <1> DEFINE start == [buffer |-> Calloc(Size(args)), argv |-> <<>>, at |-> 0]
             S == {k \in Nat : \E f : f = [n \in 0 .. k |->
                IF n = 0 THEN start ELSE Populate(f[n - 1], args[n])]}
  <1> HIDE DEF start
  <1>0. Len(args) \in Nat  BY DEF Lists
  <1>1. 0 \in S
    <2> DEFINE f == [n \in 0 .. 0 |-> start]
    <2>1. f = [n \in 0 .. 0 |-> IF n = 0 THEN start ELSE Populate(f[n - 1], args[n])]
        OBVIOUS
    <2> QED  BY <2>1
  <1>2. \A k \in 0 .. Len(args) - 1 : k \in S => k + 1 \in S
    <2> SUFFICES ASSUME NEW k \in 0 .. Len(args) - 1, k \in S PROVE k + 1 \in S  OBVIOUS
    <2>1. PICK f : f = [n \in 0 .. k |->
                IF n = 0 THEN start ELSE Populate(f[n - 1], args[n])]
        OBVIOUS
    <2> DEFINE g == [n \in 0 .. k + 1 |->
                IF n <= k THEN f[n] ELSE Populate(f[k], args[k + 1])]
    <2>2. ASSUME NEW n \in 0 .. k + 1
          PROVE  g[n] = IF n = 0 THEN start ELSE Populate(g[n - 1], args[n])
      <3>1. CASE n <= k
        <4>1. f[n] = IF n = 0 THEN start ELSE Populate(f[n - 1], args[n])  BY <2>1, <3>1
        <4>2. g[n] = f[n]  BY <3>1
        <4>3. n # 0 => g[n - 1] = f[n - 1]  BY <3>1
        <4> HIDE DEF g
        <4> QED  BY <4>1, <4>2, <4>3
      <3>2. CASE n = k + 1
        <4>1. g[n - 1] = f[k]  BY <3>2
        <4>2. g[n] = Populate(f[k], args[k + 1])  BY <1>0, <3>2
        <4>3. n # 0  BY <1>0, <3>2
        <4> HIDE DEF g
        <4> QED  BY <3>2, <4>1, <4>2, <4>3
      <3> QED  BY <1>0, <3>1, <3>2
    <2> HIDE DEF g
    <2>3. g = [n \in 0 .. k + 1 |-> g[n]]  BY DEF g
    <2>4. g = [n \in 0 .. k + 1 |->
                IF n = 0 THEN start ELSE Populate(g[n - 1], args[n])]
        BY <2>2, <2>3
    <2>5. k + 1 \in Nat  OBVIOUS
    <2> QED  BY <2>4, <2>5
  <1> HIDE DEF S
  <1>3. Len(args) \in S
    <2>1. \A n \in 0 .. Len(args) : n \in S  BY <1>0, <1>1, <1>2, Ascent
    <2> QED  BY <1>0, <2>1
  <1>4. \E f : f = [n \in 0 .. Len(args) |->
                IF n = 0 THEN start ELSE Populate(f[n - 1], args[n])]
      BY <1>3 DEF S
  <1> QED  BY <1>4, Zenon DEF Populated, start

\* strlen finds the first zero at or after its start.
LEMMA StrLenIs ==
    ASSUME NEW size \in Nat, NEW buffer, DOMAIN buffer = 0 .. size - 1,
           NEW at \in Nat, NEW len \in Nat, at + len < size, buffer[at + len] = 0,
           \A m \in 0 .. len - 1 : buffer[at + m] # 0
    PROVE  StrLen(buffer, at) = len
  <1> DEFINE Ends(n) == /\ at + n \in DOMAIN buffer => buffer[at + n] = 0
                        /\ \A m \in 0 .. n - 1 : at + m \in DOMAIN buffer /\ buffer[at + m] # 0
  <1>1. Cardinality(DOMAIN buffer) = size  BY FS_Interval
  <1>2. len \in 0 .. size /\ Ends(len)
    <2>1. \A m \in 0 .. len : at + m \in 0 .. size - 1  OBVIOUS
    <2>2. \A m \in 0 .. len - 1 : at + m \in DOMAIN buffer /\ buffer[at + m] # 0  BY <2>1
    <2>3. len \in 0 .. size  OBVIOUS
    <2> QED  BY <2>2, <2>3
  <1>3. ASSUME NEW n \in 0 .. size, Ends(n) PROVE n = len
    <2>1. CASE n < len
      <3>1. n \in 0 .. len - 1 /\ at + n \in DOMAIN buffer  BY <2>1
      <3> QED  BY <1>3, <3>1
    <2>2. CASE len < n
      <3>1. len \in 0 .. n - 1  BY <2>2
      <3> QED  BY <1>3, <3>1
    <2> QED  BY <2>1, <2>2
  <1>4. StrLen(buffer, at) = CHOOSE n \in 0 .. size : Ends(n)  BY <1>1 DEF StrLen
  <1> HIDE DEF Ends
  <1> QED  BY <1>2, <1>3, <1>4

\* A buffer of a size that holds an argument and its terminator at an offset,
\* with zeros from there on, as calloc left it.
HoldsAt(buffer, at, arg) ==
    /\ \A m \in 0 .. Len(arg) - 1 : buffer[at + m] = arg[m + 1]
    /\ buffer[at + Len(arg)] = 0
ZerosFrom(buffer, size, at) == DOMAIN buffer = 0 .. size - 1 /\ \A p \in at .. size - 1 : buffer[p] = 0

\* What is held is read back.
LEMMA ReadBack ==
    ASSUME NEW size \in Nat, NEW buffer, DOMAIN buffer = 0 .. size - 1,
           NEW at \in Nat, NEW arg \in Seq(Bytes), at + Len(arg) < size, HoldsAt(buffer, at, arg)
    PROVE  StrLen(buffer, at) = Len(arg) /\ CString(buffer, at) = arg
  <1>1. Len(arg) \in Nat /\ \A i \in 1 .. Len(arg) : arg[i] \in Bytes
      OBVIOUS
  <1>2. \A m \in 0 .. Len(arg) - 1 : buffer[at + m] # 0
    <2> SUFFICES ASSUME NEW m \in 0 .. Len(arg) - 1 PROVE buffer[at + m] # 0  OBVIOUS
    <2>1. m + 1 \in 1 .. Len(arg)  BY <1>1
    <2>2. buffer[at + m] = arg[m + 1]  BY DEF HoldsAt
    <2> QED  BY <1>1, <2>1, <2>2 DEF Bytes
  <1>3. StrLen(buffer, at) = Len(arg)
    <2> DEFINE len == Len(arg)
    <2>1. len \in Nat /\ at + len < size  BY <1>1
    <2>2. buffer[at + len] = 0  BY DEF HoldsAt
    <2>3. \A m \in 0 .. len - 1 : buffer[at + m] # 0  BY <1>2
    <2> HIDE DEF len
    <2>4. StrLen(buffer, at) = len  BY <2>1, <2>2, <2>3, StrLenIs
    <2> QED  BY <2>4 DEF len
  <1>4. \A i \in 1 .. Len(arg) : buffer[at + i - 1] = arg[i]
    <2> SUFFICES ASSUME NEW i \in 1 .. Len(arg) PROVE buffer[at + i - 1] = arg[i]  OBVIOUS
    <2>1. i - 1 \in 0 .. Len(arg) - 1 /\ (i - 1) + 1 = i /\ at + (i - 1) = at + i - 1  BY <1>1
    <2> QED  BY <2>1 DEF HoldsAt
  <1>5. arg = [i \in 1 .. Len(arg) |-> arg[i]]  OBVIOUS
  <1> QED  BY <1>3, <1>4, <1>5 DEF CString

\* strncpy onto zeros: the argument is held, terminated by a zero that was there;
\* what lies before is untouched, and zeros follow.
LEMMA Copy ==
    ASSUME NEW size \in Nat, NEW buffer, NEW at \in Nat, ZerosFrom(buffer, size, at),
           NEW arg \in Seq(Bytes), at + Len(arg) < size
    PROVE  LET copy == StrNCpy(buffer, at, arg) IN
           /\ ZerosFrom(copy, size, at + Len(arg) + 1)
           /\ HoldsAt(copy, at, arg)
           /\ \A p \in 0 .. at - 1 : copy[p] = buffer[p]
  <1> DEFINE copy == StrNCpy(buffer, at, arg)
             len == Len(arg)
  <1>1. len \in Nat  OBVIOUS
  <1> HIDE DEF len
  <1>2. DOMAIN buffer \cup at .. at + len - 1 = 0 .. size - 1
      BY <1>1 DEF ZerosFrom, len
  <1>3. copy = [p \in 0 .. size - 1 |->
                  IF p \in at .. at + len - 1 THEN arg[p - at + 1] ELSE buffer[p]]
      BY <1>2 DEF StrNCpy, len
  <1> HIDE DEF copy
  <1>4. at + len \in 0 .. size - 1  BY <1>1 DEF len
  <1>5. ZerosFrom(copy, size, at + len + 1)
    <2>1. ASSUME NEW p \in at + len + 1 .. size - 1 PROVE copy[p] = 0
      <3>1. p \in 0 .. size - 1 /\ p \notin at .. at + len - 1 /\ p \in at .. size - 1  BY <1>1
      <3> QED  BY <1>3, <3>1 DEF ZerosFrom
    <2> QED  BY <1>3, <2>1 DEF ZerosFrom
  <1>6. HoldsAt(copy, at, arg)
    <2>1. ASSUME NEW m \in 0 .. len - 1 PROVE copy[at + m] = arg[m + 1]
      <3>1. at + m \in 0 .. size - 1 /\ at + m \in at .. at + len - 1 /\ at + m - at + 1 = m + 1
          BY <1>1, <1>4
      <3> QED  BY <1>3, <3>1
    <2>2. copy[at + len] = 0
      <3>1. at + len \notin at .. at + len - 1 /\ at + len \in at .. size - 1  BY <1>1, <1>4
      <3> QED  BY <1>3, <1>4, <3>1 DEF ZerosFrom
    <2> QED  BY <2>1, <2>2 DEF HoldsAt, len
  <1>7. \A p \in 0 .. at - 1 : copy[p] = buffer[p]
    <2> SUFFICES ASSUME NEW p \in 0 .. at - 1 PROVE copy[p] = buffer[p]  OBVIOUS
    <2>1. p \in 0 .. size - 1 /\ p \notin at .. at + len - 1  BY <1>1, <1>4
    <2> QED  BY <1>3, <2>1
  <1> QED  BY <1>5, <1>6, <1>7 DEF copy, len

\* The loop invariant of startNodeWithArguments: after n arguments, argv points
\* to the places of the first n, each is held at its place, and the rest of the
\* buffer is as calloc left it.
LoopInv(args, n) ==
    LET memory == Populated(args)[n] IN
    /\ ZerosFrom(memory.buffer, Size(args), Sizes(args)[n])
    /\ memory.at = Sizes(args)[n]
    /\ memory.argv \in Seq(Nat) /\ Len(memory.argv) = n
    /\ \A i \in 1 .. n : memory.argv[i] = Sizes(args)[i - 1]
    /\ \A i \in 1 .. n : HoldsAt(memory.buffer, Sizes(args)[i - 1], args[i])

\* An argument goes to free room, and what is held stays.
LEMMA LoopStep ==
    ASSUME NEW args \in Lists, NEW n \in 0 .. Len(args) - 1, LoopInv(args, n)
    PROVE  LoopInv(args, n + 1)
  <1> DEFINE memory == Populated(args)[n]
             next == Populated(args)[n + 1]
             arg == args[n + 1]
             at == Sizes(args)[n]
             size == Size(args)
             copy == StrNCpy(memory.buffer, at, arg)
  <1>1. Len(args) \in Nat /\ n + 1 \in 1 .. Len(args) /\ n + 1 \in 0 .. Len(args)
        /\ n + 1 # 0 /\ (n + 1) - 1 = n /\ n \in 0 .. Len(args) /\ n \in Nat
      BY SizesGrow
  <1>2. next = Populate(memory, arg)
    <2>1. next = IF n + 1 = 0 THEN [buffer |-> Calloc(Size(args)), argv |-> <<>>, at |-> 0]
                 ELSE Populate(Populated(args)[(n + 1) - 1], args[n + 1])
        BY <1>1, PopulatedDef
    <2> QED  BY <1>1, <2>1
  <1>3. at \in Nat /\ size \in Nat /\ arg \in Seq(Bytes) /\ Len(arg) \in Nat
      BY <1>1, SizesGrow
  <1>4. Sizes(args)[n + 1] = at + Len(arg) + 1
    <2>1. Sizes(args)[n + 1] = Sizes(args)[(n + 1) - 1] + Len(args[n + 1]) + 1  BY <1>1, SizesGrow
    <2> QED  BY <1>1, <2>1
  <1>5. at + Len(arg) + 1 <= size
    <2>1. Sizes(args)[n + 1] <= size  BY <1>1, SizesGrow
    <2> QED  BY <1>4, <2>1
  <1>6. at + Len(arg) < size  BY <1>3, <1>5
  <1>7. /\ ZerosFrom(memory.buffer, size, at) /\ memory.at = at
        /\ memory.argv \in Seq(Nat) /\ Len(memory.argv) = n
        /\ \A i \in 1 .. n : memory.argv[i] = Sizes(args)[i - 1]
        /\ \A i \in 1 .. n : HoldsAt(memory.buffer, Sizes(args)[i - 1], args[i])
      BY DEF LoopInv
  <1>8. \A i \in 1 .. n : /\ i \in 1 .. Len(args) /\ args[i] \in Seq(Bytes)
                          /\ Len(args[i]) \in Nat /\ Sizes(args)[i - 1] \in Nat
                          /\ Sizes(args)[i - 1] + Len(args[i]) + 1 <= at
    <2> SUFFICES ASSUME NEW i \in 1 .. n
                 PROVE  /\ i \in 1 .. Len(args) /\ args[i] \in Seq(Bytes)
                        /\ Len(args[i]) \in Nat /\ Sizes(args)[i - 1] \in Nat
                        /\ Sizes(args)[i - 1] + Len(args[i]) + 1 <= at
        OBVIOUS
    <2>1. i \in 1 .. Len(args) /\ i \in 0 .. Len(args) /\ i - 1 \in 0 .. Len(args) /\ i <= n
        BY <1>1
    <2>2. Sizes(args)[i] = Sizes(args)[i - 1] + Len(args[i]) + 1 /\ Sizes(args)[i] <= at
        BY <1>1, <2>1, SizesGrow
    <2> QED  BY <2>1, <2>2, SizesGrow
  <1> HIDE DEF memory, next, arg, at, size
  <1>9. /\ ZerosFrom(copy, size, at + Len(arg) + 1)
        /\ HoldsAt(copy, at, arg)
        /\ \A p \in 0 .. at - 1 : copy[p] = memory.buffer[p]
      BY <1>3, <1>6, <1>7, Copy
  <1> HIDE DEF copy
  <1>10. StrLen(copy, at) = Len(arg)
    <2>1. DOMAIN copy = 0 .. size - 1  BY <1>9 DEF ZerosFrom
    <2> QED  BY <1>3, <1>6, <1>9, <2>1, ReadBack
  <1>11. next = [buffer |-> copy, argv |-> Append(memory.argv, at), at |-> at + Len(arg) + 1]
      BY <1>2, <1>7, <1>10 DEF Populate, copy
  <1>12. ZerosFrom(next.buffer, size, Sizes(args)[n + 1]) /\ next.at = Sizes(args)[n + 1]
      BY <1>4, <1>9, <1>11
  <1>13. /\ next.argv \in Seq(Nat) /\ Len(next.argv) = n + 1
         /\ next.argv[n + 1] = at
         /\ \A i \in 1 .. n : next.argv[i] = memory.argv[i]
      BY <1>1, <1>3, <1>7, <1>11
  <1>14. \A i \in 1 .. n + 1 : next.argv[i] = Sizes(args)[i - 1]
    <2> SUFFICES ASSUME NEW i \in 1 .. n + 1 PROVE next.argv[i] = Sizes(args)[i - 1]  OBVIOUS
    <2>1. CASE i = n + 1  BY <1>1, <1>13, <2>1 DEF at
    <2>2. CASE i \in 1 .. n  BY <1>7, <1>13, <2>2
    <2> QED  BY <1>1, <2>1, <2>2
  <1>15. \A i \in 1 .. n + 1 : HoldsAt(next.buffer, Sizes(args)[i - 1], args[i])
    <2> SUFFICES ASSUME NEW i \in 1 .. n + 1
                 PROVE  HoldsAt(copy, Sizes(args)[i - 1], args[i])
        BY <1>11
    <2>1. CASE i = n + 1  BY <1>1, <1>9, <2>1 DEF at, arg
    <2>2. CASE i \in 1 .. n
      <3> DEFINE from == Sizes(args)[i - 1]
                 len == Len(args[i])
                 this == args[i]
      <3>1. from \in Nat /\ len \in Nat /\ from + len + 1 <= at  BY <1>8, <2>2
      <3>2. HoldsAt(memory.buffer, from, this)  BY <1>7, <2>2
      <3> HIDE DEF from
      <3>3. /\ \A m \in 0 .. len - 1 : memory.buffer[from + m] = this[m + 1]
            /\ memory.buffer[from + len] = 0
          BY <3>2 DEF HoldsAt
      <3> HIDE DEF len, this
      <3>4. \A m \in 0 .. len : from + m \in 0 .. at - 1  BY <1>3, <3>1
      <3>5. \A m \in 0 .. len - 1 : copy[from + m] = this[m + 1]
        <4> SUFFICES ASSUME NEW m \in 0 .. len - 1 PROVE copy[from + m] = this[m + 1]  OBVIOUS
        <4>1. from + m \in 0 .. at - 1  BY <3>1, <3>4
        <4> QED  BY <1>9, <3>3, <4>1
      <3>6. copy[from + len] = 0
        <4>1. from + len \in 0 .. at - 1  BY <1>3, <3>1
        <4> QED  BY <1>9, <3>3, <4>1
      <3>7. HoldsAt(copy, from, this)  BY <3>5, <3>6 DEF HoldsAt, len, this
      <3> QED  BY <3>7 DEF from, this
    <2> QED  BY <1>1, <2>1, <2>2
  <1> QED  BY <1>12, <1>13, <1>14, <1>15 DEF LoopInv, next, size

\* Whatever the arguments are, Node reads them as they were passed, and nothing
\* outside the buffer is touched.
THEOREM EveryListArrives == ASSUME NEW args \in Lists PROVE Arrives(args)
  <1> DEFINE memory == StartNodeWithArguments(args)
             size == Size(args)
             L == Len(args)
  <1>1. LoopInv(args, 0)
    <2>1. 0 \in 0 .. L  BY SizesGrow
    <2>2. Populated(args)[0] = [buffer |-> Calloc(Size(args)), argv |-> <<>>, at |-> 0]
        BY <2>1, PopulatedDef
    <2>3. size \in Nat /\ Sizes(args)[0] = 0  BY SizesGrow
    <2>4. ZerosFrom(Calloc(size), size, 0)  BY <2>3 DEF ZerosFrom, Calloc
    <2> QED  BY <2>2, <2>3, <2>4 DEF LoopInv
  <1>2. LoopInv(args, L)
    <2> DEFINE S == {n \in 0 .. L : LoopInv(args, n)}
    <2>1. L \in Nat /\ 0 \in S  BY <1>1, SizesGrow
    <2>2. \A n \in 0 .. L - 1 : n \in S => n + 1 \in S
      <3> SUFFICES ASSUME NEW n \in 0 .. L - 1, n \in S PROVE n + 1 \in S  OBVIOUS
      <3>1. LoopInv(args, n + 1)  BY LoopStep
      <3> QED  BY <2>1, <3>1
    <2> HIDE DEF S, L
    <2>3. \A n \in 0 .. L : n \in S  BY <2>1, <2>2, Ascent
    <2>4. L \in S  BY <2>1, <2>3
    <2> QED  BY <2>4 DEF S
  <1>3. /\ DOMAIN memory.buffer = 0 .. size - 1
        /\ memory.argv \in Seq(Nat) /\ Len(memory.argv) = L
        /\ \A i \in 1 .. L : memory.argv[i] = Sizes(args)[i - 1]
        /\ \A i \in 1 .. L : HoldsAt(memory.buffer, Sizes(args)[i - 1], args[i])
      BY <1>2 DEF LoopInv, StartNodeWithArguments, ZerosFrom
  <1>4. size \in Nat /\ L \in Nat /\ args \in Seq(Seq(Bytes)) /\ DOMAIN args = 1 .. L
      BY SizesGrow DEF Lists
  <1> HIDE DEF memory
  <1>5. ASSUME NEW i \in 1 .. L
        PROVE  /\ memory.argv[i] + Len(args[i]) \in DOMAIN memory.buffer
               /\ CString(memory.buffer, memory.argv[i]) = args[i]
    <2> DEFINE at == memory.argv[i]
               arg == args[i]
               buffer == memory.buffer
    <2>1. i \in 0 .. L /\ i - 1 \in 0 .. L /\ L \in 0 .. L  BY <1>4
    <2>2. Sizes(args)[i] = at + Len(arg) + 1 /\ Sizes(args)[i] <= size
      <3>1. at = Sizes(args)[i - 1]  BY <1>3
      <3>2. Sizes(args)[i] = Sizes(args)[i - 1] + Len(arg) + 1  BY SizesGrow
      <3>3. i <= L /\ Sizes(args)[L] = size  BY <1>4, SizesGrow
      <3>4. Sizes(args)[i] <= Sizes(args)[L]  BY <2>1, <3>3, SizesGrow
      <3> QED  BY <3>1, <3>2, <3>3, <3>4
    <2>3. at \in Nat /\ arg \in Seq(Bytes) /\ Len(arg) \in Nat  BY <1>3, <2>1, SizesGrow
    <2>4. DOMAIN buffer = 0 .. size - 1 /\ HoldsAt(buffer, at, arg)  BY <1>3
    <2> HIDE DEF at, arg, buffer, size
    <2>5. at + Len(arg) < size  BY <1>4, <2>2, <2>3
    <2>6. CString(buffer, at) = arg  BY <1>4, <2>3, <2>4, <2>5, ReadBack
    <2>7. at + Len(arg) \in DOMAIN buffer  BY <1>4, <2>3, <2>4, <2>5
    <2> QED  BY <2>6, <2>7 DEF at, arg, buffer
  <1>6. ProcessArgv(memory) = args
    <2>1. DOMAIN memory.argv = 1 .. L  BY <1>3
    <2>2. ProcessArgv(memory) = [i \in 1 .. L |-> args[i]]  BY <1>5, <2>1 DEF ProcessArgv
    <2>3. args = [i \in 1 .. L |-> args[i]]  BY <1>4
    <2> QED  BY <2>2, <2>3
  <1> QED  BY <1>3, <1>4, <1>5, <1>6 DEF Arrives, memory

\* What index.js finds among the strings argv points to.
LEMMA RequestedPortIs ==
    ASSUME NEW p \in Ports
    PROVE  RequestedPort[p] = IF p \in 1 .. MaxPort THEN p ELSE DefaultPort
  <1> DEFINE args == << <<Node>>, <<Entry>>, <<Flag, p>> >>
             ports == {i \in DOMAIN args : Len(args[i]) = 2 /\ args[i][1] = Flag
                                                            /\ args[i][2] \in 1 .. MaxPort}
  <1>1. p \in Bytes  BY EngineStartAssumption, LauncherAssumption DEF Bytes, Ports
  <1>2. Flag \in Bytes /\ Node \in Bytes /\ Entry \in Bytes
      BY EngineStartAssumption, LauncherAssumption DEF Bytes
  <1>3. <<Node>> \in Seq(Bytes) /\ <<Entry>> \in Seq(Bytes) /\ <<Flag, p>> \in Seq(Bytes)
      BY <1>1, <1>2
  <1>4. args \in Lists  BY <1>3 DEF Lists
  <1>5. ProcessArgv(StartNodeWithArguments(args)) = args
      BY <1>4, EveryListArrives DEF Arrives
  <1>6. ports = IF p \in 1 .. MaxPort THEN {3} ELSE {}
    <2>1. DOMAIN args = 1 .. 3  OBVIOUS
    <2>2. Len(args[1]) = 1 /\ Len(args[2]) = 1 /\ args[3] = <<Flag, p>>  OBVIOUS
    <2>3. Len(<<Flag, p>>) = 2 /\ <<Flag, p>>[1] = Flag /\ <<Flag, p>>[2] = p  OBVIOUS
    <2> HIDE DEF args
    <2>4. p \in 1 .. MaxPort => 3 \in ports  BY <2>1, <2>2, <2>3
    <2>5. \A i \in ports : i = 3 /\ p \in 1 .. MaxPort  BY <2>1, <2>2, <2>3
    <2> HIDE DEF ports
    <2> QED  BY <2>4, <2>5
  <1>7. GetRequestedPort(args) = IF ports = {} THEN DefaultPort
            ELSE args[CHOOSE i \in ports : \A j \in ports : i <= j][2]
    <2> HIDE DEF args
    <2> QED  BY Zenon DEF GetRequestedPort
  <1>8. (CHOOSE i \in {3} : \A j \in {3} : i <= j) = 3 /\ args[3][2] = p  OBVIOUS
  <1>9. GetRequestedPort(args) = IF p \in 1 .. MaxPort THEN p ELSE DefaultPort
    <2> HIDE DEF ports, args
    <2> QED  BY <1>6, <1>7, <1>8
  <1> QED  BY <1>5, <1>9 DEF RequestedPort

\* Node looks for the port where Kotlin put it: the engine is asked for the port
\* its setup picked, not the default one.
THEOREM PortReachesNode ==
    ASSUME NEW p \in Ports, p \in 1 .. MaxPort
    PROVE  RequestedPort[p] = p
  BY RequestedPortIs

\* The property of the run, for all lists of arguments there are.
THEOREM ArgumentsReachNode == Spec => []ArgumentsArrive
  <1>1. ArgumentsArrive
    <2>1. ArgumentLists \subseteq Lists  BY EngineStartAssumption DEF Lists, Bytes
    <2> QED  BY <2>1, EveryListArrives DEF ArgumentsArrive
  <1> QED  BY <1>1, PTL

-----------------------------------------------------------------------------
(* One engine *)
SetupFields == {"pc", "heard", "port", "ahead", "file", "up", "owed"}
EngineFields == {"pc", "port", "attempts"}

\* Records keep their fields.
Shapes ==
    /\ begun \in Nat
    /\ DOMAIN setup = Setups /\ \A s \in Setups : DOMAIN setup[s] = SetupFields
    /\ DOMAIN engine = Setups /\ \A e \in Setups : DOMAIN engine[e] = EngineFields

Unpacking == {"syncing", "checking", "wiping", "copying", "refreshing"}
BeforeStart == {"none", "probing", "picking", "starting"} \cup Unpacking

\* An engine listens on a scanned port the probe has not passed.
EngineAhead(p) ==
    \E e \in Setups : engine[e].pc = "listening" /\ engine[e].port \in Scan /\ p <= engine[e].port

\* Setups begin in order, and none has an engine before it starts it.
OneEngineEach ==
    \A s \in Setups :
        /\ s > begun => setup[s].pc = "none"
        /\ setup[s].pc \in BeforeStart => engine[s].pc = "none"

\* A setup that began beside a listening engine still has it ahead of its probe,
\* or has heard one, and never comes to choose a port.
ProbeWillHear ==
    \A s \in Setups :
        /\ setup[s].pc = "probing" => setup[s].port \in Scan
        /\ setup[s].up =>
              /\ setup[s].pc = "probing" => EngineAhead(setup[s].port)
              /\ setup[s].pc \in Unpacking => setup[s].heard
              /\ setup[s].pc \notin {"picking", "starting"}

IInv == Shapes /\ OneEngineEach /\ ProbeWillHear

\* The scanned ports are consecutive numbers from the default one.
LEMMA ScanIsInt ==
    /\ Scan \subseteq Nat /\ DefaultPort \in Scan
    /\ \A p \in Scan : DefaultPort <= p
    /\ \A p \in Scan : p + 1 \notin Scan => \A q \in Scan : q <= p
  BY EngineStartAssumption, LauncherAssumption DEF Scan

\* The invariant holds initially.
LEMMA InitIInv == Init => IInv
  <1> SUFFICES ASSUME Init PROVE IInv  OBVIOUS
  <1>1. Shapes  BY DEF Init, Shapes, NoSetup, NoEngine, SetupFields, EngineFields
  <1>2. OneEngineEach  BY DEF Init, OneEngineEach, NoSetup, NoEngine
  <1>3. ProbeWillHear  BY DEF Init, ProbeWillHear, NoSetup, Unpacking
  <1> QED  BY <1>1, <1>2, <1>3 DEF IInv

\* The probe goes on to the next port only when nobody answers on this one, and so
\* does not pass the engine ahead.
LEMMA ProbeStep == ASSUME IInv, NEW s \in Setups, Probe(s) PROVE IInv'
  <1> USE DEF Probe, UnchangedBySetup, shared, cache
  <1>1. Shapes'  BY DEF IInv, Shapes, SetupFields
  <1>2. OneEngineEach'  BY DEF IInv, Shapes, SetupFields, OneEngineEach, BeforeStart, Unpacking
  <1>3. ProbeWillHear'
    <2>1. \A p : EngineAhead(p)' <=> EngineAhead(p)  BY DEF EngineAhead
    <2> QED  BY <2>1, ScanIsInt DEF IInv, Shapes, SetupFields, ProbeWillHear, Unpacking,
                                   EngineAhead, Answers, Listening
  <1> QED  BY <1>1, <1>2, <1>3 DEF IInv

\* Steps that touch neither setups nor engines.
LEMMA FrameStep == ASSUME IInv, UNCHANGED <<begun, setup, engine>> PROVE IInv'
  BY DEF IInv, Shapes, OneEngineEach, ProbeWillHear, EngineAhead

\* Setup s becomes r: it does not go back, and unless it began beside no engine it
\* keeps what it has heard and does not come to choose a port.
Moves(s, r) ==
    /\ setup' = [setup EXCEPT ![s] = r]
    /\ UNCHANGED <<begun, engine>>
    /\ DOMAIN r = SetupFields
    /\ setup[s].pc # "none" /\ r.pc \notin {"none", "probing"}
    /\ r.up = setup[s].up
    /\ r.pc \in BeforeStart => setup[s].pc \in BeforeStart
    /\ setup[s].up => (r.pc \in Unpacking => r.heard) /\ r.pc \notin {"picking", "starting"}

\* Such a move preserves the invariant.
LEMMA MovesStep == ASSUME IInv, NEW s \in Setups, NEW r, Moves(s, r) PROVE IInv'
  <1> USE DEF Moves
  <1>1. Shapes'  BY DEF IInv, Shapes
  <1>2. OneEngineEach'  BY DEF IInv, Shapes, OneEngineEach
  <1>3. ProbeWillHear'
    <2>1. \A p : EngineAhead(p)' <=> EngineAhead(p)  BY DEF EngineAhead
    <2> QED  BY <2>1 DEF IInv, Shapes, ProbeWillHear, Unpacking
  <1> QED  BY <1>1, <1>2, <1>3 DEF IInv

\* The other steps of a setup that change it are such moves.
LEMMA SetupSteps ==
  ASSUME IInv, NEW s \in Setups, SetupStep(s) \/ CopyFails(s), ~Probe(s), ~Start(s), ~Wipe(s)
  PROVE IInv'
  <1> SUFFICES \E r : Moves(s, r)  BY MovesStep
  <1> DEFINE old == setup[s]
  <1>0. /\ s \in DOMAIN setup /\ DOMAIN old = SetupFields
        /\ old.up => (old.pc \in Unpacking => old.heard) /\ old.pc \notin {"picking", "starting"}
    BY DEF IInv, Shapes, ProbeWillHear
  <1> USE <1>0 DEF UnchangedBySetup, Moves, Go, Unpacking, BeforeStart, SetupFields
  <1>1. CASE Sync(s)
    <2> WITNESS [old EXCEPT !.pc = "checking"]
    <2> QED BY <1>1 DEF Sync
  <1>2. CASE Check(s)
    <2> WITNESS [old EXCEPT !.pc = IF UpToDate THEN "refreshing" ELSE "wiping",
                            !.ahead = IF UpToDate THEN Scripts ELSE {}]
    <2> QED BY <1>2 DEF Check
  <1>3. CASE WipeEnds(s)
    <2> WITNESS [old EXCEPT !.pc = "copying", !.ahead = Assets]
    <2> QED BY <1>3 DEF WipeEnds
  <1>4. CASE OpenAsset(s)
    <2> WITNESS [old EXCEPT !.file = First(old.ahead), !.ahead = @ \ {First(@)}]
    <2> QED BY <1>4 DEF OpenAsset, Copying
  <1>5. CASE CloseAsset(s)
    <2> WITNESS [old EXCEPT !.file = NoFile]
    <2> QED BY <1>5 DEF CloseAsset, Copying
  <1>6. CASE CopyFails(s)
    <2> DEFINE f == IF old.file = NoFile THEN First(old.ahead) ELSE old.file
    <2> WITNESS [old EXCEPT !.file = NoFile, !.ahead = @ \ {f}]
    <2> QED BY <1>6 DEF CopyFails, Copying
  <1>7. CASE Mark(s)
    <2> WITNESS [old EXCEPT !.pc = "refreshing", !.ahead = Scripts]
    <2> QED BY <1>7 DEF Mark
  <1>8. CASE CheckEntry(s)
    <2> WITNESS [old EXCEPT !.pc = IF tree[EntryPoint] = "none" THEN "aborted"
                                   ELSE IF old.heard THEN "reading" ELSE "picking"]
    <2> QED BY <1>8 DEF CheckEntry
  <1>9. CASE Pick(s)
    <2> WITNESS [old EXCEPT !.pc = "starting", !.port = FindAvailablePort]
    <2> QED BY <1>9 DEF Pick
  <1>10. CASE ReadPort(s)
    <2> WITNESS [old EXCEPT !.pc = "waiting", !.port = activePort, !.heard = FALSE]
    <2> QED BY <1>10 DEF ReadPort
  <1>11. CASE Connect(s)
    <2> WITNESS [old EXCEPT !.pc = "wired"]
    <2> QED BY <1>11 DEF Connect, Connecting
  <1>12. CASE TryFails(s)
    <2> WITNESS [old EXCEPT !.pc = "retrying"]
    <2> QED BY <1>12 DEF TryFails
  <1>13. CASE GiveUp(s)
    <2> WITNESS [old EXCEPT !.pc = "failed"]
    <2> QED BY <1>13 DEF GiveUp
  <1>14. CASE Cancelled(s)
    <2> WITNESS [old EXCEPT !.pc = "cancelled"]
    <2> QED BY <1>14 DEF Cancelled
  <1> QED
    BY <1>1, <1>2, <1>3, <1>4, <1>5, <1>6, <1>7, <1>8, <1>9, <1>10, <1>11, <1>12, <1>13, <1>14
    DEF SetupStep

\* Starting an engine stops none that listens: the setup had no engine yet.
LEMMA StartStep == ASSUME IInv, NEW s \in Setups, Start(s) PROVE IInv'
  <1> USE DEF Start, Go, UnchangedBySetup
  <1>1. Shapes'  BY DEF IInv, Shapes, SetupFields, EngineFields
  <1>2. OneEngineEach'  BY DEF IInv, Shapes, SetupFields, OneEngineEach, BeforeStart, Unpacking
  <1>3. ProbeWillHear'
    <2>1. engine[s].pc = "none"  BY DEF IInv, OneEngineEach, BeforeStart
    <2>2. \A p : EngineAhead(p) => EngineAhead(p)'  BY <2>1 DEF EngineAhead, IInv, Shapes
    <2> QED  BY <2>2 DEF IInv, Shapes, SetupFields, ProbeWillHear, Unpacking
  <1> QED  BY <1>1, <1>2, <1>3 DEF IInv

\* A listening engine in the scanned range is ahead of a probe that begins.
LEMMA ListenedIsAhead == (\E p \in Scan : Listening(p)) => EngineAhead(DefaultPort)
  BY ScanIsInt DEF Listening, EngineAhead

\* What Begin makes of a setup, whatever the booleans it records.
LEMMA Launched ==
  ASSUME NEW s \in DOMAIN setup, NEW up, NEW owed,
         setup' = [setup EXCEPT ![s] = [NoSetup EXCEPT !.pc = IF channel THEN "skipped" ELSE "probing",
                                                       !.up = up, !.owed = owed]]
  PROVE  /\ setup'[s].pc \in {"skipped", "probing"} /\ setup'[s].port = DefaultPort
         /\ setup'[s].up = up
         /\ \A r \in DOMAIN setup \ {s} : setup'[r] = setup[r]
  BY DEF NoSetup

\* A setup that begins (SchedulerService.onCreate).
LEMMA BeginStep == ASSUME IInv, NEW s \in Setups, Begin(s) PROVE IInv'
  <1>1. Shapes'  BY DEF Begin, IInv, Shapes, SetupFields, NoSetup
  <1>2. OneEngineEach'
    BY DEF Begin, IInv, Shapes, SetupFields, NoSetup, OneEngineEach, BeforeStart, Unpacking, Setups
  <1>3. ProbeWillHear'
    <2>1. \A p : EngineAhead(p)' <=> EngineAhead(p)  BY DEF Begin, EngineAhead
    <2> DEFINE up == \E p \in Scan : Listening(p)
               owed == up /\ \A p \in Scan : others[p] # "answering"
    <2>2. setup' = [setup EXCEPT ![s] = [NoSetup EXCEPT !.pc = IF channel THEN "skipped" ELSE "probing",
                                                        !.up = up, !.owed = owed]]
      BY DEF Begin
    <2>3. up => EngineAhead(DefaultPort)  BY ListenedIsAhead
    <2> HIDE DEF up, owed
    <2>4. DOMAIN setup = Setups  BY DEF IInv, Shapes
    <2>5. /\ setup'[s].pc \in {"skipped", "probing"} /\ setup'[s].port = DefaultPort
          /\ setup'[s].up = up
          /\ \A r \in Setups \ {s} : setup'[r] = setup[r]
      BY <2>2, <2>4, Launched
    <2>6. DefaultPort \in Scan  BY ScanIsInt
    <2> QED  BY <2>1, <2>3, <2>5, <2>6 DEF IInv, ProbeWillHear, Unpacking
  <1> QED  BY <1>1, <1>2, <1>3 DEF IInv

\* Node loads and binds: an engine that listens goes on listening.
LEMMA NodeSteps == ASSUME IInv, NEW e \in Setups, NodeStep(e) PROVE IInv'
  <1> USE DEF NodeStep, Load, TryListen, UnchangedByNode
  <1>1. Shapes'  BY DEF IInv, Shapes, EngineFields
  <1>2. OneEngineEach'  BY DEF IInv, Shapes, EngineFields, OneEngineEach
  <1>3. ProbeWillHear'
    <2>1. \A p : EngineAhead(p) => EngineAhead(p)'  BY DEF EngineAhead, IInv, Shapes
    <2> QED  BY <2>1 DEF IInv, ProbeWillHear
  <1> QED  BY <1>1, <1>2, <1>3 DEF IInv

\* Another program takes a port: the setups change in owed only.
LEMMA TakeStep == ASSUME IInv, NEW p \in Ports, Take(p) PROVE IInv'
  <1> USE DEF Take
  <1>0. /\ UNCHANGED <<begun, engine>> /\ DOMAIN setup' = Setups
        /\ \A s \in Setups : DOMAIN setup'[s] = SetupFields /\ setup'[s].pc = setup[s].pc
              /\ setup'[s].up = setup[s].up /\ setup'[s].port = setup[s].port
              /\ setup'[s].heard = setup[s].heard
    BY DEF IInv, Shapes, SetupFields
  <1>1. Shapes'  BY <1>0 DEF IInv, Shapes
  <1>2. OneEngineEach'  BY <1>0 DEF IInv, OneEngineEach
  <1>3. ProbeWillHear'  BY <1>0 DEF IInv, ProbeWillHear, EngineAhead
  <1> QED  BY <1>1, <1>2, <1>3 DEF IInv

\* With the process die its engines and its setups together.
LEMMA KillStep == ASSUME IInv, Kill PROVE IInv'
  <1> USE DEF Kill
  <1>1. Shapes'  BY DEF IInv, Shapes, SetupFields, EngineFields, NoSetup, NoEngine
  <1>2. OneEngineEach'
    BY DEF IInv, OneEngineEach, BeforeStart, Unpacking, NoSetup, NoEngine, Unfinished, Working, Connecting, AtWork
  <1>3. ProbeWillHear'
    BY DEF IInv, ProbeWillHear, Unpacking, NoSetup, Unfinished, Working, Connecting, AtWork
  <1> QED  BY <1>1, <1>2, <1>3 DEF IInv

\* The invariant is inductive.
LEMMA NextIInv == IInv /\ [Next]_vars => IInv'
  <1> SUFFICES ASSUME IInv, [Next]_vars PROVE IInv'  OBVIOUS
  <1>1. ASSUME NEW s \in Setups, Begin(s) \/ Destroy(s) \/ SetupStep(s) \/ CopyFails(s) \/ NodeStep(s)
        PROVE IInv'
    <2>1. CASE Destroy(s) \/ Wipe(s)
      BY <2>1, FrameStep DEF Destroy, Wipe, UnchangedBySetup
    <2> QED  BY <1>1, <2>1, BeginStep, ProbeStep, StartStep, SetupSteps, NodeSteps
  <1>2. ASSUME NEW p \in Ports, Take(p) \/ Leave(p) PROVE IInv'
    BY <1>2, TakeStep, FrameStep DEF Leave
  <1>3. CASE Evict  BY <1>3, FrameStep DEF Evict
  <1>4. CASE Kill  BY <1>4, KillStep
  <1>5. CASE UNCHANGED vars  BY <1>5, FrameStep DEF vars
  <1> QED  BY <1>1, <1>2, <1>3, <1>4, <1>5 DEF Next

\* An engine comes into being in Start alone.
LEMMA OnlyStartBoots ==
  ASSUME IInv, Next, NEW s \in Setups, engine[s].pc = "none", engine'[s].pc = "booting"
  PROVE  setup[s].pc = "starting"
  <1>0. s \in DOMAIN engine /\ \A e \in Setups : DOMAIN engine[e] = EngineFields
    BY DEF IInv, Shapes
  <1>1. engine' # engine  OBVIOUS
  <1>2. ASSUME NEW r \in Setups, Start(r) PROVE setup[s].pc = "starting"
    BY <1>0, <1>2 DEF Start
  <1>3. ASSUME NEW r \in Setups, NodeStep(r) PROVE FALSE
    BY <1>0, <1>3 DEF NodeStep, Load, TryListen, EngineFields
  <1>4. ~Kill  BY DEF Kill, NoEngine
  <1>5. ASSUME NEW r \in Setups, SetupStep(r) \/ CopyFails(r) PROVE Start(r)
    BY <1>1, <1>5 DEF SetupStep, Probe, Sync, Check, Wipe, WipeEnds, OpenAsset, CloseAsset, CopyFails,
                      Mark, CheckEntry, Pick, ReadPort, Connect, TryFails, GiveUp, Cancelled
  <1> QED  BY <1>1, <1>2, <1>3, <1>4, <1>5 DEF Next, Begin, Destroy, Take, Leave, Evict

\* A setup that begins while Node listens on a scanned port never starts a second
\* engine, however many setups overlap and whatever the flag says
\* (SchedulerService.kt:74-90, 161-184).
THEOREM OneEngineWhileListening == Spec => NoEngineBesideAListeningOne
  <1> DEFINE Alone == \A s \in Setups :
                (engine[s].pc = "none" /\ engine'[s].pc = "booting") => ~setup[s].up
  <1>1. IInv /\ [Next]_vars => [Alone]_vars
    BY OnlyStartBoots DEF IInv, ProbeWillHear
  <1> QED  BY <1>1, InitIInv, NextIInv, PTL DEF Spec, NoEngineBesideAListeningOne

-----------------------------------------------------------------------------
(* The files *)

States == {"none", "wrong", "whole"}

\* The copying keeps to the assets, and to the scripts when it refreshes.
Typed(s) ==
    /\ setup[s].ahead \subseteq Assets /\ setup[s].file \in Assets \cup {NoFile}
    /\ setup[s].pc = "refreshing" =>
          setup[s].ahead \subseteq Scripts /\ setup[s].file \in Scripts \cup {NoFile}
    /\ setup[s].pc \in {"probing", "syncing", "checking", "wiping"} => setup[s].file = NoFile

\* Where no two setups have overlapped, one is at work at most.
WorksAlone == \A r, s \in Setups : Working(r) /\ Working(s) => r = s

\* All but the scripts is whole, or lost.
RestWhole == \A f \in Assets \ Scripts : tree[f] = "whole" \/ f \in lost

\* What a file that setup s has come to should be.
CopyState(s, f) == IF f = setup[s].file THEN "wrong" ELSE "whole"

\* While the tree is wiped, marker or sentinels give it away; while it is copied the
\* marker is not written, and what has been copied is whole or lost.
TrustedFor(s) ==
    /\ setup[s].pc = "wiping" => ~UpToDate
    /\ setup[s].pc = "copying" =>
          /\ marker # "current"
          /\ \A f \in Assets \ setup[s].ahead : tree[f] = CopyState(s, f) \/ f \in lost
    /\ setup[s].pc = "refreshing" /\ marker = "current" => RestWhole

\* What a setup has copied, and every sentinel it has seen or copied, is there but for
\* files missed since it began.
ThereFor(s) ==
    /\ setup[s].pc = "copying" =>
          \A f \in (Assets \ setup[s].ahead) \ missed : tree[f] = CopyState(s, f)
    /\ setup[s].pc = "refreshing" =>
          \A f \in (Scripts \ setup[s].ahead) \ missed : tree[f] = CopyState(s, f)
    /\ setup[s].pc \in {"picking", "starting"} => \A f \in Scripts \ missed : tree[f] = "whole"
    /\ setup[s].pc \in {"refreshing", "picking", "starting"} =>
          \A f \in Sentinels \ missed : tree[f] # "none"

\* TrustedTreeIsWhole, but for overlapping.
Trust == UpToDate => RestWhole

\* The invariant on the files.
TreeInv ==
    /\ tree \in [Assets -> States]
    /\ \A s \in Setups : Typed(s)
    /\ ~overlapped => /\ WorksAlone
                      /\ Trust
                      /\ \A s \in Setups : TrustedFor(s) /\ ThereFor(s)

\* It holds initially, for an empty cache and for an unpacked one.
LEMMA InitTreeInv == Init => TreeInv
  <1> SUFFICES ASSUME Init PROVE TreeInv  OBVIOUS
  <1>1. \A s \in Setups : Typed(s) /\ TrustedFor(s) /\ ThereFor(s)
    BY DEF Init, NoSetup, Typed, TrustedFor, ThereFor
  <1>2. WorksAlone  BY DEF Init, NoSetup, WorksAlone, Working, AtWork
  <1>3. Trust  BY DEF Init, Trust, UpToDate, RestWhole
  <1>4. tree \in [Assets -> States]  BY DEF Init, States
  <1> QED  BY <1>1, <1>2, <1>3, <1>4 DEF TreeInv

\* A step of a setup at work need be looked at for that setup only, since no other is at
\* work.
LEMMA OneAtWork ==
  ASSUME IInv, TreeInv, NEW s \in Setups, Working(s),
         UNCHANGED overlapped, \A q \in Setups \ {s} : setup'[q] = setup[q],
         tree' \in [Assets -> States], Typed(s)',
         ~overlapped => Trust' /\ TrustedFor(s)' /\ ThereFor(s)'
  PROVE  TreeInv'
  <1>2. \A q \in Setups : Typed(q)'  BY DEF TreeInv, Typed
  <1>3. ASSUME ~overlapped PROVE \A q \in Setups \ {s} : ~Working(q) /\ ~Working(q)'
    BY <1>3 DEF TreeInv, WorksAlone, Working
  <1>4. ASSUME ~overlapped, NEW q \in Setups \ {s} PROVE TrustedFor(q)' /\ ThereFor(q)'
    BY <1>3, <1>4 DEF TrustedFor, ThereFor, Working, AtWork
  <1>5. ~overlapped => WorksAlone'  BY <1>3 DEF WorksAlone
  <1> QED  BY <1>2, <1>4, <1>5 DEF TreeInv

\* Steps that leave the cache and the copying of the setups alone.
LEMMA OthersStep ==
  ASSUME IInv, TreeInv, UNCHANGED <<tree, marker, lost, missed, overlapped>>,
         \A s \in Setups : /\ setup'[s].pc = setup[s].pc
                           /\ setup'[s].ahead = setup[s].ahead /\ setup'[s].file = setup[s].file
  PROVE  TreeInv'
  BY DEF TreeInv, Typed, WorksAlone, Working, Trust, RestWhole, UpToDate, TrustedFor, ThereFor, CopyState

\* What the invariants say of one setup.
LEMMA SetupFacts ==
  ASSUME IInv, TreeInv, NEW s \in Setups
  PROVE  /\ DOMAIN setup = Setups /\ DOMAIN setup[s] = SetupFields /\ Typed(s)
         /\ tree \in [Assets -> States]
         /\ ~overlapped => Trust /\ TrustedFor(s) /\ ThereFor(s)
  BY DEF IInv, Shapes, TreeInv

\* The steps of a setup that leave the cache alone; CheckEntry comes when all scripts have
\* been copied.
LEMMA CacheUntouched ==
  ASSUME IInv, TreeInv, NEW s \in Setups,
         \/ Probe(s) \/ Sync(s) \/ CheckEntry(s) \/ Pick(s) \/ Start(s)
         \/ ReadPort(s) \/ Connect(s) \/ TryFails(s) \/ GiveUp(s) \/ Cancelled(s)
  PROVE  TreeInv'
  <1>0. /\ UNCHANGED <<tree, marker, lost, missed, overlapped>>
        /\ DOMAIN setup' = Setups
        /\ \A q \in Setups \ {s} : setup'[q] = setup[q]
        /\ setup'[s].ahead = setup[s].ahead /\ setup'[s].file = setup[s].file
    BY SetupFacts DEF Probe, Sync, CheckEntry, Pick, Start, ReadPort, Connect, TryFails, GiveUp, Cancelled,
                   UnchangedBySetup, cache, Go, SetupFields
  <1>1. \/ Working(s) /\ setup'[s].pc \in {"probing", "syncing", "checking"} /\ setup[s].file = NoFile
        \/ CheckEntry(s) /\ setup'[s].pc \in {"picking", "reading"}
        \/ setup[s].pc = "picking" /\ setup'[s].pc = "starting"
        \/ setup[s].pc = "starting" /\ setup'[s].pc = "reading"
        \/ setup'[s].pc \notin AtWork
    <2> USE SetupFacts DEF Go, SetupFields, Working, AtWork, Typed
    <2>1. CASE Probe(s)  BY <2>1 DEF Probe
    <2>2. CASE Sync(s)  BY <2>2 DEF Sync
    <2>3. CASE CheckEntry(s)  BY <2>3 DEF CheckEntry
    <2>4. CASE Pick(s)  BY <2>4 DEF Pick
    <2>5. CASE Start(s)  BY <2>5 DEF Start
    <2>6. CASE ReadPort(s)  BY <2>6 DEF ReadPort
    <2>7. CASE Connect(s)  BY <2>7 DEF Connect
    <2>8. CASE TryFails(s) \/ GiveUp(s) \/ Cancelled(s)  BY <2>8 DEF TryFails, GiveUp, Cancelled
    <2> QED  BY <2>1, <2>2, <2>3, <2>4, <2>5, <2>6, <2>7, <2>8
  <1>2. CASE setup'[s].pc \notin AtWork
    <2>1. \A q \in Setups : setup'[q].pc = setup[q].pc \/ setup'[q].pc \notin AtWork
      BY <1>0, <1>2
    <2>2. \A q \in Setups : Typed(q)'  BY <1>0, <1>2 DEF TreeInv, Typed, AtWork
    <2>3. ~overlapped => WorksAlone'  BY <2>1 DEF TreeInv, WorksAlone, Working
    <2>4. Trust' <=> Trust  BY <1>0 DEF Trust, UpToDate, RestWhole
    <2>5. ASSUME ~overlapped, NEW q \in Setups PROVE TrustedFor(q)' /\ ThereFor(q)'
      <3>1. TrustedFor(q) /\ ThereFor(q)  BY <2>5 DEF TreeInv
      <3> QED  BY <1>0, <1>2, <3>1 DEF TrustedFor, ThereFor, CopyState, RestWhole, UpToDate, AtWork
    <2> QED  BY <1>0, <2>2, <2>3, <2>4, <2>5 DEF TreeInv
  <1>3. CASE setup'[s].pc \in AtWork
    <2>1. Working(s)  BY <1>1, <1>3 DEF Working, AtWork, CheckEntry
    <2>2. Typed(s)'  BY <1>0, <1>1, <1>3, SetupFacts DEF Typed
    <2>3. ASSUME ~overlapped PROVE Trust' /\ TrustedFor(s)' /\ ThereFor(s)'
      <3>1. Trust'  BY <1>0, <2>3, SetupFacts DEF Trust, UpToDate, RestWhole
      <3>2. TrustedFor(s)'  BY <1>1, <1>3 DEF TrustedFor
      <3>3. ThereFor(s)'
        <4>1. CASE CheckEntry(s)
          BY <1>0, <2>3, <4>1, SetupFacts, EngineStartAssumption
          DEF CheckEntry, Go, Copied, SetupFields, ThereFor, CopyState
        <4>2. CASE setup[s].pc = "picking" /\ setup'[s].pc = "starting"
          <5>1. ThereFor(s)  BY <2>3, SetupFacts
          <5> QED  BY <1>0, <4>2, <5>1 DEF ThereFor
        <4>3. CASE setup'[s].pc \in {"probing", "syncing", "checking", "reading"}
          BY <4>3 DEF ThereFor
        <4> QED  BY <1>1, <1>3, <4>1, <4>2, <4>3
      <3> QED  BY <3>1, <3>2, <3>3
    <2> QED  BY <1>0, <2>1, <2>2, <2>3, SetupFacts, OneAtWork
  <1> QED  BY <1>2, <1>3

\* Check trusts the tree only where marker and sentinels do.
LEMMA CheckTree == ASSUME IInv, TreeInv, NEW s \in Setups, Check(s) PROVE TreeInv'
  <1> USE DEF Check, UnchangedBySetup, cache
  <1>0. s \in DOMAIN setup /\ DOMAIN setup[s] = SetupFields /\ Typed(s) /\ Working(s)
    BY DEF IInv, Shapes, TreeInv, Working, AtWork
  <1>1. Typed(s)'  BY <1>0, EngineStartAssumption DEF SetupFields, Typed
  <1>2. ASSUME ~overlapped PROVE Trust' /\ TrustedFor(s)' /\ ThereFor(s)'
    <2>1. Trust'  BY <1>2 DEF TreeInv, Trust, UpToDate, RestWhole
    <2>2. TrustedFor(s)'
      BY <1>0, <1>2 DEF TreeInv, Trust, UpToDate, RestWhole, TrustedFor, SetupFields
    <2>3. ThereFor(s)'  BY <1>0 DEF ThereFor, UpToDate, SetupFields
    <2> QED  BY <2>1, <2>2, <2>3
  <1> QED  BY <1>0, <1>1, <1>2, SetupFacts, OneAtWork

\* Wiping takes files and marker away and so never makes the tree look up to date.
LEMMA WipeTree == ASSUME IInv, TreeInv, NEW s \in Setups, Wipe(s) PROVE TreeInv'
  <1> USE DEF Wipe, UnchangedBySetup
  <1>0. Working(s)  BY DEF Working, AtWork
  <1>1. Typed(s)'  BY SetupFacts DEF Typed
  <1>2. tree' \in [Assets -> States]  BY SetupFacts DEF States
  <1>3. ASSUME ~overlapped, UpToDate' PROVE UpToDate
    BY <1>3, SetupFacts, EngineStartAssumption DEF UpToDate
  <1>4. ASSUME ~overlapped PROVE Trust' /\ TrustedFor(s)' /\ ThereFor(s)'
    BY <1>3, <1>4, SetupFacts DEF TrustedFor, ThereFor, Trust
  <1> QED  BY <1>0, <1>1, <1>2, <1>4, SetupFacts, OneAtWork

\* When the tree is gone, the marker is too, and all files are ahead.
LEMMA WipeEndsTree == ASSUME IInv, TreeInv, NEW s \in Setups, WipeEnds(s) PROVE TreeInv'
  <1> USE DEF WipeEnds, UnchangedBySetup
  <1>0. Working(s)  BY DEF Working, AtWork
  <1>1. Typed(s)'  BY SetupFacts DEF Typed, SetupFields
  <1>2. Trust' /\ TrustedFor(s)' /\ ThereFor(s)'
    BY SetupFacts DEF TrustedFor, ThereFor, Trust, UpToDate, SetupFields
  <1> QED  BY <1>0, <1>1, <1>2, SetupFacts, OneAtWork

\* A truncated file is the one being copied; after the marker it is a script.
LEMMA OpenAssetTree == ASSUME IInv, TreeInv, NEW s \in Setups, OpenAsset(s) PROVE TreeInv'
  <1> USE DEF OpenAsset, Copying, UnchangedBySetup
  <1> DEFINE f == First(setup[s].ahead)
  <1>0. Working(s) /\ f \in setup[s].ahead  BY DEF Working, AtWork, First
  <1> HIDE DEF f
  <1>1. /\ setup'[s].pc = setup[s].pc /\ setup'[s].file = f /\ setup'[s].ahead = setup[s].ahead \ {f}
        /\ tree' = [tree EXCEPT ![f] = "wrong"]
    BY SetupFacts DEF SetupFields, f
  <1>2. Typed(s)' /\ tree' \in [Assets -> States]  BY <1>0, <1>1, SetupFacts DEF Typed, States
  <1>3. ASSUME ~overlapped PROVE Trust' /\ TrustedFor(s)' /\ ThereFor(s)'
    <2>1. CASE setup[s].pc = "copying"
      BY <1>0, <1>1, <1>3, <2>1, SetupFacts, EngineStartAssumption
      DEF Typed, TrustedFor, ThereFor, CopyState, Trust, UpToDate
    <2>2. CASE setup[s].pc = "refreshing"
      <3>1. f \in Scripts  BY <1>0, <2>2, SetupFacts DEF Typed
      <3>2. Trust' /\ TrustedFor(s)'
        BY <1>1, <1>3, <2>2, <3>1, SetupFacts DEF TrustedFor, Trust, UpToDate, RestWhole
      <3>3. ThereFor(s)'
        BY <1>1, <1>3, <2>2, <3>1, SetupFacts, EngineStartAssumption DEF Typed, ThereFor, CopyState
      <3> QED  BY <3>2, <3>3
    <2> QED  BY <2>1, <2>2
  <1> QED  BY <1>0, <1>2, <1>3, SetupFacts, OneAtWork

\* A file is whole when its copy is closed, unless it was taken away meanwhile.
LEMMA CloseAssetTree == ASSUME IInv, TreeInv, NEW s \in Setups, CloseAsset(s) PROVE TreeInv'
  <1> USE DEF CloseAsset, Copying, UnchangedBySetup
  <1> DEFINE f == setup[s].file
  <1>0. Working(s) /\ f \in Assets  BY SetupFacts DEF Working, AtWork, Typed
  <1>1. /\ setup'[s].pc = setup[s].pc /\ setup'[s].file = NoFile /\ setup'[s].ahead = setup[s].ahead
        /\ tree' = [tree EXCEPT ![f] = IF @ = "wrong" THEN "whole" ELSE @]
        /\ lost' = IF tree[f] = "wrong" THEN lost \ {f} ELSE lost
        /\ \A q \in Setups \ {s} : setup'[q] = setup[q]
    BY SetupFacts DEF SetupFields
  <1>2. Typed(s)' /\ tree' \in [Assets -> States]  BY <1>0, <1>1, SetupFacts DEF Typed, States
  <1>3. \A g \in Assets : tree[g] = "whole" \/ g \in lost => tree'[g] = "whole" \/ g \in lost'
    BY <1>0, <1>1, SetupFacts DEF States
  <1>4. \A g \in Sentinels : (tree'[g] = "none") = (tree[g] = "none")
    BY <1>0, <1>1, SetupFacts, EngineStartAssumption DEF States
  <1>5. ASSUME ~overlapped PROVE Trust' /\ TrustedFor(s)' /\ ThereFor(s)'
    <2>1. Trust'  BY <1>3, <1>4, <1>5, SetupFacts DEF Trust, UpToDate, RestWhole
    <2>2. TrustedFor(s)'
      BY <1>0, <1>1, <1>3, <1>5, SetupFacts, EngineStartAssumption DEF TrustedFor, CopyState, RestWhole
    <2>3. ThereFor(s)'
      BY <1>0, <1>1, <1>4, <1>5, SetupFacts, EngineStartAssumption DEF ThereFor, CopyState
    <2> QED  BY <2>1, <2>2, <2>3
  <1> QED  BY <1>0, <1>1, <1>2, <1>5, OneAtWork

\* A file whose copy fails is lost and missed.
LEMMA CopyFailsTree == ASSUME IInv, TreeInv, NEW s \in Setups, CopyFails(s) PROVE TreeInv'
  <1> USE DEF CopyFails, Copying, Copied, Lose, UnchangedBySetup
  <1> DEFINE f == IF setup[s].file = NoFile THEN First(setup[s].ahead) ELSE setup[s].file
  <1>0. Working(s)  BY DEF Working, AtWork
  <1>1. /\ setup'[s].pc = setup[s].pc /\ setup'[s].file = NoFile
        /\ setup'[s].ahead = setup[s].ahead \ {f}
        /\ UNCHANGED <<tree, marker>> /\ lost' = lost \cup {f} /\ missed' = missed \cup {f}
        /\ \A q \in Setups \ {s} : setup'[q] = setup[q]
    BY SetupFacts DEF SetupFields
  <1>2. setup[s].file \in {NoFile, f} BY DEF f
  <1> HIDE DEF f
  <1>3. Typed(s)' /\ tree' \in [Assets -> States]  BY <1>1, SetupFacts DEF Typed
  <1>4. ASSUME ~overlapped PROVE Trust' /\ TrustedFor(s)' /\ ThereFor(s)'
    <2>1. Trust'  BY <1>1, <1>4, SetupFacts DEF Trust, UpToDate, RestWhole
    <2>2. TrustedFor(s)'
      BY <1>1, <1>2, <1>4, SetupFacts, EngineStartAssumption
      DEF TrustedFor, CopyState, RestWhole, UpToDate
    <2>3. ThereFor(s)'
      BY <1>1, <1>2, <1>4, SetupFacts, EngineStartAssumption DEF ThereFor, CopyState
    <2> QED  BY <2>1, <2>2, <2>3
  <1> QED  BY <1>0, <1>1, <1>3, <1>4, OneAtWork

\* The marker is written when all assets have been copied.
LEMMA MarkTree == ASSUME IInv, TreeInv, NEW s \in Setups, Mark(s) PROVE TreeInv'
  <1> USE DEF Mark, Copied, UnchangedBySetup
  <1>0. Working(s)  BY DEF Working, AtWork
  <1>1. /\ setup'[s].pc = "refreshing" /\ setup'[s].file = NoFile /\ setup'[s].ahead = Scripts
        /\ UNCHANGED <<tree, lost, missed>>
        /\ \A q \in Setups \ {s} : setup'[q] = setup[q]
    BY SetupFacts DEF SetupFields
  <1>2. Typed(s)' /\ tree' \in [Assets -> States]
    BY <1>1, SetupFacts, EngineStartAssumption DEF Typed
  <1>3. ASSUME ~overlapped PROVE Trust' /\ TrustedFor(s)' /\ ThereFor(s)'
    <2>1. /\ \A f \in Assets : tree[f] = "whole" \/ f \in lost
          /\ \A f \in Assets \ missed : tree[f] = "whole"
      BY <1>3, SetupFacts, EngineStartAssumption DEF TrustedFor, ThereFor, CopyState
    <2> QED
      BY <1>1, <2>1, EngineStartAssumption DEF Trust, RestWhole, TrustedFor, ThereFor
  <1> QED  BY <1>0, <1>1, <1>2, <1>3, OneAtWork

\* What Android takes is lost and missed, and never makes the tree look up to date.
LEMMA EvictTree == ASSUME IInv, TreeInv, Evict PROVE TreeInv'
  <1> USE DEF Evict, Lose
  <1>0. PICK g \in Assets \cup {NoFile} :
          \/ g \in Assets /\ tree' = [tree EXCEPT ![g] = "none"] /\ lost' = lost \cup {g}
             /\ missed' = missed \cup {g} /\ UNCHANGED marker
          \/ marker' = "none" /\ UNCHANGED <<tree, lost, missed>>
    OBVIOUS
  <1>1. UNCHANGED <<setup, overlapped>>  OBVIOUS
  <1>2. \A s \in Setups : Typed(s)'  BY <1>1 DEF TreeInv, Typed
  <1>3. tree' \in [Assets -> States]  BY <1>0 DEF TreeInv, States
  <1>4. \A f \in Assets : /\ tree'[f] # tree[f] => tree'[f] = "none" /\ f \in lost' /\ f \in missed'
                          /\ f \in lost => f \in lost'
    BY <1>0 DEF TreeInv
  <1>5. UpToDate' => UpToDate  BY <1>0, EngineStartAssumption DEF UpToDate, TreeInv
  <1>6. Trust => Trust'  BY <1>0, <1>4, <1>5 DEF Trust, RestWhole
  <1>7. ASSUME ~overlapped, NEW s \in Setups PROVE TrustedFor(s)' /\ ThereFor(s)'
    <2>1. Typed(s) /\ TrustedFor(s) /\ ThereFor(s)  BY <1>7 DEF TreeInv
    <2>2. TrustedFor(s)'
      BY <1>0, <1>1, <1>4, <1>5, <2>1 DEF TrustedFor, CopyState, RestWhole
    <2>3. ThereFor(s)'
      BY <1>1, <1>4, <2>1, EngineStartAssumption DEF ThereFor, CopyState, Typed
    <2> QED  BY <2>2, <2>3
  <1>8. WorksAlone' <=> WorksAlone  BY <1>1 DEF WorksAlone, Working
  <1> QED  BY <1>1, <1>2, <1>3, <1>6, <1>7, <1>8 DEF TreeInv

\* After a death nobody is at work; an update leaves no current marker.
LEMMA KillTree == ASSUME IInv, TreeInv, Kill PROVE TreeInv'
  <1> USE DEF Kill
  <1>1. \A s \in Setups : \/ setup'[s] = setup[s] /\ setup[s].pc \notin AtWork
                          \/ setup'[s] = [NoSetup EXCEPT !.pc = "dead"]
    BY DEF Unfinished, Working
  <1>2. \A s \in Setups : setup'[s].pc \notin AtWork /\ Typed(s)'
    BY <1>1 DEF NoSetup, TreeInv, Typed, AtWork
  <1>3. tree' \in [Assets -> States]  BY DEF TreeInv, States
  <1>4. ~overlapped => Trust'  BY DEF TreeInv, Trust, UpToDate, RestWhole
  <1>5. \A s \in Setups : TrustedFor(s)' /\ ThereFor(s)'
    BY <1>2 DEF TrustedFor, ThereFor, AtWork
  <1>6. WorksAlone'  BY <1>2 DEF WorksAlone, Working
  <1> QED  BY <1>2, <1>3, <1>4, <1>5, <1>6 DEF TreeInv

\* A setup that begins beside another at work ends the claim (overlapped), and one that
\* begins alone has missed nothing yet.
LEMMA BeginTree == ASSUME IInv, TreeInv, NEW s \in Setups, Begin(s) PROVE TreeInv'
  <1>1. /\ UNCHANGED <<tree, marker, lost>>
        /\ \A q \in Setups \ {s} : setup'[q] = setup[q]
        /\ setup'[s].pc \in {"skipped", "probing"} /\ setup'[s].ahead = {} /\ setup'[s].file = NoFile
        /\ ~overlapped' => ~overlapped /\ \A q \in Setups : setup[q].pc \notin AtWork
    BY SetupFacts DEF Begin, NoSetup, Working
  <1>2. \A q \in Setups : Typed(q)'  BY <1>1 DEF TreeInv, Typed
  <1>3. ASSUME ~overlapped'
        PROVE  /\ WorksAlone' /\ Trust'
               /\ \A q \in Setups : TrustedFor(q)' /\ ThereFor(q)'
    <2>1. \A q \in Setups : setup'[q].pc \in AtWork => setup'[q].pc = "probing" /\ q = s
      BY <1>1, <1>3 DEF AtWork
    <2>2. WorksAlone'  BY <2>1 DEF WorksAlone, Working
    <2>3. Trust'  BY <1>1, <1>3 DEF TreeInv, Trust, UpToDate, RestWhole
    <2>4. \A q \in Setups : TrustedFor(q)' /\ ThereFor(q)'
      BY <2>1 DEF TrustedFor, ThereFor, AtWork
    <2> QED  BY <2>2, <2>3, <2>4
  <1> QED  BY <1>1, <1>2, <1>3 DEF TreeInv

\* The invariant on the files is inductive beside the one on engines.
LEMMA NextTreeInv == IInv /\ TreeInv /\ [Next]_vars => TreeInv'
  <1> SUFFICES ASSUME IInv, TreeInv, [Next]_vars PROVE TreeInv'  OBVIOUS
  <1>1. ASSUME NEW s \in Setups, Begin(s) \/ Destroy(s) \/ SetupStep(s) \/ CopyFails(s) \/ NodeStep(s)
        PROVE TreeInv'
    <2>1. CASE Destroy(s) \/ NodeStep(s)
      BY <2>1, OthersStep DEF Destroy, NodeStep, Load, TryListen, UnchangedByNode, cache
    <2> QED  BY <1>1, <2>1, BeginTree, CacheUntouched, CheckTree, WipeTree, WipeEndsTree,
                OpenAssetTree, CloseAssetTree, CopyFailsTree, MarkTree DEF SetupStep
  <1>2. ASSUME NEW p \in Ports, Take(p) \/ Leave(p) PROVE TreeInv'
    <2>1. \A s \in Setups : /\ setup'[s].pc = setup[s].pc /\ setup'[s].ahead = setup[s].ahead
                            /\ setup'[s].file = setup[s].file
      BY <1>2, SetupFacts DEF Take, Leave, SetupFields
    <2> QED  BY <1>2, <2>1, OthersStep DEF Take, Leave, cache
  <1>3. CASE Evict  BY <1>3, EvictTree
  <1>4. CASE Kill  BY <1>4, KillTree
  <1>5. CASE UNCHANGED vars  BY <1>5, OthersStep DEF vars, cache
  <1> QED  BY <1>1, <1>2, <1>3, <1>4, <1>5 DEF Next

\* An unpacking that was interrupted anywhere, and an update of the app, are noticed: a tree
\* that marker and sentinels declare up to date is whole, but for the scripts copied at each
\* start and files evicted or not copied since (SchedulerService.kt:105-135).
THEOREM TrustedTree == Spec => []TrustedTreeIsWhole
  <1>1. TreeInv => TrustedTreeIsWhole  BY DEF TreeInv, Trust, RestWhole, TrustedTreeIsWhole
  <1> QED  BY <1>1, InitIInv, NextIInv, InitTreeInv, NextTreeInv, PTL DEF Spec

\* Node is started on whole scripts and with every sentinel, but for files lost since its
\* setup began (SchedulerService.kt:108-149).
THEOREM FilesAtStart == Spec => []NodeFindsItsFiles
  <1>1. TreeInv => NodeFindsItsFiles  BY DEF TreeInv, ThereFor, NodeFindsItsFiles
  <1> QED  BY <1>1, InitIInv, NextIInv, InitTreeInv, NextTreeInv, PTL DEF Spec

-----------------------------------------------------------------------------
(* Types and ports *)

SetupPcs == AtWork \cup {"none", "skipped", "waiting", "retrying", "wired", "failed", "cancelled", "aborted", "dead"}
SetupRecord ==
    [pc : SetupPcs, heard : BOOLEAN, port : Scan, ahead : SUBSET Assets,
     file : Assets \cup {NoFile}, up : BOOLEAN, owed : BOOLEAN]
EnginePcs == {"none", "booting", "binding", "listening", "ended", "dead"}
EngineRecord == [pc : EnginePcs, port : Ports, attempts : 0 .. MaxPortAttempts]

\* The types.  Kotlin stays on the scanned ports, Node on those it may reach.
TypeOK ==
    /\ started \in BOOLEAN /\ activePort \in Scan /\ channel \in BOOLEAN
    /\ begun \in 0 .. MaxSetups /\ destroyed \subseteq 1 .. begun
    /\ setup \in [Setups -> SetupRecord]
    /\ engine \in [Setups -> EngineRecord]
    /\ others \in [Ports -> {"absent", "mute", "answering"}]
    /\ tree \in [Assets -> States] /\ marker \in {"none", "other", "current"}
    /\ lost \subseteq Assets /\ missed \subseteq Assets
    /\ overlapped \in BOOLEAN
    /\ faults \in 0 .. MaxFaults /\ takes \in 0 .. faults

\* A Node that looks for a port has a try left, and the tries it has end within Ports.
PortsFit ==
    \A e \in Setups : engine[e].pc \in {"booting", "binding"} =>
        /\ engine[e].attempts >= 1
        /\ engine[e].port + engine[e].attempts < DefaultPort + MaxPortScan + MaxPortAttempts

TypeInv == TypeOK /\ PortsFit

\* What arithmetic on the ports rests on.
LEMMA PortFacts ==
    /\ {DefaultPort, MaxPortScan, MaxPortAttempts, MaxSetups} \subseteq Nat \ {0} /\ MaxFaults \in Nat
    /\ Scan \subseteq Ports /\ DefaultPort \in Scan
    /\ \A p \in Scan : p \in Nat /\ p <= DefaultPort + MaxPortScan - 1
    /\ \A p \in Scan : RequestedPort[p] \in Scan
  <1>1. /\ {DefaultPort, MaxPortScan, MaxPortAttempts, MaxSetups} \subseteq Nat \ {0} /\ MaxFaults \in Nat
        /\ Scan \subseteq Ports /\ DefaultPort \in Scan
        /\ \A p \in Scan : p \in Nat /\ p <= DefaultPort + MaxPortScan - 1
    BY EngineStartAssumption, LauncherAssumption DEF Scan, Ports
  <1> QED  BY <1>1, RequestedPortIs

\* A file that is ahead, the port that is picked.
LEMMA ChosenFacts ==
    /\ FindAvailablePort \in Scan
    /\ \A files : files # {} => First(files) \in files
  <1>1. FindAvailablePort \in Scan
    <2> DEFINE free == {p \in Scan : Bindable(p)}
    <2>1. CASE free = {}  BY <2>1, PortFacts DEF FindAvailablePort
    <2>2. CASE free # {}
      <3>1. free \in SUBSET Nat  BY PortFacts
      <3>2. \E p \in free : \A q \in free : p <= q  BY <2>2, <3>1, LeastNat
      <3>3. (CHOOSE p \in free : \A q \in free : p <= q) \in free  BY <3>2
      <3> QED  BY <2>2, <3>3 DEF FindAvailablePort
    <2> QED  BY <2>1, <2>2
  <1> QED  BY <1>1 DEF First

\* A record of a setup stays one when fields take values of theirs.
LEMMA Records ==
  ASSUME NEW r \in SetupRecord, NEW pc \in SetupPcs, NEW port \in Scan, NEW heard \in BOOLEAN,
         NEW ahead \in SUBSET Assets, NEW file \in Assets \cup {NoFile}
  PROVE  /\ [r EXCEPT !.pc = pc] \in SetupRecord
         /\ [r EXCEPT !.port = port] \in SetupRecord
         /\ [r EXCEPT !.file = file] \in SetupRecord
         /\ [r EXCEPT !.owed = heard] \in SetupRecord
         /\ [r EXCEPT !.pc = pc, !.heard = heard] \in SetupRecord
         /\ [r EXCEPT !.pc = pc, !.port = port] \in SetupRecord
         /\ [r EXCEPT !.pc = pc, !.port = port, !.heard = heard] \in SetupRecord
         /\ [r EXCEPT !.pc = pc, !.ahead = ahead] \in SetupRecord
         /\ [r EXCEPT !.file = file, !.ahead = ahead] \in SetupRecord
         /\ [r EXCEPT !.pc = pc, !.up = heard, !.owed = heard] \in SetupRecord
  BY DEF SetupRecord

\* A setup that is replaced by a record.
Becomes(s, r) == setup' = [setup EXCEPT ![s] = r]

\* The record that a step of a setup makes of it.
LEMMA SetupTyped ==
  ASSUME TypeOK, NEW s \in Setups, SetupStep(s) \/ CopyFails(s)
  PROVE  setup' \in [Setups -> SetupRecord]
  <1> DEFINE old == setup[s]
  <1>0. /\ setup \in [Setups -> SetupRecord] /\ activePort \in Scan /\ old \in SetupRecord
        /\ old.ahead \subseteq Assets /\ old.port \in Scan /\ DOMAIN old = SetupFields
        /\ DOMAIN setup = Setups
    BY DEF TypeOK, SetupRecord, SetupFields
  <1> SUFFICES \E r \in SetupRecord : Becomes(s, r)  BY <1>0 DEF Becomes
  <1>1. /\ AtWork \subseteq SetupPcs
        /\ {"waiting", "retrying", "wired", "failed", "cancelled", "aborted"} \subseteq SetupPcs
    BY DEF SetupPcs
  <1>2. /\ {"probing", "syncing", "checking", "wiping", "copying"} \subseteq AtWork
        /\ {"refreshing", "picking", "starting", "reading"} \subseteq AtWork
    BY DEF AtWork
  <1>3. Scripts \subseteq Assets /\ {} \subseteq Assets  BY EngineStartAssumption
  <1>4. CASE Probe(s)
    <2>1. CASE Answers(old.port)
      <3>1. [old EXCEPT !.pc = "syncing", !.heard = TRUE] \in SetupRecord
        BY <1>0, <1>1, <1>2, Records, Zenon
      <3> WITNESS [old EXCEPT !.pc = "syncing", !.heard = TRUE] \in SetupRecord
      <3> QED  BY <1>0, <1>4, <2>1 DEF Probe, Becomes
    <2>2. CASE ~Answers(old.port) /\ old.port + 1 \in Scan
      <3>1. [old EXCEPT !.port = old.port + 1] \in SetupRecord  BY <1>0, <2>2, Records, <1>1, <1>2, Zenon
      <3> WITNESS [old EXCEPT !.port = old.port + 1] \in SetupRecord
      <3> QED  BY <1>0, <1>4, <2>2 DEF Probe, Becomes
    <2>3. CASE ~Answers(old.port) /\ old.port + 1 \notin Scan
      <3>1. [old EXCEPT !.pc = "syncing", !.port = DefaultPort] \in SetupRecord
        BY <1>0, <1>1, <1>2, PortFacts, Records, Zenon
      <3> WITNESS [old EXCEPT !.pc = "syncing", !.port = DefaultPort] \in SetupRecord
      <3> QED  BY <1>0, <1>4, <2>3 DEF Probe, Becomes
    <2> QED  BY <2>1, <2>2, <2>3
  <1>5. CASE Sync(s)
    <2>1. [old EXCEPT !.pc = "checking"] \in SetupRecord
      BY <1>0, <1>1, <1>2, <1>3, Records, Zenon
    <2> WITNESS [old EXCEPT !.pc = "checking"] \in SetupRecord
    <2> QED  BY <1>0, <1>5 DEF Sync, Go, Becomes
  <1>6. CASE Check(s)
    <2>1. [old EXCEPT !.pc = IF UpToDate THEN "refreshing" ELSE "wiping",
                     !.ahead = IF UpToDate THEN Scripts ELSE {}] \in SetupRecord
      BY <1>0, <1>1, <1>2, <1>3, Records, Zenon
    <2> WITNESS [old EXCEPT !.pc = IF UpToDate THEN "refreshing" ELSE "wiping",
                     !.ahead = IF UpToDate THEN Scripts ELSE {}] \in SetupRecord
    <2> QED  BY <1>0, <1>6 DEF Check, Becomes
  <1>7. CASE Wipe(s)
    <2>1. Becomes(s, old)  BY <1>0, <1>7 DEF Wipe, Becomes
    <2> QED  BY <1>0, <2>1
  <1>8. CASE WipeEnds(s)
    <2>1. [old EXCEPT !.pc = "copying", !.ahead = Assets] \in SetupRecord
      BY <1>0, <1>1, <1>2, <1>3, Records, Zenon
    <2> WITNESS [old EXCEPT !.pc = "copying", !.ahead = Assets] \in SetupRecord
    <2> QED  BY <1>0, <1>8 DEF WipeEnds, Becomes
  <1>9. CASE OpenAsset(s)
    <2> DEFINE f == First(old.ahead)
    <2>1. f \in old.ahead  BY <1>9, ChosenFacts DEF OpenAsset
    <2> HIDE DEF f
    <2>2. [old EXCEPT !.file = f, !.ahead = old.ahead \ {f}] \in SetupRecord
      BY <1>0, <1>1, <1>2, <2>1, Records, Zenon
    <2> WITNESS [old EXCEPT !.file = f, !.ahead = old.ahead \ {f}] \in SetupRecord
    <2> QED  BY <1>0, <1>9 DEF OpenAsset, Becomes, f
  <1>10. CASE CloseAsset(s)
    <2>1. [old EXCEPT !.file = NoFile] \in SetupRecord
      BY <1>0, <1>1, <1>2, <1>3, Records, Zenon
    <2> WITNESS [old EXCEPT !.file = NoFile] \in SetupRecord
    <2> QED  BY <1>0, <1>10 DEF CloseAsset, Becomes
  <1>11. CASE CopyFails(s)
    <2> DEFINE f == IF old.file = NoFile THEN First(old.ahead) ELSE old.file
    <2>1. [old EXCEPT !.file = NoFile, !.ahead = old.ahead \ {f}] \in SetupRecord
      <3> HIDE DEF f
      <3> QED  BY <1>0, <1>1, <1>2, Records, Zenon
    <2> WITNESS [old EXCEPT !.file = NoFile, !.ahead = old.ahead \ {f}] \in SetupRecord
    <2> QED  BY <1>0, <1>11 DEF CopyFails, Becomes
  <1>12. CASE Mark(s)
    <2>1. [old EXCEPT !.pc = "refreshing", !.ahead = Scripts] \in SetupRecord
      BY <1>0, <1>1, <1>2, <1>3, Records, Zenon
    <2> WITNESS [old EXCEPT !.pc = "refreshing", !.ahead = Scripts] \in SetupRecord
    <2> QED  BY <1>0, <1>12 DEF Mark, Becomes
  <1>13. CASE CheckEntry(s)
    <2>1. [old EXCEPT !.pc = IF tree[EntryPoint] = "none" THEN "aborted"
                              ELSE IF old.heard THEN "reading" ELSE "picking"] \in SetupRecord
      BY <1>0, <1>1, <1>2, <1>3, Records, Zenon
    <2> WITNESS [old EXCEPT !.pc = IF tree[EntryPoint] = "none" THEN "aborted"
                              ELSE IF old.heard THEN "reading" ELSE "picking"] \in SetupRecord
    <2> QED  BY <1>0, <1>13 DEF CheckEntry, Go, Becomes
  <1>14. CASE Pick(s)
    <2>1. [old EXCEPT !.pc = "starting", !.port = FindAvailablePort] \in SetupRecord
      BY <1>0, <1>1, <1>2, <1>3, Records, ChosenFacts, Zenon
    <2> WITNESS [old EXCEPT !.pc = "starting", !.port = FindAvailablePort] \in SetupRecord
    <2> QED  BY <1>0, <1>14 DEF Pick, Becomes
  <1>15. CASE Start(s)
    <2>1. [old EXCEPT !.pc = "reading"] \in SetupRecord
      BY <1>0, <1>1, <1>2, <1>3, Records, Zenon
    <2> WITNESS [old EXCEPT !.pc = "reading"] \in SetupRecord
    <2> QED  BY <1>0, <1>15 DEF Start, Go, Becomes
  <1>16. CASE ReadPort(s)
    <2>1. [old EXCEPT !.pc = "waiting", !.port = activePort, !.heard = FALSE] \in SetupRecord
      BY <1>0, <1>1, <1>2, <1>3, Records, Zenon
    <2> WITNESS [old EXCEPT !.pc = "waiting", !.port = activePort, !.heard = FALSE] \in SetupRecord
    <2> QED  BY <1>0, <1>16 DEF ReadPort, Becomes
  <1>17. CASE Connect(s)
    <2>1. [old EXCEPT !.pc = "wired"] \in SetupRecord
      BY <1>0, <1>1, <1>2, <1>3, Records, Zenon
    <2> WITNESS [old EXCEPT !.pc = "wired"] \in SetupRecord
    <2> QED  BY <1>0, <1>17 DEF Connect, Go, Becomes
  <1>18. CASE TryFails(s)
    <2>1. [old EXCEPT !.pc = "retrying"] \in SetupRecord
      BY <1>0, <1>1, <1>2, <1>3, Records, Zenon
    <2> WITNESS [old EXCEPT !.pc = "retrying"] \in SetupRecord
    <2> QED  BY <1>0, <1>18 DEF TryFails, Go, Becomes
  <1>19. CASE GiveUp(s)
    <2>1. [old EXCEPT !.pc = "failed"] \in SetupRecord
      BY <1>0, <1>1, <1>2, <1>3, Records, Zenon
    <2> WITNESS [old EXCEPT !.pc = "failed"] \in SetupRecord
    <2> QED  BY <1>0, <1>19 DEF GiveUp, Go, Becomes
  <1>20. CASE Cancelled(s)
    <2>1. [old EXCEPT !.pc = "cancelled"] \in SetupRecord
      BY <1>0, <1>1, <1>2, <1>3, Records, Zenon
    <2> WITNESS [old EXCEPT !.pc = "cancelled"] \in SetupRecord
    <2> QED  BY <1>0, <1>20 DEF Cancelled, Go, Becomes
  <1> QED
    BY <1>4, <1>5, <1>6, <1>7, <1>8, <1>9, <1>10, <1>11, <1>12, <1>13, <1>14, <1>15, <1>16, <1>17, <1>18,
       <1>19, <1>20
    DEF SetupStep

\* A setup that has not begun and an engine that was not started are records too.
LEMMA Blank == NoSetup \in SetupRecord /\ NoEngine \in EngineRecord
  BY PortFacts DEF NoSetup, NoEngine, SetupRecord, EngineRecord, SetupPcs, EnginePcs

\* The types hold initially.
LEMMA InitTypes == Init => TypeInv
  <1> SUFFICES ASSUME Init PROVE TypeInv  OBVIOUS
  <1>1. NoSetup \in SetupRecord /\ NoEngine \in EngineRecord  BY Blank
  <1>2. /\ setup \in [Setups -> SetupRecord] /\ engine \in [Setups -> EngineRecord]
        /\ others \in [Ports -> {"absent", "mute", "answering"}]
    BY <1>1 DEF Init
  <1>3. tree \in [Assets -> States] /\ lost \subseteq Assets  BY DEF Init, States
  <1>4. 0 \in 0 .. MaxSetups /\ 0 \in 0 .. MaxFaults /\ 0 \in 0 .. 0 /\ DefaultPort \in Scan
    BY PortFacts
  <1>5. TypeOK  BY <1>2, <1>3, <1>4 DEF Init, TypeOK
  <1>6. PortsFit  BY DEF Init, PortsFit, NoEngine
  <1> QED  BY <1>5, <1>6 DEF TypeInv

\* The steps of a setup but Start leave Node alone; none changes who else is about.
LEMMA SetupKeeps ==
  ASSUME NEW s \in Setups, SetupStep(s) \/ CopyFails(s)
  PROVE  /\ Start(s) \/ UNCHANGED engine
         /\ UNCHANGED <<begun, destroyed, others, overlapped, takes>>
         /\ UNCHANGED faults \/ Fault
         /\ channel' \in {channel, TRUE} /\ started' \in {started, TRUE, setup[s].heard}
         /\ activePort' \in {activePort, setup[s].port, FindAvailablePort}
  <1> USE DEF UnchangedBySetup, shared
  <1>1. CASE Probe(s) \/ Sync(s) \/ Check(s) \/ Wipe(s) \/ WipeEnds(s)
    BY <1>1 DEF Probe, Sync, Check, Wipe, WipeEnds
  <1>2. CASE OpenAsset(s) \/ CloseAsset(s) \/ CopyFails(s) \/ Mark(s) \/ CheckEntry(s)
    BY <1>2 DEF OpenAsset, CloseAsset, CopyFails, Mark, CheckEntry
  <1>3. CASE Pick(s) \/ Start(s) \/ ReadPort(s) \/ Connect(s) \/ TryFails(s) \/ GiveUp(s) \/ Cancelled(s)
    BY <1>3 DEF Pick, Start, ReadPort, Connect, TryFails, GiveUp, Cancelled
  <1> QED  BY <1>1, <1>2, <1>3 DEF SetupStep

\* What a setup makes of the cache keeps its types.
LEMMA CacheTyped ==
  ASSUME TypeOK, NEW s \in Setups, SetupStep(s) \/ CopyFails(s)
  PROVE  /\ tree' \in [Assets -> States] /\ marker' \in {"none", "other", "current"}
         /\ lost' \subseteq Assets /\ missed' \subseteq Assets
  <1>1. /\ tree \in [Assets -> States] /\ marker \in {"none", "other", "current"}
        /\ lost \subseteq Assets /\ missed \subseteq Assets
        /\ setup[s].ahead \subseteq Assets /\ setup[s].file \in Assets \cup {NoFile}
    BY DEF TypeOK, SetupRecord
  <1> USE <1>1
  <1>2. CASE UNCHANGED cache  BY <1>2 DEF cache
  <1>3. CASE Wipe(s)  BY <1>3 DEF Wipe, States
  <1>4. CASE WipeEnds(s)  BY <1>4 DEF WipeEnds
  <1>5. CASE OpenAsset(s)  BY <1>5 DEF OpenAsset, States
  <1>6. CASE CloseAsset(s)  BY <1>6 DEF CloseAsset, States
  <1>7. CASE CopyFails(s)
    <2> DEFINE f == IF setup[s].file = NoFile THEN First(setup[s].ahead) ELSE setup[s].file
    <2>1. f \in Assets  BY <1>7, ChosenFacts DEF CopyFails, Copied
    <2>2. Lose(f) /\ UNCHANGED <<tree, marker>>  BY <1>7 DEF CopyFails
    <2> QED  BY <2>1, <2>2 DEF Lose
  <1>8. CASE Mark(s)  BY <1>8 DEF Mark
  <1> QED
    BY <1>2, <1>3, <1>4, <1>5, <1>6, <1>7, <1>8
    DEF SetupStep, Probe, Sync, Check, CheckEntry, Pick, Start, ReadPort, Connect, TryFails, GiveUp, Cancelled

\* An engine starts with all its tries, on a scanned port.
LEMMA StartTypes ==
  ASSUME TypeInv, NEW s \in Setups, Start(s)
  PROVE  engine' \in [Setups -> EngineRecord] /\ PortsFit'
  <1> DEFINE r == [pc |-> "booting", port |-> RequestedPort[setup[s].port], attempts |-> MaxPortAttempts]
  <1>1. setup[s].port \in Scan  BY DEF TypeInv, TypeOK, SetupRecord
  <1>2. /\ r.port \in Ports /\ r.port \in Nat /\ r.port <= DefaultPort + MaxPortScan - 1
        /\ r.attempts = MaxPortAttempts /\ r.attempts \in 0 .. MaxPortAttempts /\ r.attempts >= 1
        /\ r.port + r.attempts < DefaultPort + MaxPortScan + MaxPortAttempts
    BY <1>1, PortFacts
  <1>3. r \in EngineRecord  BY <1>2 DEF EngineRecord, EnginePcs
  <1>4. engine' = IF started THEN engine ELSE [engine EXCEPT ![s] = r]  BY DEF Start
  <1>5. engine \in [Setups -> EngineRecord]  BY DEF TypeInv, TypeOK
  <1> HIDE DEF r
  <1>6. engine' \in [Setups -> EngineRecord]  BY <1>3, <1>4, <1>5
  <1>7. \A e \in Setups : engine'[e] = engine[e] \/ engine'[e] = r  BY <1>4, <1>5
  <1>8. PortsFit'  BY <1>2, <1>7 DEF TypeInv, PortsFit
  <1> QED  BY <1>6, <1>8

\* tryListen goes on to the next port while it has a try left, and so stays in Ports.
LEMMA NodeTypes ==
  ASSUME TypeInv, NEW e \in Setups, NodeStep(e)
  PROVE  engine' \in [Setups -> EngineRecord] /\ PortsFit'
  <1>1. engine \in [Setups -> EngineRecord] /\ engine[e] \in EngineRecord
        /\ DOMAIN engine[e] = EngineFields
    BY DEF TypeInv, TypeOK, EngineRecord, EngineFields
  <1>2. SUFFICES \E r \in EngineRecord :
                    /\ engine' = [engine EXCEPT ![e] = r]
                    /\ r.pc \in {"booting", "binding"} =>
                          /\ r.attempts >= 1
                          /\ r.port + r.attempts < DefaultPort + MaxPortScan + MaxPortAttempts
    <2>1. PICK r \in EngineRecord :
                    /\ engine' = [engine EXCEPT ![e] = r]
                    /\ r.pc \in {"booting", "binding"} =>
                          /\ r.attempts >= 1
                          /\ r.port + r.attempts < DefaultPort + MaxPortScan + MaxPortAttempts
      BY <1>2
    <2>2. engine' \in [Setups -> EngineRecord]  BY <1>1, <2>1
    <2>3. \A d \in Setups : engine'[d] = engine[d] \/ engine'[d] = r  BY <1>1, <2>1
    <2>4. PortsFit'  BY <2>1, <2>3 DEF TypeInv, PortsFit
    <2> QED  BY <2>2, <2>4
  <1>3. ASSUME NEW pc \in EnginePcs, engine' = [engine EXCEPT ![e].pc = pc],
               engine[e].pc \in {"booting", "binding"}
        PROVE  \E r \in EngineRecord :
                    /\ engine' = [engine EXCEPT ![e] = r]
                    /\ r.pc \in {"booting", "binding"} =>
                          /\ r.attempts >= 1
                          /\ r.port + r.attempts < DefaultPort + MaxPortScan + MaxPortAttempts
    <2> DEFINE r == [engine[e] EXCEPT !.pc = pc]
    <2>1. r \in EngineRecord /\ r.port = engine[e].port /\ r.attempts = engine[e].attempts
      BY <1>1, <1>3 DEF EngineRecord
    <2>2. engine' = [engine EXCEPT ![e] = r]  BY <1>1, <1>3
    <2> HIDE DEF r
    <2> QED  BY <1>3, <2>1, <2>2 DEF TypeInv, PortsFit
  <1>4. CASE Load(e)
    <2>1. {"binding", "ended"} \subseteq EnginePcs  BY DEF EnginePcs
    <2> QED  BY <1>3, <1>4, <2>1 DEF Load
  <1>5. CASE TryListen(e)
    <2>1. {"listening", "ended"} \subseteq EnginePcs /\ engine[e].pc = "binding"
      BY <1>5 DEF EnginePcs, TryListen
    <2>2. CASE engine[e].attempts > 1 /\ engine' = [engine EXCEPT ![e].port = @ + 1, ![e].attempts = @ - 1]
      <3> DEFINE p == engine[e].port + 1
                 n == engine[e].attempts - 1
                 r == [engine[e] EXCEPT !.port = p, !.attempts = n]
      <3>1. /\ engine[e].port \in Ports /\ engine[e].attempts \in 0 .. MaxPortAttempts
            /\ engine[e].port + engine[e].attempts < DefaultPort + MaxPortScan + MaxPortAttempts
        BY <1>1, <2>1 DEF EngineRecord, TypeInv, PortsFit
      <3>2. /\ p \in Ports /\ n \in 0 .. MaxPortAttempts /\ n >= 1
            /\ p + n < DefaultPort + MaxPortScan + MaxPortAttempts
        <4>1. engine[e].port \in Nat /\ engine[e].port >= DefaultPort
          BY <3>1, PortFacts DEF Ports
        <4> QED  BY <2>2, <3>1, <4>1, PortFacts DEF Ports
      <3> HIDE DEF p, n
      <3>3. r \in EngineRecord /\ r.port = p /\ r.attempts = n  BY <1>1, <3>2 DEF EngineRecord
      <3>4. engine' = [engine EXCEPT ![e] = r]  BY <1>1, <2>2 DEF p, n
      <3> HIDE DEF r
      <3> QED  BY <3>2, <3>3, <3>4
    <2> QED  BY <1>1, <1>3, <1>5, <2>1, <2>2 DEF TryListen
  <1> QED  BY <1>4, <1>5 DEF NodeStep

\* A setup that begins, and a service that is destroyed.
LEMMA ServiceTypes ==
  ASSUME TypeInv, NEW s \in Setups, Begin(s) \/ Destroy(s)
  PROVE  TypeInv'
  <1>1. begun \in 0 .. MaxSetups /\ destroyed \subseteq 1 .. begun /\ MaxSetups \in Nat
    BY PortFacts DEF TypeInv, TypeOK
  <1>2. PortsFit'  BY DEF TypeInv, PortsFit, Begin, Destroy
  <1>3. CASE Begin(s)
    <2>1. setup' \in [Setups -> SetupRecord]
      <3> DEFINE up == \E p \in Scan : Listening(p)
                 owed == up /\ \A p \in Scan : others[p] # "answering"
                 pc == IF channel THEN "skipped" ELSE "probing"
                 r == [NoSetup EXCEPT !.pc = pc, !.up = up, !.owed = owed]
      <3>1. up \in BOOLEAN /\ owed \in BOOLEAN /\ pc \in SetupPcs  BY DEF SetupPcs, AtWork
      <3>2. setup' = [setup EXCEPT ![s] = r]  BY <1>3 DEF Begin
      <3> HIDE DEF up, owed, pc
      <3>3. r \in SetupRecord  BY <3>1, PortFacts DEF NoSetup, SetupRecord
      <3> HIDE DEF r
      <3> QED  BY <3>2, <3>3 DEF TypeInv, TypeOK
    <2>2. begun' \in 0 .. MaxSetups /\ destroyed' \subseteq 1 .. begun'
      BY <1>1, <1>3 DEF Begin, Setups
    <2>3. overlapped' \in BOOLEAN /\ missed' \subseteq Assets
      BY <1>3 DEF Begin, TypeInv, TypeOK
    <2> QED  BY <1>2, <1>3, <2>1, <2>2, <2>3 DEF Begin, TypeInv, TypeOK, shared, budgets
  <1>4. CASE Destroy(s)
    <2>1. destroyed' \subseteq 1 .. begun  BY <1>1, <1>4 DEF Destroy
    <2> QED  BY <1>2, <1>4, <2>1 DEF Destroy, TypeInv, TypeOK, cache, budgets
  <1> QED  BY <1>3, <1>4

\* A fault is counted.
LEMMA FaultCounted ==
  ASSUME TypeInv, Fault
  PROVE  faults' \in 0 .. MaxFaults /\ takes \in 0 .. faults' /\ takes + 1 \in 0 .. faults'
  BY PortFacts DEF TypeInv, TypeOK, Fault

\* Other programs, Android, and the death of the process.
LEMMA SurroundingTypes ==
  ASSUME TypeInv, (\E p \in Ports : Take(p) \/ Leave(p)) \/ Evict \/ Kill
  PROVE  TypeInv'
  <1>0. TypeOK /\ PortsFit  BY DEF TypeInv
  <1>1. ASSUME NEW p \in Ports, Take(p) PROVE TypeInv'
    <2>1. PICK how \in {"mute", "answering"} :
            /\ others' = [others EXCEPT ![p] = how]
            /\ setup' = [s \in Setups |-> IF setup[s].pc = "probing" /\ how = "answering"
                                          THEN [setup[s] EXCEPT !.owed = FALSE] ELSE setup[s]]
      BY <1>1 DEF Take
    <2>2. setup' \in [Setups -> SetupRecord]
      <3>1. \A s \in Setups : [setup[s] EXCEPT !.owed = FALSE] \in SetupRecord /\ setup[s] \in SetupRecord
        BY <1>0 DEF TypeOK, SetupRecord
      <3> QED  BY <2>1, <3>1
    <2>3. others' \in [Ports -> {"absent", "mute", "answering"}]  BY <1>0, <2>1 DEF TypeOK
    <2>4. faults' \in 0 .. MaxFaults /\ takes' \in 0 .. faults'  BY <1>1, FaultCounted DEF Take
    <2>5. PortsFit'  BY <1>0, <1>1 DEF Take, PortsFit
    <2> QED  BY <1>0, <1>1, <2>2, <2>3, <2>4, <2>5 DEF TypeInv, TypeOK, Take, shared, cache
  <1>2. ASSUME NEW p \in Ports, Leave(p) PROVE TypeInv'
    <2>1. others' \in [Ports -> {"absent", "mute", "answering"}]  BY <1>0, <1>2 DEF TypeOK, Leave
    <2>2. PortsFit'  BY <1>0, <1>2 DEF Leave, PortsFit
    <2> QED  BY <1>0, <1>2, <2>1, <2>2 DEF TypeInv, TypeOK, Leave, shared, cache, budgets
  <1>3. CASE Evict
    <2>1. /\ tree' \in [Assets -> States] /\ marker' \in {"none", "other", "current"}
          /\ lost' \subseteq Assets /\ missed' \subseteq Assets
      BY <1>0, <1>3 DEF Evict, Lose, TypeOK, States
    <2>2. faults' \in 0 .. MaxFaults /\ takes' \in 0 .. faults'  BY <1>3, FaultCounted DEF Evict
    <2>3. PortsFit'  BY <1>0, <1>3 DEF Evict, PortsFit
    <2> QED  BY <1>0, <1>3, <2>1, <2>2, <2>3 DEF TypeInv, TypeOK, Evict, shared
  <1>4. CASE Kill
    <2>1. [NoSetup EXCEPT !.pc = "dead"] \in SetupRecord /\ [NoEngine EXCEPT !.pc = "dead"] \in EngineRecord
      <3>1. "dead" \in SetupPcs /\ "dead" \in EnginePcs  BY DEF SetupPcs, EnginePcs
      <3>2. [NoSetup EXCEPT !.pc = "dead"] \in SetupRecord
        <4>1. ASSUME NEW r \in SetupRecord PROVE [r EXCEPT !.pc = "dead"] \in SetupRecord
          BY <3>1 DEF SetupRecord
        <4> QED  BY <4>1, Blank
      <3>3. ASSUME NEW r \in EngineRecord PROVE [r EXCEPT !.pc = "dead"] \in EngineRecord
        BY <3>1 DEF EngineRecord
      <3> QED  BY <3>2, <3>3, Blank
    <2>2. setup' \in [Setups -> SetupRecord] /\ engine' \in [Setups -> EngineRecord]
      BY <1>0, <1>4, <2>1 DEF TypeOK, Kill
    <2>3. tree' \in [Assets -> States] /\ marker' \in {"none", "other", "current"}
      BY <1>0, <1>4 DEF TypeOK, Kill, States
    <2>4. faults' \in 0 .. MaxFaults /\ takes' \in 0 .. faults'  BY <1>4, FaultCounted DEF Kill
    <2>5. activePort' \in Scan /\ destroyed' \subseteq 1 .. begun'  BY <1>4, PortFacts DEF Kill
    <2>6. PortsFit'  BY <1>0, <1>4 DEF Kill, PortsFit, NoEngine
    <2> QED  BY <1>0, <1>4, <2>2, <2>3, <2>4, <2>5, <2>6 DEF TypeInv, TypeOK, Kill
  <1> QED  BY <1>1, <1>2, <1>3, <1>4

\* The types are inductive, with the tries an engine has left.
LEMMA NextTypes == TypeInv /\ [Next]_vars => TypeInv'
  <1> SUFFICES ASSUME TypeInv, [Next]_vars PROVE TypeInv'  OBVIOUS
  <1>0. TypeOK /\ PortsFit  BY DEF TypeInv
  <1>1. ASSUME NEW s \in Setups, SetupStep(s) \/ CopyFails(s) PROVE TypeInv'
    <2>1. engine' \in [Setups -> EngineRecord] /\ PortsFit'
      BY <1>0, <1>1, SetupKeeps, StartTypes DEF TypeOK, PortsFit
    <2>2. setup' \in [Setups -> SetupRecord]  BY <1>0, <1>1, SetupTyped
    <2>3. setup[s].port \in Scan /\ setup[s].heard \in BOOLEAN  BY <1>0 DEF TypeOK, SetupRecord
    <2>4. started' \in BOOLEAN /\ activePort' \in Scan /\ channel' \in BOOLEAN
      BY <1>0, <1>1, <2>3, SetupKeeps, ChosenFacts DEF TypeOK
    <2>5. faults' \in 0 .. MaxFaults /\ takes' \in 0 .. faults'
      BY <1>0, <1>1, SetupKeeps, FaultCounted DEF TypeOK
    <2>6. UNCHANGED <<begun, destroyed, others, overlapped>>  BY <1>1, SetupKeeps
    <2> QED  BY <1>0, <1>1, <2>1, <2>2, <2>4, <2>5, <2>6, CacheTyped DEF TypeInv, TypeOK
  <1>2. ASSUME NEW e \in Setups, NodeStep(e) PROVE TypeInv'
    <2>1. UnchangedByNode  BY <1>2 DEF NodeStep, Load, TryListen
    <2> QED  BY <1>0, <1>2, <2>1, NodeTypes DEF TypeInv, TypeOK, UnchangedByNode, shared, cache, budgets
  <1>3. CASE UNCHANGED vars
    BY <1>0, <1>3 DEF TypeInv, TypeOK, PortsFit, vars, shared, cache, budgets
  <1> QED  BY <1>1, <1>2, <1>3, ServiceTypes, SurroundingTypes DEF Next

\* Every variable keeps its type: Kotlin never leaves the scanned ports, and tryListen of
\* index.js never the ports it may reach.
THEOREM TypeCorrect == Spec => []TypeOK
  <1>1. TypeInv => TypeOK  BY DEF TypeInv
  <1> QED  BY <1>1, InitTypes, NextTypes, PTL DEF Spec

-----------------------------------------------------------------------------
(* A setup that began beside a listening Node comes to it *)

\* Where setup s has an engine owed to it: strangers are silent while it probes, then it
\* holds the port of an engine that listens, and so does activePort until it is read.
OwedFits(s) ==
    setup[s].owed =>
        /\ setup[s].up /\ setup[s].pc # "none"
        /\ setup[s].pc = "probing" => \A p \in Scan : others[p] # "answering"
        /\ setup[s].pc \in Unpacking \cup {"reading"} => Listening(setup[s].port)
        /\ (setup[s].pc \in AtWork \ {"probing", "syncing"} /\ ~overlapped)
              => activePort = setup[s].port
        /\ setup[s].pc = "waiting" /\ ~overlapped => Listening(setup[s].port)
        /\ setup[s].pc = "retrying" => overlapped

OwedInv == \A s \in Setups : OwedFits(s)

\* The setup connects to nothing but Node, does not give up before, and without Node's
\* entry script only when that is lost: what is left of ConnectsAgain is that it takes
\* its steps.
OwedEndsAtNode ==
    [][\A s \in Setups : (setup[s].owed /\ ~overlapped /\ setup'[s].pc # setup[s].pc) =>
          /\ setup[s].pc = "waiting" => setup'[s].pc \in {"wired", "dead"}
          /\ setup'[s].pc = "wired" => Listening(setup[s].port)
          /\ setup'[s].pc = "aborted" => EntryPoint \in missed]_vars

\* Node listens until its process dies.
LEMMA ListeningStays ==
  ASSUME IInv, [Next]_vars, ~Kill, NEW p, Listening(p)
  PROVE  Listening(p)'
  <1>1. PICK e \in Setups : engine[e].pc = "listening" /\ engine[e].port = p  BY DEF Listening
  <1>2. DOMAIN engine = Setups  BY DEF IInv, Shapes
  <1>3. engine'[e] = engine[e]
    <2>1. ASSUME NEW s \in Setups, SetupStep(s) \/ CopyFails(s) PROVE engine'[e] = engine[e]
      <3>1. CASE Start(s)
        <4>1. setup[s].pc = "starting"  BY <3>1 DEF Start
        <4>2. engine[s].pc = "none"  BY <4>1 DEF IInv, OneEngineEach, BeforeStart
        <4> QED  BY <1>1, <1>2, <3>1, <4>2 DEF Start
      <3>2. CASE UNCHANGED engine  BY <3>2
      <3> QED  BY <2>1, <3>1, <3>2, SetupKeeps
    <2>2. ASSUME NEW s \in Setups, NodeStep(s) PROVE engine'[e] = engine[e]
      <3>1. engine[s].pc # "listening" /\ s # e  BY <1>1, <2>2 DEF NodeStep, Load, TryListen
      <3>2. CASE Load(s)  BY <1>2, <3>1, <3>2 DEF Load
      <3>3. CASE TryListen(s)  BY <1>2, <3>1, <3>3 DEF TryListen
      <3> QED  BY <2>2, <3>2, <3>3 DEF NodeStep
    <2> QED  BY <2>1, <2>2 DEF Next, Begin, Destroy, Take, Leave, Evict, vars
  <1> QED  BY <1>1, <1>3 DEF Listening

\* A probe that began beside a listening engine, and no stranger, ends at an engine.
LEMMA ProbeEnds ==
  ASSUME IInv, NEW s \in Setups, OwedFits(s), setup[s].owed, Probe(s)
  PROVE  /\ setup'[s].pc = "syncing" => /\ setup'[s].port = setup[s].port
                                       /\ Listening(setup[s].port)
         /\ setup'[s].pc \in {"probing", "syncing"}
         /\ setup'[s].owed = setup[s].owed /\ setup'[s].up = setup[s].up
  <1> DEFINE p == setup[s].port
  <1>1. /\ p \in Scan /\ EngineAhead(p) /\ others[p] # "answering" /\ DOMAIN setup[s] = SetupFields
        /\ s \in DOMAIN setup /\ setup[s].pc = "probing"
    BY DEF Probe, IInv, Shapes, ProbeWillHear, OwedFits
  <1>2. CASE Answers(p)
    <2>1. Listening(p)  BY <1>1, <1>2 DEF Answers
    <2>2. setup' = [setup EXCEPT ![s].pc = "syncing", ![s].heard = TRUE]  BY <1>2 DEF Probe
    <2> HIDE DEF p
    <2>3. /\ setup'[s].pc = "syncing" /\ setup'[s].port = setup[s].port
          /\ setup'[s].owed = setup[s].owed /\ setup'[s].up = setup[s].up
      BY <1>1, <2>2 DEF SetupFields
    <2> QED  BY <2>1, <2>3 DEF p
  <1>3. CASE ~Answers(p)
    <2>1. p + 1 \in Scan
      <3> SUFFICES ASSUME p + 1 \notin Scan PROVE FALSE  OBVIOUS
      <3>1. PICK e \in Setups : /\ engine[e].pc = "listening" /\ engine[e].port \in Scan
                                /\ p <= engine[e].port
        BY <1>1 DEF EngineAhead
      <3>2. engine[e].port <= p  BY <1>1, <3>1, ScanIsInt
      <3>3. engine[e].port = p
        <4>1. engine[e].port \in Nat /\ p \in Nat  BY <1>1, <3>1, ScanIsInt
        <4> QED  BY <3>1, <3>2, <4>1
      <3> QED  BY <1>3, <3>1, <3>3 DEF Answers, Listening
    <2> QED  BY <1>1, <1>3, <2>1 DEF Probe, SetupFields
  <1> QED  BY <1>2, <1>3

\* What the other steps of such a setup do: it unpacks, reads the port, and connects.
LEMMA OwedMoves ==
  ASSUME IInv, TreeInv, NEW s \in Setups, OwedFits(s), setup[s].owed,
         SetupStep(s) \/ CopyFails(s), ~Probe(s)
  PROVE  /\ setup'[s].owed = setup[s].owed /\ setup'[s].up = setup[s].up
         /\ \/ /\ setup[s].pc \in Unpacking
               /\ setup'[s].pc \in (Unpacking \ {"syncing"}) \cup {"reading", "aborted"}
               /\ setup'[s].port = setup[s].port
               /\ IF setup[s].pc = "syncing" THEN activePort' = setup[s].port ELSE UNCHANGED activePort
               /\ setup'[s].pc = "aborted" => overlapped \/ EntryPoint \in missed
            \/ /\ setup[s].pc = "reading" /\ setup'[s].pc = "waiting"
               /\ setup'[s].port = activePort
            \/ /\ setup[s].pc = "waiting"
               /\ setup'[s].pc = IF Answers(setup[s].port) THEN "wired" ELSE "retrying"
            \/ /\ setup[s].pc = "retrying"
               /\ setup'[s].pc \in {"wired", "failed", "cancelled"}
  <1>1. /\ s \in DOMAIN setup /\ DOMAIN setup[s] = SetupFields
        /\ setup[s].pc \notin {"picking", "starting"}
        /\ setup[s].pc \in Unpacking => setup[s].heard
    BY DEF IInv, Shapes, ProbeWillHear, OwedFits
  <1> USE <1>1 DEF SetupFields, Unpacking, UnchangedBySetup, shared
  <1>2. CASE Sync(s)  BY <1>2 DEF Sync, Go
  <1>3. CASE Check(s)  BY <1>3 DEF Check
  <1>4. CASE Wipe(s)  BY <1>4 DEF Wipe
  <1>5. CASE WipeEnds(s)  BY <1>5 DEF WipeEnds
  <1>6. CASE OpenAsset(s)  BY <1>6 DEF OpenAsset, Copying
  <1>7. CASE CloseAsset(s)  BY <1>7 DEF CloseAsset, Copying
  <1>8. CASE CopyFails(s)  BY <1>8 DEF CopyFails, Copying
  <1>9. CASE Mark(s)  BY <1>9 DEF Mark
  <1>10. CASE CheckEntry(s)
    <2>1. ASSUME tree[EntryPoint] = "none", ~overlapped PROVE EntryPoint \in missed
      <3>1. ThereFor(s)  BY <2>1 DEF TreeInv
      <3> QED  BY <1>10, <2>1, <3>1, EngineStartAssumption DEF CheckEntry, Copied, ThereFor, CopyState
    <2> QED  BY <1>10, <2>1 DEF CheckEntry, Go
  <1>11. CASE Pick(s) \/ Start(s)  BY <1>11 DEF Pick, Start
  <1>12. CASE ReadPort(s)  BY <1>12 DEF ReadPort
  <1>13. CASE Connect(s)  BY <1>13 DEF Connect, Connecting, Go
  <1>14. CASE TryFails(s) \/ GiveUp(s) \/ Cancelled(s)  BY <1>14 DEF TryFails, GiveUp, Cancelled, Go
  <1> QED
    BY <1>2, <1>3, <1>4, <1>5, <1>6, <1>7, <1>8, <1>9, <1>10, <1>11, <1>12, <1>13, <1>14 DEF SetupStep

\* A setup that another's step leaves alone.
LEMMA OtherSetup ==
  ASSUME IInv, NEW r \in Setups, SetupStep(r) \/ CopyFails(r), NEW s \in Setups, s # r
  PROVE  setup'[s] = setup[s]
  <1>1. DOMAIN setup = Setups  BY DEF IInv, Shapes
  <1> USE <1>1 DEF Go
  <1>2. CASE Probe(r) \/ Sync(r) \/ Check(r) \/ Wipe(r) \/ WipeEnds(r)
    BY <1>2 DEF Probe, Sync, Check, Wipe, WipeEnds
  <1>3. CASE OpenAsset(r) \/ CloseAsset(r) \/ CopyFails(r) \/ Mark(r) \/ CheckEntry(r)
    BY <1>3 DEF OpenAsset, CloseAsset, CopyFails, Mark, CheckEntry
  <1>4. CASE Pick(r) \/ Start(r) \/ ReadPort(r) \/ Connect(r) \/ TryFails(r) \/ GiveUp(r) \/ Cancelled(r)
    BY <1>4 DEF Pick, Start, ReadPort, Connect, TryFails, GiveUp, Cancelled
  <1> QED  BY <1>2, <1>3, <1>4 DEF SetupStep

\* A step of another setup: the port is another's business only while one works alone.
LEMMA OwedOther ==
  ASSUME IInv, TreeInv, OwedInv, [Next]_vars, ~Kill, NEW r \in Setups, SetupStep(r) \/ CopyFails(r),
         NEW s \in Setups, s # r
  PROVE  OwedFits(s)'
  <1>1. UNCHANGED <<others, overlapped>>  BY SetupKeeps
  <1>2. setup'[s] = setup[s]  BY OtherSetup
  <1>3. ASSUME ~overlapped, setup[s].pc \in AtWork PROVE UNCHANGED activePort
    <2>1. setup[r].pc \notin AtWork  BY <1>3 DEF TreeInv, WorksAlone, Working
    <2> QED
      BY <2>1 DEF SetupStep, AtWork, shared, Probe, Sync, Check, Wipe, WipeEnds, OpenAsset, CloseAsset, Copying,
                  CopyFails, Mark, CheckEntry, Pick, Start, ReadPort, Connect, TryFails, GiveUp, Cancelled
  <1>4. \A p : Listening(p) => Listening(p)'  BY ListeningStays
  <1> QED  BY <1>1, <1>2, <1>3, <1>4 DEF OwedInv, OwedFits, Unpacking, AtWork

\* Its own steps.
LEMMA OwedOwn ==
  ASSUME IInv, TreeInv, OwedInv, [Next]_vars, ~Kill, NEW s \in Setups, SetupStep(s) \/ CopyFails(s)
  PROVE  OwedFits(s)'
  <1>0. OwedFits(s) /\ DOMAIN setup[s] = SetupFields /\ s \in DOMAIN setup
    BY DEF OwedInv, IInv, Shapes
  <1>1. UNCHANGED <<others, overlapped>>  BY SetupKeeps
  <1>2. \A p : Listening(p) => Listening(p)'  BY ListeningStays
  <1>3. setup'[s].owed = setup[s].owed
    <2> USE <1>0 DEF SetupFields, Go
    <2>2. CASE Probe(s) \/ Sync(s) \/ Check(s) \/ Wipe(s) \/ WipeEnds(s)
      BY <2>2 DEF Probe, Sync, Check, Wipe, WipeEnds
    <2>3. CASE OpenAsset(s) \/ CloseAsset(s) \/ CopyFails(s) \/ Mark(s) \/ CheckEntry(s)
      BY <2>3 DEF OpenAsset, CloseAsset, CopyFails, Mark, CheckEntry
    <2>4. CASE Pick(s) \/ Start(s) \/ ReadPort(s) \/ Connect(s) \/ TryFails(s) \/ GiveUp(s) \/ Cancelled(s)
      BY <2>4 DEF Pick, Start, ReadPort, Connect, TryFails, GiveUp, Cancelled
    <2> QED  BY <2>2, <2>3, <2>4 DEF SetupStep
  <1>4. SUFFICES ASSUME setup[s].owed PROVE OwedFits(s)'
    BY <1>3 DEF OwedFits
  <1>5. CASE Probe(s)
    <2>1. setup'[s].pc \in {"probing", "syncing"}  BY <1>0, <1>4, <1>5, ProbeEnds
    <2>2. setup'[s].pc = "syncing" => Listening(setup[s].port)'
      <3>1. setup'[s].pc = "syncing" => /\ setup'[s].port = setup[s].port
                                         /\ Listening(setup[s].port)
        BY <1>0, <1>4, <1>5, ProbeEnds
      <3>2. ASSUME NEW p, p = setup'[s].port, Listening(p) PROVE Listening(setup[s].port)'
        <4>1. Listening(p)'  BY <1>2, <3>2
        <4> QED  BY <3>2, <4>1 DEF Listening
      <3> QED  BY <3>1, <3>2
    <2>3. setup[s].pc = "probing" /\ setup'[s].up = setup[s].up
      BY <1>0, <1>4, <1>5, ProbeEnds DEF Probe
    <2> QED  BY <1>0, <1>1, <1>4, <2>1, <2>2, <2>3 DEF OwedFits, Unpacking, AtWork
  <1>6. CASE ~Probe(s)
    <2>1. setup'[s].up = setup[s].up  BY <1>0, <1>4, <1>6, OwedMoves
    <2>2. CASE /\ setup[s].pc \in Unpacking
               /\ setup'[s].pc \in (Unpacking \ {"syncing"}) \cup {"reading", "aborted"}
               /\ setup'[s].port = setup[s].port
               /\ IF setup[s].pc = "syncing" THEN activePort' = setup[s].port ELSE UNCHANGED activePort
      BY <1>0, <1>1, <1>2, <1>4, <2>1, <2>2 DEF OwedFits, Unpacking, AtWork
    <2>3. CASE setup[s].pc = "reading" /\ setup'[s].pc = "waiting" /\ setup'[s].port = activePort
      BY <1>0, <1>1, <1>2, <1>4, <2>1, <2>3 DEF OwedFits, Unpacking, AtWork
    <2>4. CASE setup'[s].pc \in {"wired", "cancelled", "failed"}
      BY <1>0, <1>4, <2>1, <2>4 DEF OwedFits, Unpacking, AtWork
    <2>5. CASE setup[s].pc = "waiting" /\ setup'[s].pc = "retrying" /\ ~Answers(setup[s].port)
      <3>1. overlapped  BY <1>0, <1>4, <2>5 DEF OwedFits, Answers
      <3> QED  BY <1>0, <1>1, <1>4, <2>1, <2>5, <3>1 DEF OwedFits, Unpacking, AtWork
    <2> QED  BY <1>0, <1>4, <1>6, <2>2, <2>3, <2>4, <2>5, OwedMoves
  <1> QED  BY <1>5, <1>6

\* A setup that begins; others that leave the ports Kotlin looks at alone.
LEMMA OwedBegin ==
  ASSUME IInv, TreeInv, OwedInv, [Next]_vars, ~Kill, NEW r \in Setups, Begin(r)
  PROVE  OwedInv'
  <1> DEFINE up == \E p \in Scan : Listening(p)
             owed == up /\ \A p \in Scan : others[p] # "answering"
  <1>1. /\ setup' = [setup EXCEPT ![r] = [NoSetup EXCEPT !.pc = IF channel THEN "skipped" ELSE "probing",
                                                        !.up = up, !.owed = owed]]
        /\ UNCHANGED <<activePort, engine, others>> /\ (overlapped => overlapped')
        /\ owed => up /\ \A p \in Scan : others[p] # "answering"
    BY DEF Begin, shared
  <1>2. DOMAIN setup = Setups  BY DEF IInv, Shapes
  <1>3. \A p : Listening(p) => Listening(p)'  BY ListeningStays
  <1> HIDE DEF up, owed
  <1>4. /\ setup'[r].pc \in {"skipped", "probing"} /\ setup'[r].up = up /\ setup'[r].owed = owed
        /\ \A s \in Setups \ {r} : setup'[s] = setup[s]
    BY <1>1, <1>2 DEF NoSetup
  <1>5. OwedFits(r)'  BY <1>1, <1>4 DEF OwedFits, Unpacking, AtWork
  <1>6. ASSUME NEW s \in Setups \ {r} PROVE OwedFits(s)'
    BY <1>1, <1>3, <1>4, <1>6 DEF OwedInv, OwedFits
  <1> QED  BY <1>5, <1>6 DEF OwedInv

\* The invariant is inductive beside the others.
LEMMA NextOwedInv == IInv /\ TreeInv /\ OwedInv /\ [Next]_vars => OwedInv'
  <1> SUFFICES ASSUME IInv, TreeInv, OwedInv, [Next]_vars PROVE OwedInv'  OBVIOUS
  <1>1. ASSUME NEW r \in Setups, SetupStep(r) \/ CopyFails(r), ~Kill PROVE OwedInv'
    BY <1>1, OwedOther, OwedOwn DEF OwedInv
  <1>2. ASSUME ~Kill, UNCHANGED <<setup, activePort, overlapped>>,
               \A p \in Scan : others[p] # "answering" => others'[p] # "answering"
        PROVE OwedInv'
    <2>1. \A p : Listening(p) => Listening(p)'  BY <1>2, ListeningStays
    <2> QED  BY <1>2, <2>1 DEF OwedInv, OwedFits
  <1>3. ASSUME NEW s \in Setups, Destroy(s) \/ NodeStep(s), ~Kill PROVE OwedInv'
    BY <1>2, <1>3 DEF Destroy, NodeStep, Load, TryListen, UnchangedByNode, shared
  <1>4. ASSUME NEW p \in Ports, Leave(p), ~Kill PROVE OwedInv'
    <2>1. \A q \in Scan : others[q] # "answering" => others'[q] # "answering"
      BY <1>4, PortFacts DEF Leave
    <2> QED  BY <1>2, <1>4, <2>1 DEF Leave, shared
  <1>5. ASSUME NEW p \in Ports, Take(p), ~Kill PROVE OwedInv'
    <2>1. PICK how \in {"mute", "answering"} :
            /\ others' = [others EXCEPT ![p] = how]
            /\ setup' = [s \in Setups |-> IF setup[s].pc = "probing" /\ how = "answering"
                                          THEN [setup[s] EXCEPT !.owed = FALSE] ELSE setup[s]]
      BY <1>5 DEF Take
    <2>2. UNCHANGED <<activePort, overlapped>>  BY <1>5 DEF Take, shared
    <2>3. \A q : Listening(q) => Listening(q)'  BY <1>5, ListeningStays
    <2>4. ASSUME NEW s \in Setups PROVE OwedFits(s)'
      <3>1. OwedFits(s) /\ DOMAIN setup[s] = SetupFields  BY DEF OwedInv, IInv, Shapes
      <3>2. CASE setup[s].pc = "probing" /\ how = "answering"
        <4>1. setup'[s].owed = FALSE  BY <2>1, <3>1, <3>2 DEF SetupFields
        <4> QED  BY <4>1 DEF OwedFits
      <3>3. CASE ~ (setup[s].pc = "probing" /\ how = "answering")
        <4>1. setup'[s] = setup[s]  BY <2>1, <3>3
        <4>2. how # "answering" => \A q \in Scan : others[q] # "answering" => others'[q] # "answering"
          BY <2>1
        <4> QED  BY <2>2, <2>3, <3>1, <3>3, <4>1, <4>2 DEF OwedFits
      <3> QED  BY <3>2, <3>3
    <2> QED  BY <2>4 DEF OwedInv
  <1>6. CASE Kill
    <2>1. ASSUME NEW s \in Setups PROVE OwedFits(s)'
      <3>1. CASE Unfinished(s)
        <4>1. setup'[s].owed = FALSE  BY <1>6, <3>1 DEF Kill, NoSetup
        <4> QED  BY <4>1 DEF OwedFits
      <3>2. CASE ~Unfinished(s)
        <4>1. setup'[s] = setup[s] /\ setup[s].pc \notin AtWork \cup {"waiting", "retrying"}
          BY <1>6, <3>2 DEF Kill, Unfinished, Working, Connecting
        <4> QED  BY <4>1 DEF OwedInv, OwedFits, Unpacking, AtWork
      <3> QED  BY <3>1, <3>2
    <2> QED  BY <2>1 DEF OwedInv
  <1>7. CASE Evict /\ ~Kill  BY <1>2, <1>7 DEF Evict, shared
  <1>8. CASE UNCHANGED vars /\ ~Kill  BY <1>2, <1>8 DEF vars, shared
  <1> QED  BY <1>1, <1>3, <1>4, <1>5, <1>6, <1>7, <1>8, OwedBegin DEF Next

\* A setup that begins while Node listens on a scanned port, and nobody else answers there
\* until its probe is over, waits for no port but Node's, is wired to Node and gives up for
\* nothing but a lost entry script (SchedulerService.kt:74-90, 161-205): the safety half of
\* ConnectsAgain.
THEOREM ComesToNode == Spec => OwedEndsAtNode
  <1> DEFINE Comes == \A s \in Setups : (setup[s].owed /\ ~overlapped /\ setup'[s].pc # setup[s].pc) =>
                /\ setup[s].pc = "waiting" => setup'[s].pc \in {"wired", "dead"}
                /\ setup'[s].pc = "wired" => Listening(setup[s].port)
                /\ setup'[s].pc = "aborted" => EntryPoint \in missed
  <1>1. Init => OwedInv  BY DEF Init, OwedInv, OwedFits, NoSetup
  <1>2. IInv /\ TreeInv /\ OwedInv /\ [Next]_vars => [Comes]_vars
    <2> SUFFICES ASSUME IInv, TreeInv, OwedInv, Next, NEW s \in Setups, setup[s].owed, ~overlapped,
                        setup'[s].pc # setup[s].pc
                 PROVE  /\ setup[s].pc = "waiting" => setup'[s].pc \in {"wired", "dead"}
                        /\ setup'[s].pc = "wired" => Listening(setup[s].port)
                        /\ setup'[s].pc = "aborted" => EntryPoint \in missed
      OBVIOUS
    <2>1. OwedFits(s) /\ DOMAIN setup[s] = SetupFields  BY DEF OwedInv, IInv, Shapes
    <2>2. CASE Kill
      BY <2>2 DEF Kill, NoSetup
    <2>3. CASE SetupStep(s) \/ CopyFails(s)
      <3>1. CASE Probe(s)  BY <2>1, <3>1, ProbeEnds DEF Probe
      <3>2. CASE ~Probe(s)
        <4>1. setup[s].pc = "waiting" => Answers(setup[s].port) /\ Listening(setup[s].port)
          BY <2>1 DEF OwedFits, Answers
        <4>2. setup[s].pc # "retrying"  BY <2>1 DEF OwedFits
        <4>3. setup[s].pc = "reading" => setup'[s].pc = "waiting"
          BY <2>1, <2>3, <3>2, OwedMoves DEF Unpacking
        <4>4. setup[s].pc = "waiting" => setup'[s].pc = "wired"
          BY <2>1, <2>3, <3>2, <4>1, OwedMoves DEF Unpacking
        <4>5. setup[s].pc \in Unpacking => /\ setup'[s].pc # "wired"
                                           /\ setup'[s].pc = "aborted" => EntryPoint \in missed
          BY <2>1, <2>3, <3>2, OwedMoves DEF Unpacking
        <4>6. setup[s].pc \in Unpacking \cup {"reading", "waiting"}
          BY <2>1, <2>3, <3>2, <4>2, OwedMoves
        <4> QED  BY <4>1, <4>3, <4>4, <4>5, <4>6 DEF Unpacking
      <3> QED  BY <3>1, <3>2
    <2>4. ASSUME NEW r \in Setups, r # s, SetupStep(r) \/ CopyFails(r) PROVE FALSE
      BY <2>4, OtherSetup
    <2>5. ASSUME NEW r \in Setups, Begin(r) PROVE FALSE
      <3>1. begun \in Nat /\ DOMAIN setup = Setups /\ \A q \in Setups : q > begun => setup[q].pc = "none"
        BY DEF IInv, Shapes, OneEngineEach
      <3> QED  BY <2>1, <2>5, <3>1 DEF Begin, OwedFits
    <2>6. ASSUME NEW p \in Ports, Take(p) PROVE FALSE
      BY <2>1, <2>6 DEF Take, SetupFields
    <2> QED  BY <2>2, <2>3, <2>4, <2>5, <2>6 DEF Next, Destroy, NodeStep, Load, TryListen, UnchangedByNode,
                                                Leave, Evict
  <1> QED  BY <1>1, <1>2, InitIInv, NextIInv, InitTreeInv, NextTreeInv, NextOwedInv, PTL
           DEF Spec, OwedEndsAtNode

=============================================================================
