--------------------------- MODULE WaEngineProofs ---------------------------
(***************************************************************************)
(* Theorems about the WhatsApp connection of the engine, for any set of    *)
(* connect calls and any number of closes and pairing requests.            *)
(*                                                                         *)
(* The inductive invariant adds to the properties that sockets are made in *)
(* their order, that sock is one of them or none, and that every socket    *)
(* goes back to a call that has ended or to a backoff timer that has fired *)
(* - so that the module has numbers enough for all of them.  A second one, *)
(* CallersKeptInView, says what will answer a caller that waits.           *)
(***************************************************************************)
EXTENDS WaEngine, FiniteSetTheorems, TLAPS

Underway == {c \in Calls : calls[c] # "done"}

MadeInOrder == Made = 1 .. Cardinality(Made)
SocksSuffice ==
    /\ timers <= closes
    /\ Cardinality(Made) + timers + Cardinality(Underway) <= Cardinality(Calls) + closes

WaInv ==
    /\ TypeOK
    /\ MadeInOrder
    /\ SocksSuffice
    /\ sock \in Made \cup {NoSock}
    /\ OneSocket
    /\ CodeFromReadySocket

-----------------------------------------------------------------------------
(* Counting *)

LEMMA NoSockIsNone == NoSock \notin Sockets
  BY DEF NoSock, Sockets

LEMMA Counts ==
  ASSUME TypeOK
  PROVE  /\ IsFiniteSet(Calls) /\ Cardinality(Calls) \in Nat
         /\ IsFiniteSet(Underway) /\ Cardinality(Underway) \in Nat
         /\ IsFiniteSet(Made) /\ Cardinality(Made) \in Nat
  <1>1. IsFiniteSet(Calls) /\ Cardinality(Calls) \in Nat
    BY WaEngineAssumption, FS_CardinalityType
  <1>2. IsFiniteSet(Underway)
    <2>1. Underway \in SUBSET Calls
      BY DEF Underway
    <2>. QED
      BY <1>1, <2>1, FS_Subset
  <1>3. IsFiniteSet(Sockets)
    BY <1>1, WaEngineAssumption, FS_Interval DEF Sockets
  <1>4. IsFiniteSet(Made)
    <2>1. Made \in SUBSET Sockets
      BY DEF Made
    <2>. QED
      BY <1>3, <2>1, FS_Subset
  <1>. QED
    BY <1>1, <1>2, <1>4, FS_CardinalityType

\* A call that ends makes room for a socket.
LEMMA CallEnds ==
  ASSUME TypeOK, NEW c \in Calls, calls[c] # "done", calls' = [calls EXCEPT ![c] = "done"]
  PROVE  Cardinality(Underway') = Cardinality(Underway) - 1
  <1>1. Underway' = Underway \ {c} /\ c \in Underway
    BY DEF Underway, TypeOK
  <1>. QED
    BY <1>1, Counts, FS_RemoveElement

LEMMA CallGoesOn ==
  ASSUME TypeOK, NEW c \in Calls, calls[c] # "done", NEW pc \in {"version", "auth"},
         calls' = [calls EXCEPT ![c] = pc]
  PROVE  Underway' = Underway
  BY DEF Underway, TypeOK

\* Steps that do not create a socket.
LEMMA SameMade ==
  ASSUME TypeOK, \A s \in Sockets : ws'[s] = "unmade" <=> ws[s] = "unmade"
  PROVE  Made' = Made
  BY DEF Made

\* createSocket: a new number, the only socket alive.
LEMMA CreateFacts ==
  ASSUME WaInv, CreateSocket, Cardinality(Made) < Cardinality(Calls) + MaxCloses
  PROVE  /\ sock' \in Sockets /\ sock' = Cardinality(Made) + 1 /\ ws[sock'] = "unmade"
         /\ ws' \in [Sockets -> WsState]
         /\ Made \subseteq Made' /\ Made' = Made \cup {sock'}
         /\ MadeInOrder' /\ Cardinality(Made') = Cardinality(Made) + 1
         /\ \A s \in Alive' : s = sock'
  <1>. DEFINE n == Cardinality(Made)
              s == n + 1
  <1>1. /\ n \in Nat /\ Made = 1 .. n /\ Cardinality(Calls) \in Nat /\ MaxCloses \in Nat
        /\ s \in Sockets /\ TypeOK
    BY Counts, WaEngineAssumption DEF WaInv, MadeInOrder, Sockets
  <1>2. ws' = [End(sock, ws) EXCEPT ![s] = "connecting"] /\ sock' = s
    BY DEF CreateSocket
  <1>. HIDE DEF n
  <1>3. ws[s] = "unmade" /\ s # NoSock
    BY <1>1 DEF Made, NoSock
  <1>4. End(sock, ws) \in [Sockets -> WsState]
        /\ \A t \in Sockets : End(sock, ws)[t] = IF t = sock THEN "ended" ELSE ws[t]
    BY <1>1 DEF End, TypeOK, WsState, Sockets, NoSock
  <1>. HIDE DEF s
  <1>5. /\ ws' \in [Sockets -> WsState]
        /\ \A t \in Sockets : ws'[t] = IF t = s THEN "connecting"
                                       ELSE IF t = sock THEN "ended" ELSE ws[t]
    BY <1>1, <1>2, <1>4 DEF WsState
  <1>6. sock \in Made \cup {NoSock}
    BY DEF WaInv
  <1>7. Made' = Made \cup {s} /\ s \notin Made
    BY <1>1, <1>3, <1>5, <1>6, NoSockIsNone DEF Made
  <1>8. Made' = 1 .. s
    BY <1>1, <1>7 DEF s
  <1>9. Cardinality(Made') = s
    BY <1>1, <1>8, FS_Interval DEF s
  <1>10. \A t \in Alive' : t = s
    BY <1>5 DEF Alive, WaInv, OneSocket
  <1>. QED
    BY <1>1, <1>2, <1>3, <1>5, <1>7, <1>8, <1>9, <1>10 DEF MadeInOrder, n, s

-----------------------------------------------------------------------------
(* The steps *)

\* A step after which no other socket is alive than before.
LEMMA NoneRevived ==
  ASSUME WaInv, sock' = sock, ws' \in [Sockets -> WsState],
         \A s \in Sockets : /\ ws'[s] = "unmade" <=> ws[s] = "unmade"
                            /\ s \in Alive' => s \in Alive
  PROVE  Made' = Made /\ MadeInOrder' /\ OneSocket' /\ (sock \in Made \cup {NoSock})'
  <1>1. Made' = Made
    BY SameMade DEF WaInv
  <1>. QED
    BY <1>1 DEF WaInv, MadeInOrder, OneSocket, Alive

\* A step that ends the socket of the module and forgets it.
LEMMA SockEnds ==
  ASSUME WaInv, ws' = End(sock, ws), sock' = NoSock
  PROVE  /\ ws' \in [Sockets -> WsState] /\ Made' = Made
         /\ MadeInOrder' /\ OneSocket' /\ (sock \in Made \cup {NoSock})'
  <1>1. ws \in [Sockets -> WsState] /\ NoSock \notin Sockets
    BY NoSockIsNone DEF WaInv, TypeOK
  <1>2. /\ ws' \in [Sockets -> WsState]
        /\ \A s \in Sockets : ws'[s] = IF s = sock THEN "ended" ELSE ws[s]
    BY <1>1 DEF End, WsState
  <1>3. \A s \in Sockets : ws'[s] = "unmade" <=> ws[s] = "unmade"
    BY <1>1, <1>2 DEF WaInv, Made
  <1>4. Made' = Made
    BY <1>3, SameMade DEF WaInv
  <1>5. Alive' = {}
    BY <1>2 DEF WaInv, OneSocket, Alive
  <1>. QED
    BY <1>2, <1>4, <1>5 DEF WaInv, MadeInOrder, OneSocket

\* The connect calls
LEMMA CallKeeps ==
  ASSUME WaInv, NEW c \in Calls,
         ConnectIgnored(c) \/ ConnectStarts(c) \/ VersionSettles(c)
         \/ AuthCorrupt(c) \/ AuthFails(c)
  PROVE  WaInv'
  <1>. USE DEF Push
  <1>0. TypeOK
    BY DEF WaInv
  <1>1. CASE ConnectIgnored(c)
    <2>1. TypeOK'
      BY <1>1 DEF ConnectIgnored, WaInv, TypeOK, Events, Made
    <2>2. Cardinality(Underway') = Cardinality(Underway) - 1 /\ Made' = Made
      BY <1>0, <1>1, CallEnds DEF ConnectIgnored, Made
    <2>3. SocksSuffice'
      BY <1>1, <2>2, <1>0, Counts, WaEngineAssumption DEF ConnectIgnored, WaInv, SocksSuffice, TypeOK
    <2>. QED
      BY <1>1, <2>1, <2>2, <2>3
         DEF ConnectIgnored, WaInv, MadeInOrder, OneSocket, Alive, CodeFromReadySocket
  <1>2. CASE ConnectStarts(c)
    <2>1. ws' = End(sock, ws) /\ sock' = NoSock /\ qr' = qr /\ pair' = pair
      BY <1>2 DEF ConnectStarts
    <2>2. /\ ws' \in [Sockets -> WsState] /\ Made' = Made
          /\ MadeInOrder' /\ OneSocket' /\ (sock \in Made \cup {NoSock})'
      BY <2>1, SockEnds
    <2>3. TypeOK'
      BY <1>2, <2>2 DEF ConnectStarts, WaInv, TypeOK
    <2>4. Underway' = Underway
      BY <1>0, <1>2, CallGoesOn DEF ConnectStarts
    <2>. QED
      BY <1>2, <2>1, <2>2, <2>3, <2>4
         DEF ConnectStarts, WaInv, SocksSuffice, CodeFromReadySocket
  <1>3. CASE VersionSettles(c)
    <2>1. TypeOK'
      BY <1>3 DEF VersionSettles, WaInv, TypeOK, Made
    <2>2. Underway' = Underway /\ Made' = Made
      BY <1>0, <1>3, CallGoesOn DEF VersionSettles, Made
    <2>. QED
      BY <1>3, <2>1, <2>2 DEF VersionSettles, WaInv, MadeInOrder, SocksSuffice, OneSocket, Alive,
         CodeFromReadySocket
  <1>4. CASE AuthCorrupt(c) \/ AuthFails(c)
    <2>1. TypeOK'
      BY <1>4 DEF AuthCorrupt, AuthFails, WaInv, TypeOK, Events, Made
    <2>2. Cardinality(Underway') = Cardinality(Underway) - 1 /\ Made' = Made
      BY <1>0, <1>4, CallEnds DEF AuthCorrupt, AuthFails, Made
    <2>3. SocksSuffice'
      BY <1>4, <2>2, <1>0, Counts, WaEngineAssumption
         DEF AuthCorrupt, AuthFails, WaInv, SocksSuffice, TypeOK
    <2>. QED
      BY <1>4, <2>1, <2>2, <2>3
         DEF AuthCorrupt, AuthFails, WaInv, MadeInOrder, OneSocket, Alive, CodeFromReadySocket
  <1>. QED
    BY <1>1, <1>2, <1>3, <1>4

\* createSocket, after the auth state has loaded or a backoff
LEMMA CreateKeeps ==
  ASSUME WaInv, BackoffFires \/ \E c \in Calls : AuthLoads(c)
  PROVE  WaInv'
  <1>. DEFINE n == Cardinality(Made)
              u == Cardinality(Underway)
  <1>0. /\ TypeOK /\ n \in Nat /\ u \in Nat /\ timers \in Nat /\ closes \in 0 .. MaxCloses
        /\ timers <= closes /\ n + timers + u <= Cardinality(Calls) + closes /\ Cardinality(Calls) \in Nat
        /\ MaxCloses \in Nat
    BY Counts, WaEngineAssumption DEF WaInv, SocksSuffice, TypeOK
  <1>1. /\ CreateSocket
        /\ timers' \in 0 .. MaxCloses /\ calls' \in [Calls -> {"unused", "version", "auth", "done"}]
        /\ timers' <= timers /\ timers' + Cardinality(Underway') = timers + u - 1
        /\ n + 1 <= Cardinality(Calls) + closes
        /\ UNCHANGED <<qr, connecting, intentional, told, owed, wanted, pair, closes, pairings>>
    <2>1. CASE BackoffFires
      <3>1. Underway' = Underway /\ timers' = timers - 1 /\ timers > 0
        BY <2>1 DEF BackoffFires, Underway
      <3>. HIDE DEF n, u
      <3>2. /\ timers' \in 0 .. MaxCloses /\ timers' <= timers /\ timers' + u = timers + u - 1
            /\ n + 1 <= Cardinality(Calls) + closes
        BY <1>0, <3>1 DEF TypeOK
      <3>. QED
        BY <1>0, <2>1, <3>1, <3>2 DEF BackoffFires, TypeOK, u
    <2>2. ASSUME NEW c \in Calls, AuthLoads(c)
          PROVE  /\ CreateSocket
                 /\ timers' \in 0 .. MaxCloses
                 /\ calls' \in [Calls -> {"unused", "version", "auth", "done"}]
                 /\ timers' <= timers /\ timers' + Cardinality(Underway') = timers + u - 1
                 /\ n + 1 <= Cardinality(Calls) + closes
                 /\ UNCHANGED <<qr, connecting, intentional, told, owed, wanted, pair, closes,
                                pairings>>
      <3>1. calls[c] # "done" /\ calls' = [calls EXCEPT ![c] = "done"] /\ timers' = timers
        BY <2>2 DEF AuthLoads
      <3>2. Cardinality(Underway') = u - 1
        BY <1>0, <3>1, CallEnds
      <3>3. u > 0
        <4>1. u # 0
          BY <1>0, <3>1, Counts, FS_EmptySet DEF Underway
        <4>. QED
          BY <1>0, <4>1
      <3>. HIDE DEF n, u
      <3>4. /\ timers' \in 0 .. MaxCloses
            /\ timers' <= timers /\ timers' + Cardinality(Underway') = timers + u - 1
            /\ n + 1 <= Cardinality(Calls) + closes
        BY <1>0, <3>1, <3>2, <3>3 DEF TypeOK
      <3>. QED
        BY <1>0, <2>2, <3>1, <3>4 DEF AuthLoads, TypeOK
    <2>. QED
      BY <2>1, <2>2
  <1>2. n < Cardinality(Calls) + MaxCloses
    BY <1>0, <1>1
  <1>3. /\ sock' \in Sockets /\ ws' \in [Sockets -> WsState]
        /\ Made \subseteq Made' /\ Made' = Made \cup {sock'}
        /\ MadeInOrder' /\ Cardinality(Made') = n + 1
        /\ \A s \in Alive' : s = sock'
    BY <1>1, <1>2, CreateFacts
  <1>4. TypeOK'
    <2>. HIDE DEF n, u
    <2>1. qr' \subseteq Made'
      BY <1>0, <1>1, <1>3 DEF TypeOK
    <2>. QED
      BY <1>0, <1>1, <1>3, <2>1 DEF TypeOK
  <1>5. SocksSuffice'
    <2>1. IsFiniteSet(Underway') /\ Cardinality(Underway') \in Nat
      <3>1. Underway' \in SUBSET Calls
        BY DEF Underway
      <3>. QED
        BY <3>1, WaEngineAssumption, FS_Subset, FS_CardinalityType
    <2>. HIDE DEF n, u
    <2>. QED
      BY <1>0, <1>1, <1>3, <2>1 DEF SocksSuffice
  <1>. QED
    BY <1>1, <1>3, <1>4, <1>5 DEF WaInv, OneSocket, CodeFromReadySocket

\* connection.update
LEMMA UpdateKeeps ==
  ASSUME WaInv, NEW s \in Sockets,
         SocketStep(s) \/ LoggedOut(s) \/ Dies(s) \/ ClosedOnPurpose(s) \/ Dropped(s)
  PROVE  WaInv'
  <1>. DEFINE n == Cardinality(Made)
              u == Cardinality(Underway)
  <1>0. /\ TypeOK /\ n \in Nat /\ u \in Nat /\ timers \in 0 .. MaxCloses /\ closes \in 0 .. MaxCloses
        /\ timers <= closes /\ n + timers + u <= Cardinality(Calls) + closes /\ Cardinality(Calls) \in Nat
        /\ MaxCloses \in Nat
    BY Counts, WaEngineAssumption DEF WaInv, SocksSuffice, TypeOK
  <1>1. PICK state \in WsState \ {"unmade", "connecting"} :
            /\ ws' = [ws EXCEPT ![s] = state] /\ ws[s] \in {"connecting", "handshake", "open"}
    BY DEF SocketStep, WsOpens, SessionOpens, LoggedOut, Dies, ClosedOnPurpose, Dropped, Close,
       WsState
  <1>2. /\ UNCHANGED <<sock, qr, calls, wanted, pair, pairings>>
        /\ \/ closes' = closes /\ timers' = timers
           \/ closes' = closes + 1 /\ closes < MaxCloses /\ timers' \in {timers, timers + 1}
    BY DEF SocketStep, WsOpens, SessionOpens, LoggedOut, Dies, ClosedOnPurpose, Dropped, Close
  <1>3. ws' \in [Sockets -> WsState]
        /\ \A t \in Sockets : ws'[t] = IF t = s THEN state ELSE ws[t]
    BY <1>0, <1>1 DEF TypeOK
  <1>4. Made' = Made /\ MadeInOrder' /\ OneSocket' /\ (sock \in Made \cup {NoSock})'
    <2>1. \A t \in Sockets : (ws'[t] = "unmade" <=> ws[t] = "unmade")
                             /\ (t \in Alive' => t \in Alive)
      BY <1>1, <1>3 DEF Alive
    <2>. QED
      BY <1>2, <1>3, <2>1, NoneRevived
  <1>5. Underway' = Underway
    BY <1>2 DEF Underway
  <1>6. timers' \in 0 .. MaxCloses /\ closes' \in 0 .. MaxCloses
    BY <1>0, <1>2
  <1>7. SocksSuffice'
    <2>. HIDE DEF n, u
    <2>1. timers' <= closes' /\ n + timers' + u <= Cardinality(Calls) + closes'
      BY <1>0, <1>2
    <2>. USE DEF n, u
    <2>. QED
      BY <1>4, <1>5, <2>1 DEF SocksSuffice
  <1>8. /\ told' \in Events /\ connecting' \in BOOLEAN /\ intentional' \in BOOLEAN
        /\ owed' \in BOOLEAN
    BY <1>0 DEF SocketStep, WsOpens, SessionOpens, LoggedOut, Dies, ClosedOnPurpose, Dropped, Close,
       Push, Events, TypeOK
  <1>9. TypeOK'
    BY <1>0, <1>2, <1>3, <1>4, <1>6, <1>8 DEF TypeOK
  <1>. QED
    BY <1>2, <1>4, <1>7, <1>9 DEF WaInv, CodeFromReadySocket

\* A pairing that awaited the QR of a socket asks that very socket: a socket
\* that shows a QR is alive, and the only one alive is sock.
LEMMA ShowsQrKeeps ==
  ASSUME WaInv, NEW s \in Sockets, ShowsQr(s)
  PROVE  WaInv'
  <1>1. s = sock /\ s \in Made
    BY DEF ShowsQr, WaInv, OneSocket, Alive, Made
  <1>2. UNCHANGED <<sock, ws, connecting, intentional, calls, timers, told, owed, wanted,
                   closes, pairings>> /\ qr' = qr \cup {s}
    BY DEF ShowsQr
  <1>3. pair' = [pair EXCEPT !.pc = "code", !.target = s] \/ pair' = pair
    BY <1>1 DEF ShowsQr, Asking
  <1>4. Made' = Made /\ Underway' = Underway /\ Alive' = Alive
    BY <1>2 DEF Made, Underway, Alive
  <1>5. TypeOK' /\ CodeFromReadySocket'
    BY <1>1, <1>2, <1>3, <1>4 DEF WaInv, TypeOK, CodeFromReadySocket
  <1>. QED
    BY <1>2, <1>4, <1>5 DEF WaInv, MadeInOrder, SocksSuffice, OneSocket

LEMMA DisconnectKeeps ==
  ASSUME WaInv, Disconnect
  PROVE  WaInv'
  <1>1. ws' = End(sock, ws) /\ sock' = NoSock
        /\ UNCHANGED <<qr, calls, timers, told, owed, pair, closes, pairings>>
    BY DEF Disconnect
  <1>2. /\ ws' \in [Sockets -> WsState] /\ Made' = Made
        /\ MadeInOrder' /\ OneSocket' /\ (sock \in Made \cup {NoSock})'
    BY <1>1, SockEnds
  <1>3. TypeOK'
    BY <1>1, <1>2 DEF Disconnect, WaInv, TypeOK
  <1>4. Underway' = Underway
    BY <1>1 DEF Underway
  <1>. QED
    BY <1>1, <1>2, <1>3, <1>4 DEF WaInv, SocksSuffice, CodeFromReadySocket

LEMMA PairingKeeps ==
  ASSUME WaInv, PairRequested \/ PairWaits \/ PairSettles \/ Failsafe
  PROVE  WaInv'
  <1>1. UNCHANGED connection
    BY DEF PairRequested, PairWaits, PairSettles, Failsafe, PairEnds, PairStep
  <1>2. UNCHANGED <<sock, ws, qr, connecting, intentional, calls, timers, told, owed, wanted, closes>>
    BY <1>1 DEF connection
  <1>3. Made' = Made /\ Underway' = Underway /\ Alive' = Alive
    BY <1>2 DEF Made, Underway, Alive
  <1>4. pairings' \in 0 .. MaxPairings
    BY WaEngineAssumption DEF PairRequested, PairWaits, PairSettles, Failsafe, PairEnds, PairStep,
       WaInv, TypeOK
  <1>5. /\ pair' \in [pc : {"idle", "poll", "ready", "code"}, ready : Sockets \cup {NoSock},
                      target : Sockets \cup {NoSock}, answers : Nat]
        /\ pair'.pc = "code" => pair'.target \in qr
    <2>. USE DEF NoPairing
    <2>0. /\ pair \in [pc : {"idle", "poll", "ready", "code"}, ready : Sockets \cup {NoSock},
                       target : Sockets \cup {NoSock}, answers : Nat]
          /\ pair.pc = "code" => pair.target \in qr
          /\ sock \in Sockets \cup {NoSock}
      BY DEF WaInv, TypeOK, CodeFromReadySocket
    <2>1. CASE PairRequested
      BY <2>0, <2>1 DEF PairRequested
    <2>2. CASE PairWaits
      BY <2>0, <2>2 DEF PairWaits, PairStep, Asking
    <2>3. CASE PairSettles
      BY <2>0, <2>3 DEF PairSettles, PairEnds, PairStep
    <2>4. CASE Failsafe
      BY <2>0, <2>4 DEF Failsafe, PairStep
    <2>. QED
      BY <2>1, <2>2, <2>3, <2>4
  <1>6. TypeOK'
    BY <1>2, <1>3, <1>4, <1>5 DEF WaInv, TypeOK
  <1>. QED
    BY <1>2, <1>3, <1>5, <1>6 DEF WaInv, MadeInOrder, SocksSuffice, OneSocket, CodeFromReadySocket

LEMMA InitKeeps == Init => WaInv
  <1>. SUFFICES ASSUME Init PROVE WaInv
    OBVIOUS
  <1>1. Made = {} /\ Underway = Calls
    BY DEF Init, Made, Underway
  <1>2. Cardinality(Calls) \in Nat /\ Cardinality(Made) = 0
    BY <1>1, WaEngineAssumption, FS_CardinalityType, FS_EmptySet
  <1>3. TypeOK
    <2>1. ws \in [Sockets -> WsState] /\ told \in Events
      BY DEF Init, WsState, Events
    <2>2. pair \in [pc : {"idle", "poll", "ready", "code"}, ready : Sockets \cup {NoSock},
                   target : Sockets \cup {NoSock}, answers : Nat]
      BY DEF Init, NoPairing
    <2>3. timers \in 0 .. MaxCloses /\ closes \in 0 .. MaxCloses /\ pairings \in 0 .. MaxPairings
      BY WaEngineAssumption DEF Init
    <2>4. sock \in Sockets \cup {NoSock} /\ qr \subseteq Made
          /\ calls \in [Calls -> {"unused", "version", "auth", "done"}]
      BY DEF Init
    <2>. QED
      BY <2>1, <2>2, <2>3, <2>4 DEF Init, TypeOK
  <1>4. SocksSuffice /\ MadeInOrder
    BY <1>1, <1>2 DEF Init, SocksSuffice, MadeInOrder
  <1>. QED
    BY <1>3, <1>4 DEF Init, WaInv, OneSocket, Alive, CodeFromReadySocket, NoPairing

LEMMA StepKeeps == WaInv /\ [Next]_vars => WaInv'
  <1>. SUFFICES ASSUME WaInv, [Next]_vars PROVE WaInv'
    OBVIOUS
  <1>1. ASSUME NEW c \in Calls,
               \/ ConnectIgnored(c) \/ ConnectStarts(c) \/ VersionSettles(c)
               \/ AuthLoads(c) \/ AuthCorrupt(c) \/ AuthFails(c)
        PROVE  WaInv'
    BY <1>1, CallKeeps, CreateKeeps
  <1>2. ASSUME NEW s \in Sockets,
               \/ SocketStep(s) \/ ShowsQr(s) \/ LoggedOut(s) \/ Dies(s)
               \/ ClosedOnPurpose(s) \/ Dropped(s)
        PROVE  WaInv'
    BY <1>2, UpdateKeeps, ShowsQrKeeps
  <1>3. CASE BackoffFires \/ Disconnect
    BY <1>3, CreateKeeps, DisconnectKeeps
  <1>4. CASE PairRequested \/ PairWaits \/ PairSettles \/ Failsafe
    BY <1>4, PairingKeeps
  <1>5. CASE UNCHANGED vars
    BY <1>5 DEF vars, WaInv, TypeOK, MadeInOrder, SocksSuffice, Made, Underway, OneSocket, Alive,
       CodeFromReadySocket
  <1>. QED
    BY <1>1, <1>2, <1>3, <1>4, <1>5 DEF Next

LEMMA WaInvariant == Spec => []WaInv
  BY InitKeeps, StepKeeps, PTL DEF Spec

-----------------------------------------------------------------------------
(* The theorems *)

\* Every variable keeps its type; above all, the number of a new socket is one
\* of the module's: no call and no timer creates more than one.
THEOREM TypeCorrect == Spec => []TypeOK
  <1>1. WaInv => TypeOK
    BY DEF WaInv
  <1>. QED
    BY <1>1, WaInvariant, PTL

\* No two sockets share the auth state (whatsapp.js:180-183), however many
\* connect calls overlap in their awaits and backoff timers fire among them.
THEOREM NeverTwoSockets == Spec => []OneSocket
  <1>1. WaInv => OneSocket
    BY DEF WaInv
  <1>. QED
    BY <1>1, WaInvariant, PTL

\* A pairing code is asked only of a socket that has shown its QR
\* (whatsapp.js:223-224), although sock may be replaced while the promise of
\* an older one is awaited.
THEOREM CodeAfterQr == Spec => []CodeFromReadySocket
  <1>1. WaInv => CodeFromReadySocket
    BY DEF WaInv
  <1>. QED
    BY <1>1, WaInvariant, PTL

-----------------------------------------------------------------------------
(* The safety half of ConnectAnswered and ReconnectFollows *)

\* Something is under way that will have news for Kotlin.
NewsUnderWay ==
    \/ \E c \in Calls : calls[c] \in {"version", "auth"}
    \/ \E s \in Sockets : ws[s] = "connecting"
    \/ timers > 0

\* A caller that waits for news, or was told "reconnecting" last, is never left
\* with nothing under way.  A close on purpose is the one that tells nobody: the
\* flag for it is set only while no connection is wanted.
CallersKeptInView ==
    /\ intentional => ~wanted /\ ~connecting
    /\ wanted /\ (owed \/ told = "reconnecting") => NewsUnderWay

LEMMA ViewOfCalls ==
  ASSUME WaInv, CallersKeptInView, NEW c \in Calls,
         ConnectIgnored(c) \/ ConnectStarts(c) \/ VersionSettles(c)
         \/ AuthCorrupt(c) \/ AuthFails(c)
  PROVE  CallersKeptInView'
  <1>0. calls \in [Calls -> {"unused", "version", "auth", "done"}]
        /\ intentional \in BOOLEAN /\ wanted \in BOOLEAN /\ connecting \in BOOLEAN
    BY DEF WaInv, TypeOK
  <1>1. CASE ConnectIgnored(c)
    BY <1>0, <1>1 DEF ConnectIgnored, CallersKeptInView, Push
  <1>2. CASE ConnectStarts(c)
    <2>1. calls'[c] = "version" /\ intentional' = FALSE
      BY <1>0, <1>2 DEF ConnectStarts
    <2>. QED
      BY <2>1 DEF CallersKeptInView, NewsUnderWay
  <1>3. CASE VersionSettles(c)
    <2>1. calls'[c] = "auth" /\ UNCHANGED <<connecting, intentional, wanted>>
      BY <1>0, <1>3 DEF VersionSettles
    <2>. QED
      BY <2>1 DEF CallersKeptInView, NewsUnderWay
  <1>4. CASE AuthCorrupt(c) \/ AuthFails(c)
    <2>1. /\ owed' = FALSE /\ told' \in {"logged_out", "error"}
          /\ UNCHANGED <<intentional, wanted>> /\ (connecting' = connecting \/ connecting' = FALSE)
      BY <1>4 DEF AuthCorrupt, AuthFails, Push
    <2>. QED
      BY <1>0, <2>1 DEF CallersKeptInView
  <1>. QED
    BY <1>1, <1>2, <1>3, <1>4

\* A socket that has been created opens its WebSocket or closes, and says so.
LEMMA ViewOfCreate ==
  ASSUME WaInv, WaInv', CallersKeptInView, BackoffFires \/ \E c \in Calls : AuthLoads(c)
  PROVE  CallersKeptInView'
  <1>1. CreateSocket /\ UNCHANGED <<connecting, intentional, wanted>>
    BY DEF BackoffFires, AuthLoads
  <1>2. ws'[sock'] = "connecting" /\ sock' \in Sockets
    <2>1. PICK states : ws' = [states EXCEPT ![sock'] = "connecting"]
      BY <1>1 DEF CreateSocket
    <2>2. sock' \in Nat \ {0}
      BY <1>1, Counts DEF CreateSocket, WaInv
    <2>3. sock' \in Sockets /\ ws' \in [Sockets -> WsState]
      BY <2>2 DEF WaInv, TypeOK, NoSock
    <2>. QED
      BY <2>1, <2>3
  <1>. QED
    BY <1>1, <1>2 DEF CallersKeptInView, NewsUnderWay

LEMMA ViewOfUpdates ==
  ASSUME WaInv, CallersKeptInView, NEW s \in Sockets,
         SocketStep(s) \/ LoggedOut(s) \/ Dies(s) \/ ClosedOnPurpose(s) \/ Dropped(s)
  PROVE  CallersKeptInView'
  <1>. USE DEF Push, Close
  <1>0. /\ ws \in [Sockets -> WsState] /\ timers \in Nat
        /\ intentional \in BOOLEAN /\ wanted \in BOOLEAN /\ connecting \in BOOLEAN
    BY WaEngineAssumption DEF WaInv, TypeOK
  <1>1. CASE SocketStep(s) \/ LoggedOut(s)
    <2>1. /\ owed' = FALSE /\ told' # "reconnecting"
          /\ UNCHANGED <<intentional, wanted>> /\ (connecting' = connecting \/ connecting' = FALSE)
      BY <1>1 DEF SocketStep, WsOpens, SessionOpens, LoggedOut
    <2>. QED
      BY <1>0, <2>1 DEF CallersKeptInView
  <1>2. CASE Dies(s)
    <2>1. /\ ws[s] = "open" /\ ws' = [ws EXCEPT ![s] = "closed"]
          /\ UNCHANGED <<connecting, intentional, calls, timers, told, owed, wanted>>
      BY <1>2 DEF Dies
    <2>2. \A t \in Sockets : ws[t] = "connecting" => ws'[t] = "connecting"
      BY <1>0, <2>1
    <2>. QED
      BY <2>1, <2>2 DEF CallersKeptInView, NewsUnderWay
  <1>3. CASE ClosedOnPurpose(s)
    <2>1. ~wanted /\ intentional' = FALSE /\ wanted' = wanted
      BY <1>3 DEF ClosedOnPurpose, CallersKeptInView
    <2>. QED
      BY <2>1 DEF CallersKeptInView
  <1>4. CASE Dropped(s)
    <2>1. timers' > 0 /\ UNCHANGED <<connecting, intentional, wanted>>
      BY <1>0, <1>4 DEF Dropped
    <2>. QED
      BY <2>1 DEF CallersKeptInView, NewsUnderWay
  <1>. QED
    BY <1>1, <1>2, <1>3, <1>4

LEMMA ViewKept == WaInv /\ WaInv' /\ CallersKeptInView /\ [Next]_vars => CallersKeptInView'
  <1>. SUFFICES ASSUME WaInv, WaInv', CallersKeptInView, [Next]_vars PROVE CallersKeptInView'
    OBVIOUS
  <1>1. ASSUME NEW c \in Calls,
               \/ ConnectIgnored(c) \/ ConnectStarts(c) \/ VersionSettles(c)
               \/ AuthLoads(c) \/ AuthCorrupt(c) \/ AuthFails(c)
        PROVE  CallersKeptInView'
    BY <1>1, ViewOfCalls, ViewOfCreate
  <1>2. ASSUME NEW s \in Sockets,
               SocketStep(s) \/ LoggedOut(s) \/ Dies(s) \/ ClosedOnPurpose(s) \/ Dropped(s)
        PROVE  CallersKeptInView'
    BY <1>2, ViewOfUpdates
  <1>3. CASE BackoffFires
    BY <1>3, ViewOfCreate
  <1>4. CASE Disconnect
    BY <1>4 DEF Disconnect, CallersKeptInView
  <1>5. CASE \/ UNCHANGED vars \/ PairRequested \/ PairWaits \/ PairSettles \/ Failsafe
             \/ \E s \in Sockets : ShowsQr(s)
    <2>1. UNCHANGED <<ws, connecting, intentional, calls, timers, told, owed, wanted>>
      BY <1>5 DEF vars, PairRequested, PairWaits, PairSettles, Failsafe, PairEnds, PairStep,
         connection, ShowsQr
    <2>. QED
      BY <2>1 DEF CallersKeptInView, NewsUnderWay
  <1>. QED
    BY <1>1, <1>2, <1>3, <1>4, <1>5 DEF Next

\* No caller of connect who is still interested is dropped from sight, whatever
\* calls, closes, backoff timers and disconnects cross each other: as long as
\* no news has come, a call is in its awaits, a socket is opening or a timer is
\* set.  That each of these gets on is the fairness of FairSpec.
THEOREM NoCallerForgotten == Spec => []CallersKeptInView
  <1>1. Init => CallersKeptInView
    BY DEF Init, CallersKeptInView
  <1>. QED
    BY <1>1, ViewKept, WaInvariant, PTL DEF Spec

=============================================================================
