------------------------------ MODULE WaEngine ------------------------------
(***************************************************************************)
(* The WhatsApp connection of the embedded Node engine (whatsapp.js):      *)
(* connectToWhatsApp with its awaits, createSocket, the connection.update  *)
(* handler with its backoff timers, disconnectWhatsApp, startPairing.      *)
(*                                                                         *)
(* Node runs one callback at a time, so a step is the code between two     *)
(* awaits.  Baileys' sockets are external: a socket opens its WebSocket,   *)
(* shows a QR, opens the session, or closes, when it likes.  Timers and    *)
(* timeouts may fire at any moment.                                        *)
(***************************************************************************)
EXTENDS Integers, FiniteSets

CONSTANTS
    Calls,         \* connect requests; each is made once
    MaxCloses,     \* bound: sockets that close of themselves
    MaxPairings    \* bound: pairing requests, one at a time

ASSUME WaEngineAssumption ==
    /\ IsFiniteSet(Calls)
    /\ MaxCloses \in Nat
    /\ MaxPairings \in Nat

NoSock == 0
\* Every call and every backoff timer creates at most one socket.
Sockets == 1 .. (Cardinality(Calls) + MaxCloses)

VARIABLES
    sock,          \* the module's variable
    ws,            \* what became of each socket
    qr,            \* sockets that have shown a QR: pairingReadyPromise resolved
    connecting,    \* isConnectingOrConnected
    intentional,   \* intentionalClose
    calls,         \* connectToWhatsApp invocations
    timers,        \* backoff timers not yet fired
    told,          \* the last connection_event pushed to Kotlin
    owed,          \* Kotlin has asked to connect and was told nothing since
    wanted,        \* Kotlin's last request: connect (TRUE) or disconnect
    pair,          \* the pairing request
    closes, pairings

vars == <<sock, ws, qr, connecting, intentional, calls, timers, told, owed, wanted,
          pair, closes, pairings>>
connection == <<sock, ws, qr, connecting, intentional, calls, timers, told, owed, wanted, closes>>

WsState == {"unmade", "connecting", "handshake", "open", "closed", "ended"}
Events == {"none", "connecting", "connected", "reconnecting", "logged_out", "error"}
Made == {s \in Sockets : ws[s] # "unmade"}
WsOpen(s) == s # NoSock /\ ws[s] \in {"handshake", "open"}

NoPairing == [pc |-> "idle", ready |-> NoSock, target |-> NoSock, answers |-> 0]

TypeOK ==
    /\ sock \in Sockets \cup {NoSock}
    /\ ws \in [Sockets -> WsState]
    /\ qr \subseteq Made
    /\ connecting \in BOOLEAN /\ intentional \in BOOLEAN
    /\ calls \in [Calls -> {"unused", "version", "auth", "done"}]
    /\ timers \in 0 .. MaxCloses
    /\ told \in Events
    /\ owed \in BOOLEAN /\ wanted \in BOOLEAN
    /\ pair \in [pc : {"idle", "poll", "ready", "code"}, ready : Sockets \cup {NoSock},
                 target : Sockets \cup {NoSock}, answers : Nat]
    /\ closes \in 0 .. MaxCloses
    /\ pairings \in 0 .. MaxPairings

Init ==
    /\ sock = NoSock
    /\ ws = [s \in Sockets |-> "unmade"]
    /\ qr = {}
    /\ connecting = FALSE /\ intentional = FALSE
    /\ calls = [c \in Calls |-> "unused"]
    /\ timers = 0
    /\ told = "none" /\ owed = FALSE /\ wanted = FALSE
    /\ pair = NoPairing
    /\ closes = 0 /\ pairings = 0

\* connectionCallback({ state })
Push(event) == told' = event /\ owed' = FALSE

\* removeAllListeners and end: the socket is never heard of again.
End(s, states) == IF s = NoSock THEN states ELSE [states EXCEPT ![s] = "ended"]

-----------------------------------------------------------------------------
(* connectToWhatsApp *)

\* Mutated: the guard trusts the flag alone, and tells nobody.
ConnectIgnoredByFlag(c) ==
    /\ calls[c] = "unused"
    /\ connecting
    /\ calls' = [calls EXCEPT ![c] = "done"]
    /\ owed' = TRUE
    /\ wanted' = TRUE
    /\ UNCHANGED <<sock, ws, qr, connecting, intentional, timers, told, pair, closes, pairings>>

\* The guard: a WebSocket that is open, whatever the session's state.
ConnectIgnored(c) ==
    /\ calls[c] = "unused"
    /\ connecting /\ WsOpen(sock)
    /\ calls' = [calls EXCEPT ![c] = "done"]
    /\ Push("connected")
    /\ wanted' = TRUE
    /\ UNCHANGED <<sock, ws, qr, connecting, intentional, timers, pair, closes, pairings>>

ConnectStarts(c) ==
    /\ calls[c] = "unused"
    /\ ~(connecting /\ WsOpen(sock))
    /\ connecting' = TRUE
    /\ intentional' = FALSE
    /\ ws' = End(sock, ws)
    /\ sock' = NoSock
    /\ calls' = [calls EXCEPT ![c] = "version"]
    /\ owed' = TRUE
    /\ wanted' = TRUE
    /\ UNCHANGED <<qr, timers, told, pair, closes, pairings>>

\* await Promise.race([fetchLatestBaileysVersion(), 5 s]) settles either way.
VersionSettles(c) ==
    /\ calls[c] = "version"
    /\ calls' = [calls EXCEPT ![c] = "auth"]
    /\ UNCHANGED <<sock, ws, qr, connecting, intentional, timers, told, owed, wanted,
                   pair, closes, pairings>>

\* Mutated: the previous socket is left alone.
CreateSocketBeside ==
    LET s == Cardinality(Made) + 1 IN
    ws' = [ws EXCEPT ![s] = "connecting"] /\ sock' = s

CreateSocket ==
    LET s == Cardinality(Made) + 1 IN
    ws' = [End(sock, ws) EXCEPT ![s] = "connecting"] /\ sock' = s

\* await useAtomicFileAuthState(sessionDir)
AuthLoads(c) ==
    /\ calls[c] = "auth"
    /\ calls' = [calls EXCEPT ![c] = "done"]
    /\ CreateSocket
    /\ UNCHANGED <<qr, connecting, intentional, timers, told, owed, wanted, pair, closes, pairings>>

\* AuthStateCorruptError: the flag stays set.
AuthCorrupt(c) ==
    /\ calls[c] = "auth"
    /\ calls' = [calls EXCEPT ![c] = "done"]
    /\ Push("logged_out")
    /\ UNCHANGED <<sock, ws, qr, connecting, intentional, timers, wanted, pair, closes, pairings>>

\* Any other failure: index.js turns the rejection into an error event.
AuthFails(c) ==
    /\ calls[c] = "auth"
    /\ calls' = [calls EXCEPT ![c] = "done"]
    /\ connecting' = FALSE
    /\ Push("error")
    /\ UNCHANGED <<sock, ws, qr, intentional, timers, wanted, pair, closes, pairings>>

-----------------------------------------------------------------------------
(* connection.update; only sockets that are not ended have listeners *)

WsOpens(s) ==
    /\ ws[s] = "connecting"
    /\ ws' = [ws EXCEPT ![s] = "handshake"]
    /\ Push("connecting")
    /\ UNCHANGED <<sock, qr, connecting, intentional, calls, timers, wanted, pair, closes, pairings>>

\* resolvePairingReady.  A pairing that awaits the promise continues in the
\* same turn of the event loop and asks whatever sock is now for the code.
Asking(s) == [pair EXCEPT !.pc = "code", !.target = s]
ShowsQr(s) ==
    /\ ws[s] = "handshake"
    /\ s \notin qr
    /\ qr' = qr \cup {s}
    /\ pair' = IF pair.pc = "ready" /\ pair.ready = s THEN Asking(sock) ELSE pair
    /\ UNCHANGED <<sock, ws, connecting, intentional, calls, timers, told, owed, wanted,
                   closes, pairings>>

SessionOpens(s) ==
    /\ ws[s] = "handshake"
    /\ ws' = [ws EXCEPT ![s] = "open"]
    /\ Push("connected")
    /\ UNCHANGED <<sock, qr, connecting, intentional, calls, timers, wanted, pair, closes, pairings>>

Close(s) ==
    /\ ws[s] \in {"connecting", "handshake", "open"}
    /\ closes < MaxCloses
    /\ closes' = closes + 1
    /\ ws' = [ws EXCEPT ![s] = "closed"]

LoggedOut(s) ==
    /\ Close(s)
    /\ connecting' = FALSE
    /\ Push("logged_out")
    /\ UNCHANGED <<sock, qr, intentional, calls, timers, wanted, pair, pairings>>

ClosedOnPurpose(s) ==
    /\ Close(s)
    /\ intentional
    /\ intentional' = FALSE
    /\ connecting' = FALSE
    /\ UNCHANGED <<sock, qr, calls, timers, told, owed, wanted, pair, pairings>>

\* Mutated: no reconnect is scheduled.
DroppedForGood(s) ==
    /\ Close(s)
    /\ ~intentional
    /\ Push("reconnecting")
    /\ UNCHANGED <<sock, qr, connecting, intentional, calls, timers, wanted, pair, pairings>>

Dropped(s) ==
    /\ Close(s)
    /\ ~intentional
    /\ timers' = timers + 1
    /\ Push("reconnecting")
    /\ UNCHANGED <<sock, qr, connecting, intentional, calls, wanted, pair, pairings>>

\* The WebSocket dies and no close event comes (whatsapp.js:87-90).
Dies(s) ==
    /\ ws[s] = "open"
    /\ Close(s)
    /\ UNCHANGED <<sock, qr, connecting, intentional, calls, timers, told, owed, wanted,
                   pair, pairings>>

\* setTimeout(createSocket, backoff): nothing cancels it, nothing is checked.
BackoffFires ==
    /\ timers > 0
    /\ timers' = timers - 1
    /\ CreateSocket
    /\ UNCHANGED <<qr, connecting, intentional, calls, told, owed, wanted, pair, closes, pairings>>

\* The listeners go before end(), so the close of sock is not heard.
Disconnect ==
    /\ wanted
    /\ wanted' = FALSE
    /\ intentional' = TRUE
    /\ connecting' = FALSE
    /\ ws' = End(sock, ws)
    /\ sock' = NoSock
    /\ UNCHANGED <<qr, calls, timers, told, owed, pair, closes, pairings>>

-----------------------------------------------------------------------------
(* startPairing and the requestPairingCode case of index.js *)

PairStep(record) == pair' = record /\ UNCHANGED <<connection, pairings>>

\* onResult: only the first answer is sent.
PairEnds == PairStep([NoPairing EXCEPT !.answers = 1])

PairRequested ==
    /\ pair.pc = "idle"
    /\ pairings < MaxPairings
    /\ pairings' = pairings + 1
    /\ pair' = [NoPairing EXCEPT !.pc = "poll"]
    /\ UNCHANGED connection

\* Mutated: pairing goes on without waiting for the QR.
PairAsksAtOnce ==
    /\ pair.pc = "poll"
    /\ sock # NoSock
    /\ PairStep(Asking(sock))

\* A socket exists: wait for ITS pairingReadyPromise, which may be resolved.
PairWaits ==
    /\ pair.pc = "poll"
    /\ sock # NoSock
    /\ PairStep(IF sock \in qr THEN Asking(sock)
                ELSE [pair EXCEPT !.pc = "ready", !.ready = sock])

\* Mutated: the wait for the QR has no timeout.
PairSettlesWithCode == pair.pc = "code" /\ PairEnds

\* The code, or: no socket after 10 s, already registered, no QR after 30 s,
\* sock is null, request failed or timed out after 45 s.
PairSettles == pair.pc # "idle" /\ PairEnds

\* The 60 s failsafe answers; startPairing goes on unheard.
Failsafe ==
    /\ pair.pc # "idle"
    /\ pair.answers = 0
    /\ PairStep([pair EXCEPT !.answers = 1])

-----------------------------------------------------------------------------
SocketStep(s) == WsOpens(s) \/ SessionOpens(s)

Next ==
    \/ \E c \in Calls : \/ ConnectIgnored(c) \/ ConnectStarts(c) \/ VersionSettles(c)
                        \/ AuthLoads(c) \/ AuthCorrupt(c) \/ AuthFails(c)
    \/ \E s \in Sockets : \/ SocketStep(s) \/ ShowsQr(s) \/ LoggedOut(s) \/ Dies(s)
                          \/ ClosedOnPurpose(s) \/ Dropped(s)
    \/ BackoffFires \/ Disconnect
    \/ PairRequested \/ PairWaits \/ PairSettles \/ Failsafe

Spec == Init /\ [][Next]_vars

\* Awaits settle (the version fetch by its 5 s race), timers fire, a socket
\* opens its WebSocket or closes, and every wait of startPairing has a timeout.
FairSpec ==
    /\ Spec
    /\ \A c \in Calls : WF_vars(VersionSettles(c)) /\ WF_vars(AuthLoads(c) \/ AuthCorrupt(c) \/ AuthFails(c))
    /\ WF_vars(BackoffFires)
    /\ \A s \in Sockets : WF_vars(SocketStep(s))
    /\ WF_vars(PairSettles)

-----------------------------------------------------------------------------
(* Properties *)

Alive == {s \in Sockets : ws[s] \in {"connecting", "handshake", "open"}}

\* No two sockets ever share the auth state, although connect calls overlap in
\* their awaits and backoff timers fire among them (whatsapp.js:180-183).
OneSocket == \A s \in Alive : s = sock

\* A caller of connect that is still interested learns something about it: no
\* call is swallowed by the guard, a corrupt session or a failed start
\* (whatsapp.js:101-106).
ConnectAnswered == (owed /\ wanted) ~> (~owed \/ ~wanted)

\* "reconnecting" is not the last thing Kotlin hears, whatever calls, closes
\* and timers cross each other.
ReconnectFollows == (told = "reconnecting" /\ wanted) ~> (told # "reconnecting" \/ ~wanted)

\* A pairing code is only asked of a socket that has shown its QR, though the
\* promise is replaced with every socket and sock may change while it is
\* awaited (whatsapp.js:223-224).
CodeFromReadySocket == pair.pc = "code" => pair.target \in qr

\* Every pairing request is answered once, whichever of failsafe and result comes
\* first (index.js:120-137), also when the socket whose QR it awaits
\* has been replaced.
PairingAnswered == (pair.pc # "idle") ~> (pair.answers = 1)

\* whatsapp.js:71-74: the guard "prevents the exponential-backoff
\* setTimeout(createSocket, backoff) from firing after a deliberate
\* disconnectWhatsApp() call".
NoReconnectAfterDisconnect == [][BackoffFires => wanted]_vars

=============================================================================
