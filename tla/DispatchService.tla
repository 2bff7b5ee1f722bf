-------------------------- MODULE DispatchService --------------------------
(***************************************************************************)
(* SchedulerService and the bridge around it: instances of the service are *)
(* created and destroyed by Android, their coroutines set up the channel   *)
(* of the one NodeBridge and dispatch messages over it; the pairing screen *)
(* keeps a service up and stops it; Node serves one TCP client at a time   *)
(* and outlives all of them.                                               *)
(*                                                                         *)
(* onStartCommand and onDestroy run on the main thread and are steps, the  *)
(* coroutines on other threads step from one suspension or check to the    *)
(* next.  Cancelling a scope ends its coroutines at their next suspension; *)
(* code between two suspensions, and a blocked readLine, go on.  A message *)
(* to Node is written by a coroutine of its own, so messages overtake each *)
(* other and the unwritten ones die with the scope.                        *)
(*                                                                         *)
(* Timeouts may fire at any time.  What a dispatch does with its rows is   *)
(* SendFlow's, how the engine connects is WaEngine's: here the engine is   *)
(* idle, connecting or open.                                               *)
(***************************************************************************)
EXTENDS Integers, Sequences, FiniteSets

CONSTANT MaxStarts  \* bound: calls of startForegroundService

ASSUME ServiceAssumption == MaxStarts \in Nat \ {0}

Starts == 1 .. MaxStarts    \* start ids
Services == 1 .. MaxStarts  \* instances of the service, in their order
None == 0

VARIABLES
    svc,       \* the instance Android counts as started, with its last start id
    dying,     \* an instance stopped whose onDestroy has not run
    made,      \* instances created
    cancelled, \* instances whose serviceScope is cancelled
    setup,     \* setupNodeRuntime of each instance
    job,       \* the coroutine of each onStartCommand
    vm,        \* the pairing screen
    chan, gen, conn,  \* NodeBridge: the instance that made the channel, generation, connectionState
    reader,    \* the reading coroutine of each channel
    out,       \* messages handed to a channel and not yet written
    inbox,     \* lines from Node not yet read
    sock,      \* the TCP connection of each instance: "shut" by Kotlin, "destroyed" by Node
    client,    \* Node: clientSocket
    nodeUp, engine, busy  \* Node: listening, the WhatsApp connection, sends in progress

android == <<svc, dying, made, cancelled>>
bridge == <<chan, gen, conn>>
tcp == <<sock, client, inbox>>
node == <<nodeUp, engine, busy>>
vars == <<android, setup, job, vm, bridge, reader, out, tcp, node>>

Event(what, start) == [what |-> what, start |-> start]
Waiting == {"channel", "connecting", "sending"}
Started == {s \in Starts : job[s].pc # "none"}

TypeOK ==
    /\ svc \in [inst : {None} \cup Services, last : {None} \cup Starts]
    /\ dying \in {None} \cup Services
    /\ made \in 0 .. MaxStarts
    /\ cancelled \subseteq 1 .. made
    /\ setup \in [Services -> {"none", "begin", "booting", "trying", "wired", "done"}]
    /\ job \in [Starts -> [inst : {None} \cup Services,
                           pc : Waiting \cup {"none", "keep", "finally", "stopping", "ended"}]]
    /\ vm \in {"off", "waiting", "connected", "left"}
    /\ chan \in {None} \cup Services
    /\ gen \in 0 .. 2 * MaxStarts
    /\ conn \in {"DISCONNECTED", "CONNECTING", "CONNECTED", "LOGGED_OUT", "ERROR"}
    /\ reader \in [Services -> [pc : {"none", "reading", "failing", "dead"}, gen : 0 .. 2 * MaxStarts]]
    /\ out \in [Services -> SUBSET [what : {"connect", "send", "disconnect"}, start : 0 .. MaxStarts]]
    /\ \A i \in Services : \A k \in DOMAIN inbox[i] :
          inbox[i][k] \in [what : {"connecting", "connected", "logged_out", "result"}, start : 0 .. MaxStarts]
    /\ sock \in [Services -> {"none", "open", "shut", "destroyed", "closed"}]
    /\ client \in {None} \cup Services
    /\ nodeUp \in BOOLEAN
    /\ engine \in {"idle", "connecting", "open"}
    /\ busy \subseteq Starts

Init ==
    /\ svc = [inst |-> None, last |-> None] /\ dying = None /\ made = 0 /\ cancelled = {}
    /\ setup = [i \in Services |-> "none"]
    /\ job = [s \in Starts |-> [inst |-> None, pc |-> "none"]]
    /\ vm = "off"
    /\ chan = None /\ gen = 0 /\ conn = "DISCONNECTED"
    /\ reader = [i \in Services |-> [pc |-> "none", gen |-> 0]]
    /\ out = [i \in Services |-> {}]
    /\ inbox = [i \in Services |-> <<>>]
    /\ sock = [i \in Services |-> "none"]
    /\ client = None
    /\ nodeUp = FALSE /\ engine = "idle" /\ busy = {}

\* sendRaw: a coroutine on the scope of the instance that made the channel
HandOver(message) ==
    out' = IF chan = None \/ chan \in cancelled \/ sock[chan] # "open" THEN out
           ELSE [out EXCEPT ![chan] = @ \cup {message}]

-----------------------------------------------------------------------------
(* Android *)

\* startForegroundService: onCreate if there is no instance, onStartCommand
StartService(s, pc) ==
    LET new == svc.inst = None
        inst == IF new THEN made + 1 ELSE svc.inst
    IN  /\ dying = None
        /\ s \notin Started /\ \A t \in Starts : t < s => t \in Started
        /\ svc' = [inst |-> inst, last |-> s]
        /\ made' = IF new THEN inst ELSE made
        /\ setup' = IF new THEN [setup EXCEPT ![inst] = "begin"] ELSE setup
        /\ job' = [job EXCEPT ![s] = [inst |-> inst, pc |-> pc]]

\* An alarm, the backstop, a retry or a resend
DispatchDueMessages(s) ==
    /\ StartService(s, "channel")
    /\ UNCHANGED <<dying, cancelled, vm, bridge, reader, out, tcp, node>>

\* PairingViewModel.requestPairingCode: keep_alive
PairingStarts(s) ==
    /\ vm = "off"
    /\ StartService(s, "keep")
    /\ vm' = "waiting"
    /\ UNCHANGED <<dying, cancelled, bridge, reader, out, tcp, node>>

\* The channel is there: connect().
PairingConnects ==
    /\ vm = "waiting" /\ chan # None
    /\ vm' = "connected"
    /\ conn' = "CONNECTING"
    /\ HandOver(Event("connect", 0))
    /\ UNCHANGED <<android, setup, job, chan, gen, reader, tcp, node>>

Stop == svc' = [svc EXCEPT !.inst = None] /\ dying' = svc.inst

\* onCleared: stopService, since serviceStartedByUs
PairingLeaves ==
    /\ vm \in {"waiting", "connected"}
    /\ vm' = "left"
    /\ IF svc.inst # None THEN Stop ELSE UNCHANGED <<svc, dying>>
    /\ UNCHANGED <<made, cancelled, setup, job, bridge, reader, out, tcp, node>>

\* onDestroy: resetChannel, and the scope is cancelled.  What a coroutine has
\* written of the messages still reaches Node.
Destroy ==
    /\ dying # None
    /\ sock' = IF chan # None /\ sock[chan] = "open" THEN [sock EXCEPT ![chan] = "shut"] ELSE sock
    /\ chan' = None /\ gen' = gen + 1 /\ conn' = "DISCONNECTED"
    /\ cancelled' = cancelled \cup {dying}
    /\ \E written \in SUBSET out[dying] : out' = [out EXCEPT ![dying] = written]
    /\ dying' = None
    /\ UNCHANGED <<svc, made, setup, job, vm, reader, inbox, client, node>>

-----------------------------------------------------------------------------
(* setupNodeRuntime *)

SetupStep(i, from, to) == setup[i] = from /\ setup' = [setup EXCEPT ![i] = to]
UnchangedBySetup == UNCHANGED <<android, job, vm, engine, busy>>

SetupBegins(i) ==
    /\ SetupStep(i, "begin", IF chan # None THEN "done" ELSE "booting")
    /\ UnchangedBySetup /\ UNCHANGED <<bridge, reader, out, tcp, nodeUp>>

\* net.createServer's callback: Node destroys the client it had.
ReplacesClient == [j \in Services |-> IF j = client THEN "destroyed" ELSE sock[j]]

\* Probe, assets and the start of Node block and are not cut off.  The probe is
\* a client, too, which closes at once; without an entry point there is no
\* channel.
Boots(i) ==
    /\ \E to \in {"trying", "done"} : SetupStep(i, "booting", to)
    /\ IF nodeUp THEN sock' = ReplacesClient /\ client' = None ELSE UNCHANGED <<sock, client>>
    /\ UnchangedBySetup /\ UNCHANGED <<bridge, reader, out, inbox, nodeUp>>

NodeListens ==
    /\ ~nodeUp /\ \E i \in Services : setup[i] = "trying"
    /\ nodeUp' = TRUE
    /\ UNCHANGED <<android, setup, job, vm, bridge, reader, out, tcp, engine, busy>>

\* Socket("127.0.0.1", port)
SocketConnects(i) ==
    /\ nodeUp
    /\ SetupStep(i, "trying", "wired")
    /\ sock' = [ReplacesClient EXCEPT ![i] = "open"]
    /\ client' = i
    /\ UnchangedBySetup /\ UNCHANGED <<bridge, reader, out, inbox, nodeUp>>

\* 61 attempts, half a second apart, or the scope cancelled in between
SetupEnds(i) ==
    /\ \/ SetupStep(i, "trying", "done") /\ (~nodeUp \/ i \in cancelled)
       \/ SetupStep(i, "begin", "done") /\ i \in cancelled
    /\ UnchangedBySetup /\ UNCHANGED <<bridge, reader, out, tcp, nodeUp>>

\* initChannel, also for an instance destroyed meanwhile: no suspension lies
\* before it.  A reader launched on a cancelled scope does not run.
InitChannel(i) ==
    /\ SetupStep(i, "wired", "done")
    /\ chan' = i /\ gen' = gen + 1
    /\ reader' = IF i \in cancelled THEN reader
                 ELSE [reader EXCEPT ![i] = [pc |-> "reading", gen |-> gen + 1]]
    /\ UnchangedBySetup /\ UNCHANGED <<conn, out, tcp, nodeUp>>

-----------------------------------------------------------------------------
(* The reader of a channel *)

StateOf(what) == CASE what = "connected" -> "CONNECTED"
                   [] what = "connecting" -> "CONNECTING"
                   [] what = "logged_out" -> "LOGGED_OUT"

\* A line is dispatched by what it is, whichever generation its reader is of.
ReaderGets(i) ==
    /\ reader[i].pc = "reading" /\ inbox[i] # <<>>
    /\ inbox' = [inbox EXCEPT ![i] = Tail(@)]
    /\ LET line == Head(inbox[i]) IN
          IF line.what = "result"
          THEN /\ job' = IF job[line.start].pc # "sending" THEN job
                         ELSE [job EXCEPT ![line.start].pc = "finally"]
               /\ UNCHANGED conn
          ELSE conn' = StateOf(line.what) /\ UNCHANGED job
    /\ UNCHANGED <<android, setup, vm, chan, gen, reader, out, sock, client, node>>

\* End of file or an exception: the generation is looked at first ...
ReaderEnds(i) ==
    /\ reader[i].pc = "reading" /\ sock[i] # "open"
    /\ reader' = [reader EXCEPT ![i].pc = IF reader[i].gen = gen THEN "failing" ELSE "dead"]
    /\ UNCHANGED <<android, setup, job, vm, bridge, out, tcp, node>>

\* ... then the state is set and every pending call fails.
ReaderFails(i) ==
    /\ reader[i].pc = "failing"
    /\ reader' = [reader EXCEPT ![i].pc = "dead"]
    /\ conn' = "ERROR"
    /\ job' = [s \in Starts |-> IF job[s].pc = "sending" THEN [job[s] EXCEPT !.pc = "finally"]
                                ELSE job[s]]
    /\ UNCHANGED <<android, setup, vm, chan, gen, out, tcp, node>>

-----------------------------------------------------------------------------
(* A dispatch *)

JobStep(s, from, to) == job[s].pc \in from /\ job' = [job EXCEPT ![s].pc = to]
UnchangedByJob == UNCHANGED <<made, cancelled, setup, vm, chan, gen, reader, tcp, node>>

ConnectsOnce(s) ==
    /\ chan # None
    /\ JobStep(s, {"channel"}, "connecting")
    /\ conn' = "CONNECTING"
    /\ HandOver(Event("connect", s))
    /\ UnchangedByJob /\ UNCHANGED <<svc, dying>>

\* waitForConnected returns, and the message goes to Node, past several
\* suspensions.
Sends(s) ==
    /\ conn = "CONNECTED" /\ job[s].inst \notin cancelled
    /\ JobStep(s, {"connecting"}, "sending")
    /\ HandOver(Event("send", s))
    /\ UnchangedByJob /\ UNCHANGED <<svc, dying, conn>>

NotConnected(s) ==
    /\ conn \in {"LOGGED_OUT", "ERROR"}
    /\ JobStep(s, {"connecting"}, "finally")
    /\ UnchangedByJob /\ UNCHANGED <<svc, dying, conn, out>>

\* Mutated: waiting for the connection has no timeout.
TimesOutSending(s) ==
    /\ JobStep(s, {"channel", "sending"}, "finally")
    /\ UnchangedByJob /\ UNCHANGED <<svc, dying, conn, out>>

\* Mutated: a timeout leaves the coroutine past its finally block.
TimesOutForGood(s) ==
    /\ JobStep(s, Waiting, "ended")
    /\ UnchangedByJob /\ UNCHANGED <<svc, dying, conn, out>>

\* 90 s for the channel, 60 s for the connection, CALL_TIMEOUT_MS for the call
TimesOut(s) ==
    /\ JobStep(s, Waiting, "finally")
    /\ UnchangedByJob /\ UNCHANGED <<svc, dying, conn, out>>

Cancelled(s) ==
    /\ job[s].inst \in cancelled
    /\ JobStep(s, Waiting, "finally")
    /\ UnchangedByJob /\ UNCHANGED <<svc, dying, conn, out>>

\* The finally block: disconnect() over the channel there is by now ...
Disconnects(s) ==
    /\ JobStep(s, {"finally"}, "stopping")
    /\ conn' = "DISCONNECTED"
    /\ HandOver(Event("disconnect", s))
    /\ UnchangedByJob /\ UNCHANGED <<svc, dying>>

\* Mutated: stopSelf() without a start id.
StopsItself(s) ==
    /\ JobStep(s, {"stopping"}, "ended")
    /\ IF svc.inst = job[s].inst THEN Stop ELSE UNCHANGED <<svc, dying>>
    /\ UnchangedByJob /\ UNCHANGED <<conn, out>>

\* ... and stopSelf(startId), which Android heeds if no start came after it.
StopsSelf(s) ==
    /\ JobStep(s, {"stopping"}, "ended")
    /\ IF svc = [inst |-> job[s].inst, last |-> s] THEN Stop ELSE UNCHANGED <<svc, dying>>
    /\ UnchangedByJob /\ UNCHANGED <<conn, out>>

-----------------------------------------------------------------------------
(* Node *)

\* sendResponse: to the client of the moment
Push(event) ==
    inbox' = IF client = None \/ sock[client] # "open" THEN inbox
             ELSE [inbox EXCEPT ![client] = Append(@, event)]

UnchangedByNode == UNCHANGED <<android, setup, job, vm, bridge, reader, nodeUp>>

\* connectToWhatsApp: a socket that is open, or opening and already a live
\* WebSocket, is answered at once.
NodeConnects ==
    \/ engine \in {"connecting", "open"} /\ Push(Event("connected", 0)) /\ UNCHANGED engine
    \/ engine \in {"idle", "connecting"} /\ Push(Event("connecting", 0)) /\ engine' = "connecting"

NodeGets(i, message) ==
    /\ message \in out[i] /\ sock[i] \in {"open", "shut"}
    /\ out' = [out EXCEPT ![i] = @ \ {message}]
    /\ CASE message.what = "connect" -> NodeConnects /\ UNCHANGED busy
         [] message.what = "disconnect" -> engine' = "idle" /\ UNCHANGED <<inbox, busy>>
         [] message.what = "send" -> busy' = busy \cup {message.start} /\ UNCHANGED <<inbox, engine>>
    /\ UnchangedByNode /\ UNCHANGED <<sock, client>>

NodeAnswers(s) ==
    /\ s \in busy
    /\ busy' = busy \ {s}
    /\ Push(Event("result", s))
    /\ UnchangedByNode /\ UNCHANGED <<out, sock, client, engine>>

EngineSettles ==
    /\ engine = "connecting"
    /\ \/ engine' = "open" /\ Push(Event("connected", 0))
       \/ engine' = "idle" /\ Push(Event("logged_out", 0))
    /\ UnchangedByNode /\ UNCHANGED <<out, sock, client, busy>>

\* Mutated: whichever socket closes, there is no client any more.
SocketClosedForAll(i) ==
    /\ sock[i] \in {"shut", "destroyed"}
    /\ sock' = [sock EXCEPT ![i] = "closed"]
    /\ client' = None
    /\ out' = [out EXCEPT ![i] = {}]
    /\ UnchangedByNode /\ UNCHANGED <<inbox, engine, busy>>

\* The close event, which comes after a new client may have been accepted.
SocketClosed(i) ==
    /\ sock[i] \in {"shut", "destroyed"}
    /\ sock' = [sock EXCEPT ![i] = "closed"]
    /\ client' = IF client = i THEN None ELSE client
    /\ out' = [out EXCEPT ![i] = {}]
    /\ UnchangedByNode /\ UNCHANGED <<inbox, engine, busy>>

-----------------------------------------------------------------------------

Android(s) == DispatchDueMessages(s) \/ PairingStarts(s)
Setup(i) == SetupBegins(i) \/ Boots(i) \/ SocketConnects(i) \/ SetupEnds(i) \/ InitChannel(i)
Reader(i) == ReaderGets(i) \/ ReaderEnds(i) \/ ReaderFails(i)
Job(s) == ConnectsOnce(s) \/ Sends(s) \/ NotConnected(s) \/ TimesOut(s) \/ Cancelled(s)
          \/ Disconnects(s) \/ StopsSelf(s)
Node == \/ NodeListens \/ EngineSettles
        \/ \E s \in Starts : NodeAnswers(s)
        \/ \E i \in Services : SocketClosed(i) \/ \E message \in out[i] : NodeGets(i, message)

Next == \/ \E s \in Starts : Android(s) \/ Job(s)
        \/ \E i \in Services : Setup(i) \/ Reader(i)
        \/ PairingConnects \/ PairingLeaves \/ Destroy \/ Node

Spec == Init /\ [][Next]_vars

\* Threads that are neither blocked nor waiting run on, the main thread
\* included, and a timeout fires.
Fairness ==
    /\ \A s \in Starts : WF_vars(TimesOut(s)) /\ WF_vars(Disconnects(s)) /\ WF_vars(StopsSelf(s))
    /\ WF_vars(Destroy)

FairSpec == Spec /\ Fairness

-----------------------------------------------------------------------------
(* Properties *)

\* Node has one Kotlin client, the open connection is the one it answers to,
\* and closing an old one late does not take the new one's place
\* (index.js:51-77).
ClientIsTheOpenSocket ==
    /\ \A i \in Services : sock[i] = "open" => client = i
    /\ client # None => sock[client] # "closed"

\* A dispatch is cut off in mid-send by nobody but the user, who left the
\* pairing screen, or a dispatch started after it (SchedulerService.kt:347).
CutOnlyByNewerOrUser ==
    \A s \in Starts : job[s].inst \in cancelled /\ job[s].pc \in Waiting =>
        \/ vm = "left"
        \/ \E t \in Starts : t > s /\ job[t].inst = job[s].inst /\ job[t].pc = "ended"

\* Every dispatch comes to its end, whatever becomes of Node, the channel, the
\* connection or the service (SchedulerService.kt:308, 368; NodeBridge.kt:426).
DispatchEnds == \A s \in Starts : job[s].pc \in Waiting ~> job[s].pc = "ended"

\* "no idle service" (wp_brain.md:48): with all dispatches at their end and
\* the pairing screen closed, no service is up.
NoIdleService ==
    (\A s \in Starts : job[s].pc \in {"none", "keep", "ended"}) /\ vm \in {"off", "left"}
        => svc.inst = None

=============================================================================
