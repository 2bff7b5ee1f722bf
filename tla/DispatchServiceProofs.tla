------------------------ MODULE DispatchServiceProofs ------------------------
(***************************************************************************)
(* Theorems about the service, its dispatches and the channel, for any     *)
(* number of starts.                                                       *)
(*                                                                         *)
(* The inductive invariant comes in four parts that touch different        *)
(* variables: the life of starts and instances, the TCP connections, the   *)
(* channels, and the lines and messages under way.  On top of it, that the *)
(* newest start of a service that is up goes on (LastGoesOn).              *)
(***************************************************************************)
EXTENDS DispatchService, SequenceTheorems, FiniteSetTheorems, TLAPS

Unfinished == Waiting \cup {"keep", "finally", "stopping"}
JobRecord == [inst : {None} \cup Services, pc : Waiting \cup {"none", "keep", "finally", "stopping", "ended"}]
Message == {m \in [what : {"connect", "send", "disconnect"}, start : 0 .. MaxStarts] :
               m.what = "send" => m.start \in Starts}
Line == {l \in [what : {"connecting", "connected", "logged_out", "result"}, start : 0 .. MaxStarts] :
            l.what = "result" => l.start \in Starts}

\* Starts are made in their order; an instance is made by the first of its starts.
StartsFit ==
    /\ svc \in [inst : {None} \cup Services, last : {None} \cup Starts]
    /\ made \in 0 .. MaxStarts
    /\ job \in [Starts -> JobRecord]
    /\ \A s, t \in Starts : t < s /\ job[s].pc # "none" => job[t].pc # "none"
    /\ \A s \in Starts : IF job[s].pc = "none" THEN made < s /\ job[s].inst = None
                         ELSE job[s].inst \in 1 .. made

\* The instance Android counts as started is the newest of those not stopped,
\* and knows its last start.
InstancesFit ==
    /\ vm \in {"off", "waiting", "connected", "left"}
    /\ cancelled \subseteq 1 .. made
    /\ dying # None => dying \in (1 .. made) \ cancelled /\ svc.inst = None
    /\ svc.inst # None =>
           /\ svc.inst \in (1 .. made) \ cancelled
           /\ svc.last \in Starts
           /\ \A s \in Starts : job[s].inst = svc.inst => s <= svc.last

\* The user left the pairing screen, or the last dispatch of the instance is over.
Excused(i) ==
    \/ vm = "left"
    \/ \E t \in Starts : /\ job[t].inst = i /\ job[t].pc = "ended"
                         /\ \A s \in Starts : job[s].inst = i => s <= t
StopsFit == \A i \in Services : i \in cancelled \/ i = dying => Excused(i)

LifeInv == StartsFit /\ InstancesFit /\ StopsFit

SocketInv ==
    /\ sock \in [Services -> {"none", "open", "shut", "destroyed", "closed"}]
    /\ client \in {None} \cup Services
    /\ ClientIsTheOpenSocket

\* Each instance opens one channel and closes one.
Settled == {i \in Services : setup[i] = "done"}
ChannelInv ==
    /\ setup \in [Services -> {"none", "begin", "booting", "trying", "wired", "done"}]
    /\ \A i \in Services : i > made => setup[i] = "none"
    /\ chan \in {None} \cup Services
    /\ gen \in Nat /\ gen <= Cardinality(cancelled) + Cardinality(Settled)
    /\ conn \in {"DISCONNECTED", "CONNECTING", "CONNECTED", "LOGGED_OUT", "ERROR"}
    /\ reader \in [Services -> [pc : {"none", "reading", "failing", "dead"}, gen : 0 .. 2 * MaxStarts]]

TrafficInv ==
    /\ out \in [Services -> SUBSET Message]
    /\ inbox \in [Services -> Seq(Line)]
    /\ nodeUp \in BOOLEAN
    /\ engine \in {"idle", "connecting", "open"}
    /\ busy \subseteq Starts

-----------------------------------------------------------------------------
(* The life of starts and instances *)

LEMMA Numbers ==
  /\ MaxStarts \in Nat \ {0} /\ None \notin Starts /\ None \notin Services
  /\ Starts = 1 .. MaxStarts /\ Services = 1 .. MaxStarts
  BY ServiceAssumption DEF None, Starts, Services

\* Jobs that go on or end their wait; none starts, none has ended before.
LEMMA JobsMove ==
  ASSUME LifeInv, UNCHANGED <<android, vm>>, job' \in [Starts -> JobRecord],
         \A s \in Starts : /\ job'[s].inst = job[s].inst
                           /\ job'[s] = job[s]
                              \/ (job[s].pc \in Unfinished /\ job'[s].pc # "none")
  PROVE  LifeInv'
  <1>1. \A s \in Starts : /\ job'[s].pc = "none" <=> job[s].pc = "none"
                          /\ job[s].pc = "ended" => job'[s].pc = "ended"
                          /\ job'[s].inst = job[s].inst
    BY DEF Unfinished, Waiting
  <1>2. UNCHANGED <<svc, dying, made, cancelled, vm>>
    BY DEF android
  <1>3. StartsFit'
    BY <1>1, <1>2 DEF LifeInv, StartsFit
  <1>4. InstancesFit'
    BY <1>1, <1>2 DEF LifeInv, InstancesFit
  <1>5. \A i : Excused(i) => Excused(i)'
    BY <1>1, <1>2 DEF Excused
  <1>6. StopsFit'
    BY <1>2, <1>5 DEF LifeInv, StopsFit
  <1>. QED
    BY <1>3, <1>4, <1>6 DEF LifeInv

LEMMA JobStepMoves ==
  ASSUME LifeInv, UNCHANGED <<android, vm>>, NEW s \in Starts, NEW from, NEW to,
         JobStep(s, from, to), from \subseteq Unfinished, to \in Unfinished
  PROVE  LifeInv'
  <1>1. job \in [Starts -> JobRecord]
    BY DEF LifeInv, StartsFit
  <1>2. job' = [job EXCEPT ![s].pc = to] /\ job[s].pc \in Unfinished
    BY DEF JobStep
  <1>3. job' \in [Starts -> JobRecord]
    BY <1>1, <1>2 DEF JobRecord, Unfinished, Waiting
  <1>4. \A t \in Starts : /\ job'[t].inst = job[t].inst
                          /\ job'[t] = job[t]
                             \/ (job[t].pc \in Unfinished /\ job'[t].pc # "none")
    BY <1>1, <1>2 DEF JobRecord, Unfinished, Waiting
  <1>. QED
    BY <1>3, <1>4, JobsMove

LEMMA LifeStays ==
  ASSUME LifeInv, UNCHANGED <<android, job, vm>>
  PROVE  LifeInv'
  BY DEF LifeInv, StartsFit, InstancesFit, StopsFit, Excused, android

\* startForegroundService: the next start, on the instance there is or a new one.
LEMMA StartKeeps ==
  ASSUME LifeInv, NEW s \in Starts, NEW pc \in Unfinished, StartService(s, pc),
         vm' \in {"off", "waiting", "connected", "left"}, vm = "left" => vm' = "left",
         UNCHANGED <<dying, cancelled>>
  PROVE  LifeInv' /\ made \in Nat /\ made' \in {made, made + 1} /\ made < s
  <1>. DEFINE inst == IF svc.inst = None THEN made + 1 ELSE svc.inst
  <1>0. /\ dying = None /\ made \in Nat /\ svc \in [inst : {None} \cup Services, last : {None} \cup Starts]
        /\ job \in [Starts -> JobRecord] /\ cancelled \subseteq 1 .. made
        /\ vm \in {"off", "waiting", "connected", "left"}
    BY DEF StartService, LifeInv, StartsFit, InstancesFit
  <1>1. /\ job[s].pc = "none" /\ made < s
        /\ \A t \in Starts : t < s => job[t].pc # "none"
        /\ \A t \in Starts : t > s => job[t].pc = "none"
    BY Numbers DEF StartService, Started, LifeInv, StartsFit
  <1>2. /\ svc' = [inst |-> inst, last |-> s]
        /\ made' = IF svc.inst = None THEN made + 1 ELSE made
        /\ job' = [job EXCEPT ![s] = [inst |-> inst, pc |-> pc]]
    BY DEF StartService
  <1>3. /\ inst \in 1 .. made' /\ inst \notin cancelled /\ made' \in {made, made + 1} /\ made' <= s
        /\ inst \in Services /\ made' \in 0 .. MaxStarts /\ inst # None
    <2>1. CASE svc.inst = None
      BY <1>0, <1>1, <1>2, <2>1, Numbers
    <2>2. CASE svc.inst # None
      BY <1>0, <1>1, <1>2, <2>2, Numbers DEF LifeInv, InstancesFit
    <2>. QED
      BY <2>1, <2>2
  <1>. HIDE DEF inst
  <1>4. /\ job' \in [Starts -> JobRecord] /\ job'[s].inst = inst /\ job'[s].pc = pc
        /\ pc # "none" /\ pc # "ended"
        /\ \A t \in Starts : t # s => job'[t] = job[t]
    BY <1>0, <1>2, <1>3 DEF JobRecord, Unfinished, Waiting
  <1>5. StartsFit'
    <2>1. \A t, u \in Starts : u < t /\ job'[t].pc # "none" => job'[u].pc # "none"
      BY <1>1, <1>4, Numbers DEF LifeInv, StartsFit
    <2>2. ASSUME NEW t \in Starts
          PROVE  IF job'[t].pc = "none" THEN made' < t /\ job'[t].inst = None
                 ELSE job'[t].inst \in 1 .. made'
      <3>1. CASE t = s
        BY <1>3, <1>4, <3>1
      <3>2. CASE t # s /\ job[t].pc = "none"
        <4>1. t > s
          BY <1>1, <3>2, Numbers
        <4>2. job[t].inst = None
          BY <3>2 DEF LifeInv, StartsFit
        <4>. QED
          BY <1>0, <1>3, <1>4, <3>2, <4>1, <4>2, Numbers
      <3>3. CASE t # s /\ job[t].pc # "none"
        BY <1>0, <1>3, <1>4, <3>3 DEF LifeInv, StartsFit
      <3>. QED
        BY <3>1, <3>2, <3>3
    <2>3. svc' \in [inst : {None} \cup Services, last : {None} \cup Starts]
      BY <1>2, <1>3
    <2>. QED
      BY <1>3, <1>4, <2>1, <2>2, <2>3 DEF StartsFit
  <1>6. InstancesFit'
    <2>1. cancelled' \subseteq 1 .. made' /\ dying' = None
      BY <1>0, <1>3
    <2>2. svc'.inst = inst /\ svc'.last = s
      BY <1>2
    <2>3. inst \in (1 .. made') \ cancelled'
      BY <1>3
    <2>4. ASSUME NEW t \in Starts, job'[t].inst = inst
          PROVE  t <= s
      <3>1. t # s => job'[t] = job[t] /\ job[t].pc # "none"
        BY <1>3, <1>4, <2>4 DEF LifeInv, StartsFit
      <3>. QED
        BY <1>1, <3>1, Numbers
    <2>. QED
      BY <2>1, <2>2, <2>3, <2>4 DEF InstancesFit
  <1>7. StopsFit'
    <2>. SUFFICES ASSUME NEW i \in Services, i \in cancelled
                  PROVE  Excused(i)'
      BY <1>0, Numbers DEF StopsFit
    <2>1. Excused(i) /\ i # inst
      BY <1>3 DEF LifeInv, StopsFit
    <2>2. CASE vm = "left"
      BY <2>2 DEF Excused
    <2>3. CASE \E t \in Starts : /\ job[t].inst = i /\ job[t].pc = "ended"
                                 /\ \A u \in Starts : job[u].inst = i => u <= t
      <3>1. PICK t \in Starts : /\ job[t].inst = i /\ job[t].pc = "ended"
                                /\ \A u \in Starts : job[u].inst = i => u <= t
        BY <2>3
      <3>2. t # s /\ job'[t] = job[t]
        BY <1>1, <1>4, <3>1
      <3>3. \A u \in Starts : job'[u].inst = i => u <= t
        BY <1>4, <2>1, <3>1
      <3>. QED
        BY <3>1, <3>2, <3>3 DEF Excused
    <2>. QED
      BY <2>1, <2>2, <2>3 DEF Excused
  <1>. QED
    BY <1>0, <1>1, <1>3, <1>5, <1>6, <1>7 DEF LifeInv

\* The pairing screen stops the service, whoever uses it.
LEMMA LeavesKeeps ==
  ASSUME LifeInv, PairingLeaves
  PROVE  LifeInv'
  <1>1. vm' = "left" /\ UNCHANGED <<made, cancelled, job>>
    BY DEF PairingLeaves
  <1>2. /\ svc' \in [inst : {None} \cup Services, last : {None} \cup Starts]
        /\ \/ UNCHANGED <<svc, dying>>
           \/ svc.inst # None /\ svc'.inst = None /\ svc'.last = svc.last /\ dying' = svc.inst
    BY DEF PairingLeaves, Stop, LifeInv, StartsFit
  <1>3. StartsFit'
    BY <1>1, <1>2 DEF LifeInv, StartsFit
  <1>4. InstancesFit'
    BY <1>1, <1>2 DEF LifeInv, InstancesFit
  <1>5. StopsFit'
    BY <1>1 DEF StopsFit, Excused
  <1>. QED
    BY <1>3, <1>4, <1>5 DEF LifeInv

LEMMA ConnectsKeeps ==
  ASSUME LifeInv, PairingConnects
  PROVE  LifeInv'
  <1>1. vm = "waiting" /\ vm' = "connected" /\ UNCHANGED <<svc, dying, made, cancelled, job>>
    BY DEF PairingConnects, android
  <1>2. \A i : Excused(i) => Excused(i)'
    BY <1>1 DEF Excused
  <1>. QED
    BY <1>1, <1>2 DEF LifeInv, StartsFit, InstancesFit, StopsFit

LEMMA DestroyKeeps ==
  ASSUME LifeInv, Destroy
  PROVE  LifeInv' /\ dying \in (1 .. made) \ cancelled
  <1>1. /\ dying # None /\ dying' = None /\ cancelled' = cancelled \cup {dying}
        /\ UNCHANGED <<svc, made, job, vm>>
    BY DEF Destroy
  <1>2. dying \in (1 .. made) \ cancelled /\ svc.inst = None
    BY <1>1 DEF LifeInv, InstancesFit
  <1>3. StartsFit'
    BY <1>1 DEF LifeInv, StartsFit
  <1>4. InstancesFit'
    BY <1>1, <1>2 DEF LifeInv, InstancesFit
  <1>5. StopsFit'
    BY <1>1, Numbers DEF LifeInv, StopsFit, Excused
  <1>. QED
    BY <1>2, <1>3, <1>4, <1>5 DEF LifeInv

\* stopSelf(startId): the dispatch is over and no start came after it.
LEMMA StopsSelfKeeps ==
  ASSUME LifeInv, NEW s \in Starts, StopsSelf(s)
  PROVE  LifeInv'
  <1>0. /\ job \in [Starts -> JobRecord] /\ job[s].pc = "stopping"
        /\ svc \in [inst : {None} \cup Services, last : {None} \cup Starts]
    BY DEF StopsSelf, JobStep, LifeInv, StartsFit
  <1>1. /\ job' = [job EXCEPT ![s].pc = "ended"] /\ UNCHANGED <<made, cancelled, vm>>
    BY DEF StopsSelf, JobStep, UnchangedByJob
  <1>2. /\ job' \in [Starts -> JobRecord] /\ job'[s].pc = "ended"
        /\ \A t \in Starts : /\ job'[t].inst = job[t].inst
                             /\ t # s => job'[t].pc = job[t].pc
    BY <1>0, <1>1 DEF JobRecord
  <1>3. \A i : Excused(i) => Excused(i)'
    BY <1>0, <1>1, <1>2 DEF Excused
  <1>4. CASE UNCHANGED <<svc, dying>>
    <2>1. StartsFit'
      BY <1>0, <1>1, <1>2, <1>4 DEF LifeInv, StartsFit
    <2>2. InstancesFit' /\ StopsFit'
      BY <1>1, <1>2, <1>3, <1>4 DEF LifeInv, InstancesFit, StopsFit
    <2>. QED
      BY <2>1, <2>2 DEF LifeInv
  <1>5. CASE svc = [inst |-> job[s].inst, last |-> s] /\ Stop
    <2>1. svc.inst = job[s].inst /\ svc.last = s /\ job[s].inst \in 1 .. made
      BY <1>0, <1>5 DEF LifeInv, StartsFit
    <2>2. svc.inst # None
      BY <2>1, Numbers DEF LifeInv, StartsFit, None
    <2>3. /\ svc' \in [inst : {None} \cup Services, last : {None} \cup Starts]
          /\ svc'.inst = None /\ dying' = svc.inst
      BY <1>0, <1>5 DEF Stop
    <2>4. StartsFit'
      BY <1>0, <1>1, <1>2, <2>3 DEF LifeInv, StartsFit
    <2>5. InstancesFit'
      BY <1>1, <2>2, <2>3 DEF LifeInv, InstancesFit
    <2>6. \A i : i = svc.inst => Excused(i)'
      BY <1>2, <2>1, <2>2 DEF Excused, LifeInv, InstancesFit
    <2>7. StopsFit'
      BY <1>1, <1>3, <2>3, <2>6 DEF LifeInv, StopsFit
    <2>. QED
      BY <2>4, <2>5, <2>7 DEF LifeInv
  <1>. QED
    BY <1>4, <1>5 DEF StopsSelf

\* The life of the service through every step.
LEMMA LifeKeeps == LifeInv /\ TrafficInv /\ [Next]_vars => LifeInv'
  <1>. SUFFICES ASSUME LifeInv, TrafficInv, [Next]_vars PROVE LifeInv'
    OBVIOUS
  <1>1. ASSUME NEW s \in Starts, Android(s)
        PROVE  LifeInv'
    <2>1. CASE DispatchDueMessages(s)
      <3>1. /\ StartService(s, "channel") /\ UNCHANGED <<dying, cancelled, vm>>
            /\ vm \in {"off", "waiting", "connected", "left"}
        BY <2>1 DEF DispatchDueMessages, LifeInv, InstancesFit
      <3>2. "channel" \in Unfinished
        BY DEF Unfinished, Waiting
      <3>. QED
        BY <3>1, <3>2, StartKeeps
    <2>2. CASE PairingStarts(s)
      <3>1. /\ StartService(s, "keep") /\ UNCHANGED <<dying, cancelled>>
            /\ vm = "off" /\ vm' = "waiting"
        BY <2>2 DEF PairingStarts
      <3>2. "keep" \in Unfinished
        BY DEF Unfinished, Waiting
      <3>. QED
        BY <3>1, <3>2, StartKeeps
    <2>. QED
      BY <1>1, <2>1, <2>2 DEF Android
  <1>2. ASSUME NEW s \in Starts, Job(s)
        PROVE  LifeInv'
    <2>0. Waiting \subseteq Unfinished /\ {"finally", "stopping"} \subseteq Unfinished
      BY DEF Unfinished
    <2>1. CASE \/ ConnectsOnce(s) \/ Sends(s) \/ NotConnected(s) \/ TimesOut(s) \/ Cancelled(s)
               \/ Disconnects(s)
      <3>1. UNCHANGED <<android, vm>>
        BY <2>1 DEF ConnectsOnce, Sends, NotConnected, TimesOut, Cancelled, Disconnects,
           UnchangedByJob, android
      <3>2. \E from, to : JobStep(s, from, to) /\ from \subseteq Unfinished /\ to \in Unfinished
        BY <2>0, <2>1 DEF ConnectsOnce, Sends, NotConnected, TimesOut, Cancelled, Disconnects,
           Waiting
      <3>. QED
        BY <3>1, <3>2, JobStepMoves
    <2>2. CASE StopsSelf(s)
      BY <2>2, StopsSelfKeeps
    <2>. QED
      BY <1>2, <2>1, <2>2 DEF Job
  <1>3. ASSUME NEW i \in Services, Setup(i)
        PROVE  LifeInv'
    <2>1. UNCHANGED <<android, job, vm>>
      BY <1>3 DEF Setup, SetupBegins, Boots, SocketConnects, SetupEnds, InitChannel, UnchangedBySetup
    <2>. QED
      BY <2>1, LifeStays
  <1>4. ASSUME NEW i \in Services, Reader(i)
        PROVE  LifeInv'
    <2>1. UNCHANGED <<android, vm>>
      BY <1>4 DEF Reader, ReaderGets, ReaderEnds, ReaderFails
    <2>2. job \in [Starts -> JobRecord]
      BY DEF LifeInv, StartsFit
    <2>3. CASE ReaderGets(i)
      <3>1. Head(inbox[i]) \in Line
        BY <2>3, HeadTailProperties DEF ReaderGets, TrafficInv
      <3>2. \/ job' = job
            \/ \E t \in Starts : job[t].pc = "sending" /\ job' = [job EXCEPT ![t].pc = "finally"]
        BY <2>3, <3>1 DEF ReaderGets, Line
      <3>3. CASE job' = job
        BY <2>1, <3>3, LifeStays
      <3>4. ASSUME NEW t \in Starts, job[t].pc = "sending", job' = [job EXCEPT ![t].pc = "finally"]
            PROVE  LifeInv'
        <4>1. job' \in [Starts -> JobRecord]
          BY <2>2, <3>4 DEF JobRecord
        <4>2. \A s \in Starts : /\ job'[s].inst = job[s].inst
                                /\ job'[s] = job[s]
                                   \/ (job[s].pc \in Unfinished /\ job'[s].pc # "none")
          BY <2>2, <3>4 DEF JobRecord, Unfinished, Waiting
        <4>. QED
          BY <2>1, <4>1, <4>2, JobsMove
      <3>. QED
        BY <3>2, <3>3, <3>4
    <2>4. CASE ReaderEnds(i)
      BY <2>1, <2>4, LifeStays DEF ReaderEnds
    <2>5. CASE ReaderFails(i)
      <3>1. job' = [s \in Starts |-> IF job[s].pc = "sending" THEN [job[s] EXCEPT !.pc = "finally"]
                                     ELSE job[s]]
        BY <2>5 DEF ReaderFails
      <3>2. job' \in [Starts -> JobRecord]
        BY <2>2, <3>1 DEF JobRecord
      <3>3. \A s \in Starts : /\ job'[s].inst = job[s].inst
                              /\ job'[s] = job[s]
                                 \/ (job[s].pc \in Unfinished /\ job'[s].pc # "none")
        BY <2>2, <3>1 DEF JobRecord, Unfinished, Waiting
      <3>. QED
        BY <2>1, <3>2, <3>3, JobsMove
    <2>. QED
      BY <1>4, <2>3, <2>4, <2>5 DEF Reader
  <1>5. CASE Node
    <2>1. UNCHANGED <<android, job, vm>>
      BY <1>5 DEF Node, NodeListens, EngineSettles, NodeAnswers, SocketClosed, NodeGets,
         UnchangedByNode
    <2>. QED
      BY <2>1, LifeStays
  <1>6. CASE UNCHANGED vars
    BY <1>6, LifeStays DEF vars
  <1>. QED
    BY <1>1, <1>2, <1>3, <1>4, <1>5, <1>6, ConnectsKeeps, LeavesKeeps, DestroyKeeps DEF Next

-----------------------------------------------------------------------------
(* The TCP connections *)

\* What becomes of the client's connection leaves no other one open.
LEMMA SocketStays ==
  ASSUME SocketInv, UNCHANGED <<sock, client>>
  PROVE  SocketInv'
  BY DEF SocketInv, ClientIsTheOpenSocket

LEMMA SocketKeeps == SocketInv /\ ChannelInv /\ [Next]_vars => SocketInv'
  <1>. SUFFICES ASSUME SocketInv, ChannelInv, [Next]_vars PROVE SocketInv'
    OBVIOUS
  <1>. USE Numbers
  <1>0. /\ sock \in [Services -> {"none", "open", "shut", "destroyed", "closed"}]
        /\ client \in {None} \cup Services
        /\ \A i \in Services : sock[i] = "open" => client = i
        /\ client # None => sock[client] # "closed"
    BY DEF SocketInv, ClientIsTheOpenSocket
  <1>1. CASE Destroy
    <2>1. client' = client
          /\ sock' = IF chan # None /\ sock[chan] = "open" THEN [sock EXCEPT ![chan] = "shut"]
                     ELSE sock
      BY <1>1 DEF Destroy
    <2>. QED
      BY <1>0, <2>1 DEF SocketInv, ClientIsTheOpenSocket
  <1>2. ASSUME NEW i \in Services, Boots(i)
        PROVE  SocketInv'
    <2>1. \/ sock' = ReplacesClient /\ client' = None
          \/ UNCHANGED <<sock, client>>
      BY <1>2 DEF Boots
    <2>. QED
      BY <1>0, <2>1, SocketStays DEF SocketInv, ClientIsTheOpenSocket, ReplacesClient
  <1>3. ASSUME NEW i \in Services, SocketConnects(i)
        PROVE  SocketInv'
    <2>1. sock' = [ReplacesClient EXCEPT ![i] = "open"] /\ client' = i
      BY <1>3 DEF SocketConnects
    <2>2. \A j \in Services : sock'[j] = IF j = i THEN "open"
                                         ELSE IF j = client THEN "destroyed" ELSE sock[j]
      BY <1>0, <2>1 DEF ReplacesClient
    <2>3. sock' \in [Services -> {"none", "open", "shut", "destroyed", "closed"}]
      BY <1>0, <2>1 DEF ReplacesClient
    <2>. QED
      BY <1>0, <2>1, <2>2, <2>3 DEF SocketInv, ClientIsTheOpenSocket
  <1>4. ASSUME NEW i \in Services, SocketClosed(i)
        PROVE  SocketInv'
    <2>1. /\ sock' = [sock EXCEPT ![i] = "closed"] /\ sock[i] # "open"
          /\ client' = IF client = i THEN None ELSE client
      BY <1>4 DEF SocketClosed
    <2>. QED
      BY <1>0, <2>1 DEF SocketInv, ClientIsTheOpenSocket
  <1>5. ASSUME \/ UNCHANGED vars \/ PairingConnects \/ PairingLeaves \/ NodeListens \/ EngineSettles
               \/ \E s \in Starts : Android(s) \/ Job(s) \/ NodeAnswers(s)
               \/ \E i \in Services : \/ SetupBegins(i) \/ SetupEnds(i) \/ InitChannel(i) \/ Reader(i)
                                      \/ \E message \in out[i] : NodeGets(i, message)
        PROVE  SocketInv'
    <2>1. UNCHANGED <<sock, client>>
      BY <1>5 DEF vars, tcp, PairingConnects, PairingLeaves, NodeListens, EngineSettles, Android,
         DispatchDueMessages, PairingStarts, Job, ConnectsOnce, Sends, NotConnected, TimesOut,
         Cancelled, Disconnects, StopsSelf, UnchangedByJob, NodeAnswers, SetupBegins, SetupEnds,
         InitChannel, Reader, ReaderGets, ReaderEnds, ReaderFails, NodeGets
    <2>. QED
      BY <2>1, SocketStays
  <1>. QED
    BY <1>1, <1>2, <1>3, <1>4, <1>5 DEF Next, Setup, Node

-----------------------------------------------------------------------------
(* The channels *)

\* How many services there can be in a set of them.
LEMMA SomeServices ==
  ASSUME NEW S \in SUBSET Services
  PROVE  IsFiniteSet(S) /\ Cardinality(S) \in Nat /\ Cardinality(S) <= MaxStarts
  <1>1. IsFiniteSet(Services) /\ Cardinality(Services) = MaxStarts
    BY Numbers, FS_Interval
  <1>. QED
    BY <1>1, FS_Subset, FS_CardinalityType

LEMMA OneMoreService ==
  ASSUME NEW S \in SUBSET Services, NEW i \in Services, i \notin S
  PROVE  Cardinality(S \cup {i}) = Cardinality(S) + 1
  BY SomeServices, FS_AddElement

LEMMA Counts ==
  ASSUME LifeInv
  PROVE  /\ IsFiniteSet(cancelled) /\ Cardinality(cancelled) \in Nat
         /\ Cardinality(cancelled) <= MaxStarts
         /\ IsFiniteSet(Settled) /\ Cardinality(Settled) \in Nat
         /\ Cardinality(Settled) <= MaxStarts
  <1>1. Settled \in SUBSET Services /\ cancelled \in SUBSET Services
    BY Numbers DEF Settled, LifeInv, StartsFit, InstancesFit
  <1>. QED
    BY <1>1, SomeServices

\* Steps without a new channel, without an end of one, and without a start.
LEMMA ChannelStays ==
  ASSUME LifeInv, ChannelInv, UNCHANGED <<setup, made, cancelled, gen>>,
         chan' = chan,
         conn' \in {"DISCONNECTED", "CONNECTING", "CONNECTED", "LOGGED_OUT", "ERROR"},
         \/ reader' = reader
         \/ \E i \in Services, pc \in {"failing", "dead"} : reader' = [reader EXCEPT ![i].pc = pc]
  PROVE  ChannelInv'
  <1>1. Settled' = Settled
    BY DEF Settled
  <1>2. reader' \in [Services -> [pc : {"none", "reading", "failing", "dead"}, gen : 0 .. 2 * MaxStarts]]
    BY DEF ChannelInv
  <1>. QED
    BY <1>1, <1>2 DEF ChannelInv

\* A step of setupNodeRuntime
LEMMA SetupMoves ==
  ASSUME LifeInv, ChannelInv, NEW i \in Services, NEW from, NEW to, SetupStep(i, from, to),
         from \in {"begin", "booting", "trying", "wired"},
         to \in {"booting", "trying", "wired", "done"}, UNCHANGED made
  PROVE  /\ setup' \in [Services -> {"none", "begin", "booting", "trying", "wired", "done"}]
         /\ \A j \in Services : j > made' => setup'[j] = "none"
         /\ IsFiniteSet(Settled') /\ Cardinality(Settled') \in Nat
         /\ Cardinality(Settled) <= Cardinality(Settled')
         /\ to = "done" => Cardinality(Settled') = Cardinality(Settled) + 1
         /\ Cardinality(Settled') <= MaxStarts
  <1>1. /\ setup \in [Services -> {"none", "begin", "booting", "trying", "wired", "done"}]
        /\ setup[i] = from /\ setup' = [setup EXCEPT ![i] = to] /\ from # "done" /\ from # "none"
    BY DEF ChannelInv, SetupStep
  <1>2. \A j \in Services : j > made' => setup'[j] = "none"
    BY <1>1 DEF ChannelInv
  <1>3. Settled' = IF to = "done" THEN Settled \cup {i} ELSE Settled
    BY <1>1 DEF Settled
  <1>4. i \notin Settled
    BY <1>1 DEF Settled
  <1>5. /\ IsFiniteSet(Settled') /\ Cardinality(Settled') \in Nat
        /\ Cardinality(Settled') <= MaxStarts
    <2>1. Settled' \in SUBSET Services
      BY DEF Settled
    <2>. QED
      BY <2>1, SomeServices
  <1>6. /\ Cardinality(Settled) <= Cardinality(Settled')
        /\ to = "done" => Cardinality(Settled') = Cardinality(Settled) + 1
    <2>1. CASE to = "done"
      <3>1. Settled \in SUBSET Services /\ Settled' = Settled \cup {i}
        BY <1>3, <2>1 DEF Settled
      <3>2. Cardinality(Settled') = Cardinality(Settled) + 1 /\ Cardinality(Settled) \in Nat
        BY <3>1, <1>4, OneMoreService, SomeServices
      <3>. QED
        BY <3>2
    <2>2. CASE to # "done"
      BY <1>3, <2>2, Counts
    <2>. QED
      BY <2>1, <2>2
  <1>. QED
    BY <1>1, <1>2, <1>5, <1>6

LEMMA ChannelKeeps == LifeInv /\ TrafficInv /\ ChannelInv /\ [Next]_vars => ChannelInv'
  <1>. SUFFICES ASSUME LifeInv, TrafficInv, ChannelInv, [Next]_vars PROVE ChannelInv'
    OBVIOUS
  <1>0. /\ setup \in [Services -> {"none", "begin", "booting", "trying", "wired", "done"}]
        /\ chan \in {None} \cup Services /\ gen \in Nat
        /\ gen <= Cardinality(cancelled) + Cardinality(Settled)
        /\ conn \in {"DISCONNECTED", "CONNECTING", "CONNECTED", "LOGGED_OUT", "ERROR"}
    BY DEF ChannelInv
  <1>1. ASSUME NEW s \in Starts, Android(s)
        PROVE  ChannelInv'
    <2>1. \E pc \in Unfinished : StartService(s, pc)
      BY <1>1 DEF Android, DispatchDueMessages, PairingStarts, Unfinished, Waiting
    <2>2. /\ UNCHANGED <<dying, cancelled, chan, gen, conn, reader>>
          /\ vm' \in {"off", "waiting", "connected", "left"} /\ (vm = "left" => vm' = "left")
      BY <1>1 DEF Android, DispatchDueMessages, PairingStarts, bridge, LifeInv, InstancesFit
    <2>3. made \in Nat /\ made' \in {made, made + 1}
      BY <2>1, <2>2, StartKeeps
    <2>4. \/ setup' = setup /\ made' = made
          \/ setup' = [setup EXCEPT ![made + 1] = "begin"] /\ made' = made + 1
      BY <2>1 DEF StartService
    <2>5. setup' \in [Services -> {"none", "begin", "booting", "trying", "wired", "done"}]
          /\ \A i \in Services : i > made' => setup'[i] = "none"
      BY <1>0, <2>3, <2>4, Numbers DEF ChannelInv
    <2>6. Settled' = Settled
      BY <1>0, <2>3, <2>4, Numbers DEF ChannelInv, Settled
    <2>. QED
      BY <2>2, <2>5, <2>6 DEF ChannelInv
  <1>2. CASE Destroy
    <2>1. /\ chan' = None /\ gen' = gen + 1 /\ conn' = "DISCONNECTED"
          /\ cancelled' = cancelled \cup {dying} /\ UNCHANGED <<made, setup, reader>>
          /\ dying \notin cancelled
      BY <1>2, DestroyKeeps DEF Destroy
    <2>2. Cardinality(cancelled') = Cardinality(cancelled) + 1 /\ Settled' = Settled
      BY <2>1, Counts, FS_AddElement DEF Settled
    <2>3. gen' \in Nat /\ gen' <= Cardinality(cancelled') + Cardinality(Settled')
      BY <1>0, <2>1, <2>2, Counts
    <2>. QED
      BY <2>1, <2>3 DEF ChannelInv
  <1>3. ASSUME NEW i \in Services, InitChannel(i)
        PROVE  ChannelInv'
    <2>1. /\ SetupStep(i, "wired", "done") /\ chan' = i /\ gen' = gen + 1
          /\ UNCHANGED <<made, cancelled, conn>>
          /\ reader' \in {reader, [reader EXCEPT ![i] = [pc |-> "reading", gen |-> gen + 1]]}
      BY <1>3 DEF InitChannel, UnchangedBySetup, android
    <2>2. /\ setup' \in [Services -> {"none", "begin", "booting", "trying", "wired", "done"}]
          /\ \A j \in Services : j > made' => setup'[j] = "none"
          /\ Cardinality(Settled') = Cardinality(Settled) + 1
          /\ Cardinality(Settled') <= MaxStarts
      BY <2>1, SetupMoves
    <2>3. gen' \in Nat /\ gen' <= Cardinality(cancelled') + Cardinality(Settled')
          /\ gen + 1 \in 0 .. 2 * MaxStarts
      BY <1>0, <2>1, <2>2, Counts, Numbers
    <2>4. reader' \in [Services -> [pc : {"none", "reading", "failing", "dead"},
                                     gen : 0 .. 2 * MaxStarts]]
      BY <2>1, <2>3 DEF ChannelInv
    <2>. QED
      BY <1>0, <2>1, <2>2, <2>3, <2>4 DEF ChannelInv
  <1>4. ASSUME NEW i \in Services, SetupBegins(i) \/ Boots(i) \/ SocketConnects(i) \/ SetupEnds(i)
        PROVE  ChannelInv'
    <2>1. /\ \E from \in {"begin", "booting", "trying", "wired"},
                to \in {"booting", "trying", "wired", "done"} : SetupStep(i, from, to)
          /\ UNCHANGED <<made, cancelled, chan, gen, conn, reader>>
      BY <1>4 DEF SetupBegins, Boots, SocketConnects, SetupEnds, UnchangedBySetup, android, bridge
    <2>2. /\ setup' \in [Services -> {"none", "begin", "booting", "trying", "wired", "done"}]
          /\ \A j \in Services : j > made' => setup'[j] = "none"
          /\ Cardinality(Settled') \in Nat /\ Cardinality(Settled) <= Cardinality(Settled')
      BY <2>1, SetupMoves
    <2>3. gen' <= Cardinality(cancelled') + Cardinality(Settled')
      BY <1>0, <2>1, <2>2, Counts
    <2>. QED
      BY <2>1, <2>2, <2>3 DEF ChannelInv
  <1>5. ASSUME NEW i \in Services, Reader(i)
        PROVE  ChannelInv'
    <2>1. UNCHANGED <<setup, made, cancelled, gen, chan>>
      BY <1>5 DEF Reader, ReaderGets, ReaderEnds, ReaderFails, android, bridge
    <2>2. \/ reader' = reader
          \/ \E j \in Services, pc \in {"failing", "dead"} : reader' = [reader EXCEPT ![j].pc = pc]
      BY <1>5 DEF Reader, ReaderGets, ReaderEnds, ReaderFails
    <2>3. conn' \in {"DISCONNECTED", "CONNECTING", "CONNECTED", "LOGGED_OUT", "ERROR"}
      <3>1. CASE ReaderGets(i)
        <4>1. Head(inbox[i]) \in Line
          BY <3>1, HeadTailProperties DEF ReaderGets, TrafficInv
        <4>. QED
          BY <1>0, <3>1, <4>1 DEF ReaderGets, Line, StateOf
      <3>2. CASE ReaderEnds(i) \/ ReaderFails(i)
        BY <1>0, <3>2 DEF ReaderEnds, ReaderFails, bridge
      <3>. QED
        BY <1>5, <3>1, <3>2 DEF Reader
    <2>. QED
      BY <2>1, <2>2, <2>3, ChannelStays
  <1>6. ASSUME \/ UNCHANGED vars \/ PairingConnects \/ PairingLeaves \/ Node
               \/ \E s \in Starts : Job(s)
        PROVE  ChannelInv'
    <2>1. /\ UNCHANGED <<setup, made, cancelled, gen, chan, reader>>
          /\ conn' \in {conn, "CONNECTING", "DISCONNECTED"}
      BY <1>6 DEF vars, android, bridge, PairingConnects, PairingLeaves, Node, NodeListens,
         EngineSettles, NodeAnswers, SocketClosed, NodeGets, UnchangedByNode, Job, ConnectsOnce,
         Sends, NotConnected, TimesOut, Cancelled, Disconnects, StopsSelf, UnchangedByJob
    <2>. QED
      BY <1>0, <2>1, ChannelStays
  <1>. QED
    BY <1>1, <1>2, <1>3, <1>4, <1>5, <1>6 DEF Next, Setup

-----------------------------------------------------------------------------
(* Lines and messages under way *)

LEMMA HandOverKeeps ==
  ASSUME out \in [Services -> SUBSET Message], NEW message \in Message, HandOver(message)
  PROVE  out' \in [Services -> SUBSET Message]
  BY DEF HandOver

LEMMA PushKeeps ==
  ASSUME inbox \in [Services -> Seq(Line)], NEW event \in Line, Push(event), SocketInv
  PROVE  inbox' \in [Services -> Seq(Line)]
  <1>1. CASE client = None \/ sock[client] # "open"
    BY <1>1 DEF Push
  <1>2. CASE ~(client = None \/ sock[client] # "open")
    <2>1. client \in Services /\ inbox' = [inbox EXCEPT ![client] = Append(@, event)]
      BY <1>2 DEF Push, SocketInv
    <2>2. Append(inbox[client], event) \in Seq(Line)
      BY <2>1, AppendProperties
    <2>. QED
      BY <2>1, <2>2
  <1>. QED
    BY <1>1, <1>2

LEMMA EventTypes ==
  /\ \A s \in Starts : /\ Event("connect", s) \in Message /\ Event("send", s) \in Message
                       /\ Event("disconnect", s) \in Message /\ Event("result", s) \in Line
  /\ Event("connect", 0) \in Message
  /\ Event("connecting", 0) \in Line /\ Event("connected", 0) \in Line
  /\ Event("logged_out", 0) \in Line
  BY Numbers DEF Event, Message, Line

LEMMA TrafficKeeps == SocketInv /\ TrafficInv /\ [Next]_vars => TrafficInv'
  <1>. SUFFICES ASSUME SocketInv, TrafficInv, [Next]_vars PROVE TrafficInv'
    OBVIOUS
  <1>0. /\ out \in [Services -> SUBSET Message] /\ inbox \in [Services -> Seq(Line)]
        /\ nodeUp \in BOOLEAN /\ engine \in {"idle", "connecting", "open"} /\ busy \subseteq Starts
    BY DEF TrafficInv
  <1>1. ASSUME \/ UNCHANGED vars \/ PairingLeaves
               \/ \E s \in Starts : Android(s) \/ NotConnected(s) \/ TimesOut(s) \/ Cancelled(s)
                                    \/ StopsSelf(s)
               \/ \E i \in Services : \/ SetupBegins(i) \/ Boots(i) \/ SocketConnects(i)
                                      \/ SetupEnds(i) \/ InitChannel(i)
                                      \/ ReaderEnds(i) \/ ReaderFails(i)
        PROVE  TrafficInv'
    <2>1. UNCHANGED <<out, inbox, nodeUp, engine, busy>>
      BY <1>1 DEF vars, tcp, node, PairingLeaves, Android, DispatchDueMessages, PairingStarts,
         NotConnected, TimesOut, Cancelled, StopsSelf, UnchangedByJob, SetupBegins, Boots,
         SocketConnects, SetupEnds, InitChannel, UnchangedBySetup, ReaderEnds, ReaderFails
    <2>. QED
      BY <2>1 DEF TrafficInv
  <1>2. ASSUME PairingConnects \/ \E s \in Starts : ConnectsOnce(s) \/ Sends(s) \/ Disconnects(s)
        PROVE  TrafficInv'
    <2>1. \E message \in Message : HandOver(message)
      BY <1>2, EventTypes DEF PairingConnects, ConnectsOnce, Sends, Disconnects
    <2>2. UNCHANGED <<inbox, nodeUp, engine, busy>>
      BY <1>2 DEF PairingConnects, ConnectsOnce, Sends, Disconnects, UnchangedByJob, tcp, node
    <2>. QED
      BY <1>0, <2>1, <2>2, HandOverKeeps DEF TrafficInv
  <1>3. CASE Destroy
    <2>1. /\ UNCHANGED <<inbox, nodeUp, engine, busy>>
          /\ \E written \in SUBSET out[dying] : out' = [out EXCEPT ![dying] = written]
      BY <1>3 DEF Destroy, node
    <2>. QED
      BY <1>0, <2>1 DEF TrafficInv
  <1>4. ASSUME NEW i \in Services, ReaderGets(i)
        PROVE  TrafficInv'
    <2>1. /\ UNCHANGED <<out, nodeUp, engine, busy>> /\ inbox[i] # << >>
          /\ inbox' = [inbox EXCEPT ![i] = Tail(@)]
      BY <1>4 DEF ReaderGets, node
    <2>2. Tail(inbox[i]) \in Seq(Line)
      BY <1>0, <2>1, HeadTailProperties
    <2>. QED
      BY <1>0, <2>1, <2>2 DEF TrafficInv
  <1>5. CASE NodeListens
    BY <1>0, <1>5 DEF NodeListens, TrafficInv, tcp
  <1>6. CASE EngineSettles
    <2>1. /\ \E event \in Line : Push(event)
          /\ engine' \in {"idle", "connecting", "open"} /\ UNCHANGED <<out, nodeUp, busy>>
      BY <1>6, EventTypes DEF EngineSettles, UnchangedByNode
    <2>. QED
      BY <1>0, <2>1, PushKeeps DEF TrafficInv
  <1>7. ASSUME NEW s \in Starts, NodeAnswers(s)
        PROVE  TrafficInv'
    <2>1. /\ \E event \in Line : Push(event)
          /\ busy' \subseteq Starts /\ UNCHANGED <<out, nodeUp, engine>>
      BY <1>0, <1>7, EventTypes DEF NodeAnswers, UnchangedByNode
    <2>. QED
      BY <1>0, <2>1, PushKeeps DEF TrafficInv
  <1>8. ASSUME NEW i \in Services, SocketClosed(i)
        PROVE  TrafficInv'
    BY <1>0, <1>8 DEF SocketClosed, UnchangedByNode, TrafficInv
  <1>9. ASSUME NEW i \in Services, NEW message \in out[i], NodeGets(i, message)
        PROVE  TrafficInv'
    <2>0. /\ message \in Message /\ out' = [out EXCEPT ![i] = @ \ {message}] /\ nodeUp' = nodeUp
      BY <1>0, <1>9 DEF NodeGets, UnchangedByNode
    <2>1. CASE message.what = "connect"
      <3>1. NodeConnects /\ busy' = busy
        BY <1>9, <2>1 DEF NodeGets
      <3>2. (\E event \in Line : Push(event)) /\ engine' \in {"idle", "connecting", "open"}
        BY <1>0, <3>1, EventTypes DEF NodeConnects
      <3>. QED
        BY <1>0, <2>0, <3>1, <3>2, PushKeeps DEF TrafficInv
    <2>2. CASE message.what = "disconnect"
      BY <1>0, <1>9, <2>0, <2>2 DEF NodeGets, TrafficInv
    <2>3. CASE message.what = "send"
      BY <1>0, <1>9, <2>0, <2>3 DEF NodeGets, TrafficInv, Message
    <2>. QED
      BY <2>0, <2>1, <2>2, <2>3 DEF Message
  <1>. QED
    BY <1>1, <1>2, <1>3, <1>4, <1>5, <1>6, <1>7, <1>8, <1>9
       DEF Next, Setup, Reader, Job, Node

-----------------------------------------------------------------------------
(* The theorems *)

ServiceInv == LifeInv /\ SocketInv /\ ChannelInv /\ TrafficInv

LEMMA InitKeeps == Init => ServiceInv
  <1>. SUFFICES ASSUME Init PROVE ServiceInv
    OBVIOUS
  <1>. USE Numbers
  <1>1. LifeInv
    <2>1. StartsFit
      BY DEF Init, StartsFit, JobRecord
    <2>2. InstancesFit /\ StopsFit
      BY DEF Init, InstancesFit, StopsFit
    <2>. QED
      BY <2>1, <2>2 DEF LifeInv
  <1>2. SocketInv
    BY DEF Init, SocketInv, ClientIsTheOpenSocket
  <1>3. ChannelInv
    <2>1. Cardinality(cancelled) \in Nat /\ Cardinality(Settled) \in Nat
      BY <1>1, Counts
    <2>2. gen \in Nat /\ gen <= Cardinality(cancelled) + Cardinality(Settled)
      BY <2>1 DEF Init
    <2>. QED
      BY <2>2 DEF Init, ChannelInv
  <1>4. TrafficInv
    <2>1. << >> \in Seq(Line)
      BY EmptySeq
    <2>. QED
      BY <2>1 DEF Init, TrafficInv
  <1>. QED
    BY <1>1, <1>2, <1>3, <1>4 DEF ServiceInv

LEMMA ServiceInvariant == Spec => []ServiceInv
  <1>1. ServiceInv /\ [Next]_vars => ServiceInv'
    BY LifeKeeps, SocketKeeps, ChannelKeeps, TrafficKeeps DEF ServiceInv
  <1>. QED
    BY <1>1, InitKeeps, PTL DEF Spec

\* Every variable keeps its type; above all, no more instances of the service
\* are made than starts, and none opens more than one channel.
THEOREM TypeCorrect == Spec => []TypeOK
  <1>1. ServiceInv => TypeOK
    <2>. SUFFICES ASSUME ServiceInv PROVE TypeOK
      OBVIOUS
    <2>1. gen \in 0 .. 2 * MaxStarts
      BY Counts, Numbers DEF ServiceInv, ChannelInv
    <2>2. out \in [Services -> SUBSET [what : {"connect", "send", "disconnect"}, start : 0 .. MaxStarts]]
      BY DEF ServiceInv, TrafficInv, Message
    <2>3. \A i \in Services : \A k \in DOMAIN inbox[i] :
             inbox[i][k] \in [what : {"connecting", "connected", "logged_out", "result"},
                              start : 0 .. MaxStarts]
      <3>. SUFFICES ASSUME NEW i \in Services, NEW k \in DOMAIN inbox[i]
                    PROVE  inbox[i][k] \in Line
        BY DEF Line
      <3>1. inbox[i] \in Seq(Line)
        BY DEF ServiceInv, TrafficInv
      <3>. QED
        BY <3>1, LenProperties, ElementOfSeq
    <2>4. dying \in {None} \cup Services
      BY Numbers DEF ServiceInv, LifeInv, StartsFit, InstancesFit
    <2>. QED
      BY <2>1, <2>2, <2>3, <2>4
         DEF ServiceInv, LifeInv, StartsFit, InstancesFit, SocketInv, ChannelInv, TrafficInv,
             JobRecord, TypeOK
  <1>. QED
    BY <1>1, ServiceInvariant, PTL

\* Node answers to the one open connection, in every order of probes, new
\* instances, resets and late close events (index.js:51-77).
THEOREM OneClient == Spec => []ClientIsTheOpenSocket
  <1>1. ServiceInv => ClientIsTheOpenSocket
    BY DEF ServiceInv, SocketInv
  <1>. QED
    BY <1>1, ServiceInvariant, PTL

\* A dispatch is cut off while it waits only when the user left the pairing
\* screen or a later start of the same instance is over
\* (SchedulerService.kt:347).
THEOREM CutForAReason == Spec => []CutOnlyByNewerOrUser
  <1>1. ServiceInv => CutOnlyByNewerOrUser
    <2>. SUFFICES ASSUME ServiceInv, NEW s \in Starts, job[s].inst \in cancelled,
                         job[s].pc \in Waiting
                  PROVE  \/ vm = "left"
                         \/ \E t \in Starts : t > s /\ job[t].inst = job[s].inst
                                              /\ job[t].pc = "ended"
      BY DEF CutOnlyByNewerOrUser
    <2>1. Excused(job[s].inst)
      <3>1. StartsFit /\ InstancesFit /\ StopsFit
        BY DEF ServiceInv, LifeInv
      <3>2. job[s].inst \in Services
        <4>1. made \in 0 .. MaxStarts /\ cancelled \subseteq 1 .. made
          BY <3>1 DEF StartsFit, InstancesFit
        <4>2. job[s].inst \in 1 .. made
          BY <4>1
        <4>. QED
          BY <4>1, <4>2, Numbers
      <3>. QED
        BY <3>1, <3>2 DEF StopsFit
    <2>2. job[s].pc # "ended"
      BY DEF Waiting
    <2>. QED
      BY <2>1, <2>2, Numbers DEF Excused
  <1>. QED
    BY <1>1, ServiceInvariant, PTL

-----------------------------------------------------------------------------
(* No idle service *)

\* The last start of the instance that is up goes on: its dispatch is not over,
\* or it is the pairing screen's and the screen is open.
LastGoesOn ==
    svc.inst # None =>
        /\ svc.last \in Starts
        /\ job[svc.last].inst = svc.inst
        /\ job[svc.last].pc \notin {"none", "ended"}
        /\ job[svc.last].pc = "keep" => vm \in {"waiting", "connected"}

LEMMA OthersGoOn ==
  ASSUME LastGoesOn, UNCHANGED <<svc, vm>>,
         \A s \in Starts : /\ job'[s].inst = job[s].inst
                           /\ \/ job'[s].pc = job[s].pc
                              \/ job'[s].pc \in {"connecting", "sending", "finally", "stopping"}
  PROVE  LastGoesOn'
  BY DEF LastGoesOn

LEMMA NewStartGoesOn ==
  ASSUME LifeInv, NEW s \in Starts, NEW pc \in {"channel", "keep"}, StartService(s, pc),
         pc = "keep" => vm' = "waiting"
  PROVE  LastGoesOn'
  <1>. DEFINE inst == IF svc.inst = None THEN made + 1 ELSE svc.inst
  <1>1. job \in [Starts -> JobRecord]
    BY DEF LifeInv, StartsFit
  <1>2. svc' = [inst |-> inst, last |-> s] /\ job' = [job EXCEPT ![s] = [inst |-> inst, pc |-> pc]]
    BY DEF StartService
  <1>. HIDE DEF inst
  <1>3. svc'.inst = inst /\ svc'.last = s /\ job'[s].inst = inst /\ job'[s].pc = pc
    BY <1>1, <1>2
  <1>. QED
    BY <1>3 DEF LastGoesOn

LEMMA JobGoesOn ==
  ASSUME LifeInv, LastGoesOn, NEW s \in Starts, NEW from, UNCHANGED <<svc, vm>>,
         NEW to \in {"connecting", "sending", "finally", "stopping"}, JobStep(s, from, to)
  PROVE  LastGoesOn'
  <1>1. job \in [Starts -> JobRecord] /\ job' = [job EXCEPT ![s].pc = to]
    BY DEF LifeInv, StartsFit, JobStep
  <1>2. \A t \in Starts : /\ job'[t].inst = job[t].inst
                          /\ job'[t].pc = job[t].pc \/ job'[t].pc = to
    BY <1>1 DEF JobRecord
  <1>. QED
    BY <1>2, OthersGoOn

\* A dispatch that was the last start of the instance that is up stops it.
LEMMA StopsSelfGoesOn ==
  ASSUME LifeInv, LastGoesOn, NEW s \in Starts, StopsSelf(s)
  PROVE  LastGoesOn'
  <1>1. /\ job \in [Starts -> JobRecord] /\ job' = [job EXCEPT ![s].pc = "ended"]
        /\ svc \in [inst : {None} \cup Services, last : {None} \cup Starts] /\ vm' = vm
    BY DEF LifeInv, StartsFit, StopsSelf, JobStep, UnchangedByJob
  <1>2. CASE svc = [inst |-> job[s].inst, last |-> s] /\ Stop
    <2>1. svc'.inst = None
      BY <1>1, <1>2 DEF Stop
    <2>. QED
      BY <2>1 DEF LastGoesOn
  <1>3. CASE svc # [inst |-> job[s].inst, last |-> s] /\ UNCHANGED svc
    <2>1. ASSUME svc.inst # None PROVE svc.last # s
      <3>1. svc = [inst |-> svc.inst, last |-> svc.last]
        BY <1>1
      <3>. QED
        BY <1>3, <2>1, <3>1 DEF LastGoesOn
    <2>2. \A t \in Starts : t # s => job'[t] = job[t]
      BY <1>1
    <2>. QED
      BY <1>1, <1>3, <2>1, <2>2 DEF LastGoesOn
  <1>. QED
    BY <1>2, <1>3 DEF StopsSelf

LEMMA LastKeepsGoing == LifeInv /\ TrafficInv /\ LastGoesOn /\ [Next]_vars => LastGoesOn'
  <1>. SUFFICES ASSUME LifeInv, TrafficInv, LastGoesOn, [Next]_vars PROVE LastGoesOn'
    OBVIOUS
  <1>0. job \in [Starts -> JobRecord]
    BY DEF LifeInv, StartsFit
  <1>1. ASSUME NEW s \in Starts, Android(s)
        PROVE  LastGoesOn'
    <2>1. CASE DispatchDueMessages(s)
      BY <2>1, NewStartGoesOn DEF DispatchDueMessages
    <2>2. CASE PairingStarts(s)
      BY <2>2, NewStartGoesOn DEF PairingStarts
    <2>. QED
      BY <1>1, <2>1, <2>2 DEF Android
  <1>2. ASSUME NEW s \in Starts, Job(s)
        PROVE  LastGoesOn'
    <2>1. CASE \/ ConnectsOnce(s) \/ Sends(s) \/ NotConnected(s) \/ TimesOut(s) \/ Cancelled(s)
               \/ Disconnects(s)
      <3>1. UNCHANGED <<svc, vm>>
        BY <2>1 DEF ConnectsOnce, Sends, NotConnected, TimesOut, Cancelled, Disconnects,
           UnchangedByJob
      <3>2. \E from : \E to \in {"connecting", "sending", "finally", "stopping"} : JobStep(s, from, to)
        BY <2>1 DEF ConnectsOnce, Sends, NotConnected, TimesOut, Cancelled, Disconnects
      <3>. QED
        BY <3>1, <3>2, JobGoesOn
    <2>2. CASE StopsSelf(s)
      BY <2>2, StopsSelfGoesOn
    <2>. QED
      BY <1>2, <2>1, <2>2 DEF Job
  <1>3. ASSUME NEW i \in Services, Reader(i)
        PROVE  LastGoesOn'
    <2>1. UNCHANGED <<svc, vm>>
      BY <1>3 DEF Reader, ReaderGets, ReaderEnds, ReaderFails, android
    <2>2. \A s \in Starts : /\ job'[s].inst = job[s].inst
                            /\ job'[s].pc = job[s].pc \/ job'[s].pc = "finally"
      <3>1. CASE ReaderGets(i)
        <4>1. job' = job \/ \E t : job' = [job EXCEPT ![t].pc = "finally"]
          BY <3>1 DEF ReaderGets
        <4>. QED
          BY <1>0, <4>1 DEF JobRecord
      <3>2. CASE ReaderEnds(i)
        BY <3>2 DEF ReaderEnds
      <3>3. CASE ReaderFails(i)
        <4>1. job' = [s \in Starts |-> IF job[s].pc = "sending" THEN [job[s] EXCEPT !.pc = "finally"]
                                       ELSE job[s]]
          BY <3>3 DEF ReaderFails
        <4>. QED
          BY <1>0, <4>1 DEF JobRecord
      <3>. QED
        BY <1>3, <3>1, <3>2, <3>3 DEF Reader
    <2>. QED
      BY <2>1, <2>2, OthersGoOn
  <1>4. CASE PairingConnects
    <2>1. vm' = "connected" /\ UNCHANGED <<svc, job>>
      BY <1>4 DEF PairingConnects, android
    <2>. QED
      BY <2>1 DEF LastGoesOn
  <1>5. CASE PairingLeaves
    <2>1. svc'.inst = None
      BY <1>5 DEF PairingLeaves, Stop, LifeInv, StartsFit
    <2>. QED
      BY <2>1 DEF LastGoesOn
  <1>6. CASE Destroy \/ Node \/ UNCHANGED vars \/ \E i \in Services : Setup(i)
    <2>1. UNCHANGED <<svc, job, vm>>
      BY <1>6 DEF Destroy, Node, NodeListens, EngineSettles, NodeAnswers, SocketClosed, NodeGets,
         UnchangedByNode, vars, android, Setup, SetupBegins, Boots, SocketConnects, SetupEnds,
         InitChannel, UnchangedBySetup
    <2>. QED
      BY <2>1 DEF LastGoesOn
  <1>. QED
    BY <1>1, <1>2, <1>3, <1>4, <1>5, <1>6 DEF Next

\* With the dispatches over and the pairing screen closed no service is up, no
\* timeout and no scheduling assumed (wp_brain.md:48).
THEOREM NothingStaysUp == Spec => []NoIdleService
  <1>1. Init => LastGoesOn
    BY DEF Init, LastGoesOn
  <1>2. ServiceInv /\ LastGoesOn /\ [Next]_vars => LastGoesOn'
    BY LastKeepsGoing DEF ServiceInv
  <1>3. LastGoesOn => NoIdleService
    BY DEF LastGoesOn, NoIdleService
  <1>. QED
    BY <1>1, <1>2, <1>3, ServiceInvariant, PTL DEF Spec

=============================================================================
