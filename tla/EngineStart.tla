----------------------------- MODULE EngineStart -----------------------------
(***************************************************************************)
(* How the engine is started and found again: setupNodeRuntime of one      *)
(* instance of SchedulerService after another looks for a listening Node,  *)
(* unpacks the assets into the cache, starts Node on a free port and       *)
(* connects; Node (index.js) loads its files and takes the first port it   *)
(* can bind.  The flag, the port and the cache are shared by all of them.  *)
(*                                                                         *)
(* A setup is a coroutine that suspends only between two tries to connect: *)
(* one whose service was destroyed goes on until then, beside the setup of *)
(* the next.  Node outlives the services and dies with the process.        *)
(*                                                                         *)
(* A setup starts at most one engine, which has its number.  The 61 tries  *)
(* to connect are two states, before and after the first that failed; they *)
(* end when somebody listens, or at any time nobody does.  The catch       *)
(* around startNodeWithArguments is left out: the call throws no Java      *)
(* exception.                                                              *)
(***************************************************************************)
EXTENDS NativeLauncher, FiniteSets

CONSTANTS
    Scripts,       \* the files copied at every start: index.js, ...
    Sentinels,     \* SENTINEL_FILES
    Assets,        \* all files of nodejs-project
    EntryPoint,    \* index.js
    MaxPortScan,   \* MAX_PORT_SCAN
    MaxPortAttempts, \* MAX_PORT_ATTEMPTS of index.js
    Node, Entry,   \* the bytes that stand for "node" and the path of index.js
    ArgumentLists, \* lists of arguments other than those of Start
    MaxSetups,     \* bound: instances of the service
    MaxFaults      \* bound: deaths of the process, files evicted from the cache or
                   \* not copied, ports taken by other programs

NoFile == "none"

ASSUME EngineStartAssumption ==
    /\ EntryPoint \in Scripts \cap Sentinels /\ Scripts \cup Sentinels \subseteq Assets
    /\ IsFiniteSet(Assets) /\ NoFile \notin Assets
    /\ {MaxPortScan, MaxPortAttempts, MaxSetups} \subseteq Nat \ {0}
    /\ MaxFaults \in Nat
    /\ {Node, Entry} \subseteq Nat \ {0, Flag}
    /\ ArgumentLists \subseteq Seq(Seq(Nat \ {0}))

Setups == 1 .. MaxSetups
Scan == DefaultPort .. DefaultPort + MaxPortScan - 1
Ports == DefaultPort .. DefaultPort + MaxPortScan + MaxPortAttempts - 2  \* that Node may reach

VARIABLES
    started, activePort,  \* isNodeStarted, activeNodePort
    channel,              \* isChannelInitialized
    begun,                \* setups begun
    destroyed,            \* setups whose service is destroyed
    setup,
    engine,
    others,               \* what other programs do with each port
    tree,                 \* each file: none, wrong (truncated, of another version), whole
    marker,               \* .delivra-assets-version: none, other, current
    lost,                 \* files evicted or not copied since they were last copied
    missed,               \* files lost since the last setup began
    overlapped,           \* two setups have been at work at a time
    faults, takes         \* faults so far, and ports taken among them

shared == <<started, activePort, channel>>
cache == <<tree, marker, lost, missed>>
budgets == <<faults, takes>>
vars == <<shared, begun, destroyed, setup, engine, others, cache, overlapped, budgets>>

\* heard, port: what the probe found, then the port to connect to; ahead: the
\* files still to be copied; file: the one being copied; up: an engine was
\* listening in the scanned range at the start; owed: and nobody else answered
\* there until the probe was over
NoSetup == [pc |-> "none", heard |-> FALSE, port |-> DefaultPort, ahead |-> {}, file |-> NoFile,
            up |-> FALSE, owed |-> FALSE]
NoEngine == [pc |-> "none", port |-> DefaultPort, attempts |-> 0]

AtWork == {"probing", "syncing", "checking", "wiping", "copying", "refreshing", "picking",
           "starting", "reading"}
Working(s) == setup[s].pc \in AtWork
Connecting == {"waiting", "retrying"}
Unfinished(s) == Working(s) \/ setup[s].pc \in Connecting

Listening(p) == \E e \in Setups : engine[e].pc = "listening" /\ engine[e].port = p
Answers(p) == Listening(p) \/ others[p] = "answering"
Bindable(p) == ~Listening(p) /\ others[p] = "absent"

Init ==
    /\ started = FALSE /\ activePort = DefaultPort /\ channel = FALSE
    /\ begun = 0 /\ destroyed = {}
    /\ setup = [s \in Setups |-> NoSetup]
    /\ engine = [e \in Setups |-> NoEngine]
    /\ others = [p \in Ports |-> "absent"]
    \* never unpacked; or unpacked by this version, some files evicted since
    /\ \/ tree = [f \in Assets |-> "none"] /\ marker = "none" /\ lost = {}
       \/ /\ lost \in SUBSET Assets /\ Cardinality(lost) <= MaxFaults
          /\ tree = [f \in Assets |-> IF f \in lost THEN "none" ELSE "whole"]
          /\ marker = "current"
    /\ missed = {}
    /\ overlapped = FALSE
    /\ faults = 0 /\ takes = 0

-----------------------------------------------------------------------------
(* The service *)

\* onCreate, and the setup it launches: nothing if there is a channel
Begin(s) ==
    LET up == \E p \in Scan : Listening(p) IN
    /\ s = begun + 1
    /\ \A r \in 1 .. begun : r \in destroyed
    /\ begun' = s
    /\ setup' = [setup EXCEPT ![s] =
          [NoSetup EXCEPT !.pc = IF channel THEN "skipped" ELSE "probing", !.up = up,
                          !.owed = up /\ \A p \in Scan : others[p] # "answering"]]
    /\ overlapped' = (overlapped \/ \E r \in Setups : Working(r))
    /\ missed' = {}
    /\ UNCHANGED <<shared, destroyed, engine, others, tree, marker, lost, budgets>>

\* onDestroy: resetChannel, and the scope is cancelled
Destroy(s) ==
    /\ s \in 1 .. begun \ destroyed
    /\ destroyed' = destroyed \cup {s}
    /\ channel' = FALSE
    /\ UNCHANGED <<started, activePort, begun, setup, engine, others, cache, overlapped, budgets>>

Fault == faults < MaxFaults /\ faults' = faults + 1
Go(s, pc) == setup' = [setup EXCEPT ![s].pc = pc]
UnchangedBySetup == UNCHANGED <<begun, destroyed, others, overlapped, takes>>

-----------------------------------------------------------------------------
(* The probe *)

\* Mutated: only the default port is tried.
ProbeDefault(s) ==
    LET p == setup[s].port IN
    /\ setup[s].pc = "probing"
    /\ setup' = [setup EXCEPT ![s].pc = "syncing", ![s].heard = Answers(p)]
    /\ UNCHANGED <<shared, engine, cache, faults>> /\ UnchangedBySetup

\* probeNodePort, port by port; whoever answers is taken for Node
Probe(s) ==
    LET p == setup[s].port IN
    /\ setup[s].pc = "probing"
    /\ \/ /\ Answers(p)
          /\ setup' = [setup EXCEPT ![s].pc = "syncing", ![s].heard = TRUE]
       \/ /\ ~Answers(p) /\ p + 1 \in Scan
          /\ setup' = [setup EXCEPT ![s].port = p + 1]
       \/ /\ ~Answers(p) /\ p + 1 \notin Scan
          /\ setup' = [setup EXCEPT ![s].pc = "syncing", ![s].port = DefaultPort]
    /\ UNCHANGED <<shared, engine, cache, faults>> /\ UnchangedBySetup

\* Mutated: the port of the probe is not kept.
SyncFlagOnly(s) ==
    /\ setup[s].pc = "syncing"
    /\ started' = setup[s].heard
    /\ Go(s, "checking")
    /\ UNCHANGED <<activePort, channel, engine, cache, faults>> /\ UnchangedBySetup

\* The flag and the port are brought in line with the probe: a Node that has
\* not come to listen yet is taken for crashed.
Sync(s) ==
    /\ setup[s].pc = "syncing"
    /\ started' = setup[s].heard
    /\ activePort' = setup[s].port
    /\ Go(s, "checking")
    /\ UNCHANGED <<channel, engine, cache, faults>> /\ UnchangedBySetup

-----------------------------------------------------------------------------
(* The assets *)

\* Mutated: the marker alone is trusted.
MarkerIsCurrent == marker = "current"

\* markerSaysUpToDate && sentinelsIntact
UpToDate == marker = "current" /\ \A f \in Sentinels : tree[f] # "none"

Check(s) ==
    /\ setup[s].pc = "checking"
    /\ setup' = [setup EXCEPT ![s].pc = IF UpToDate THEN "refreshing" ELSE "wiping",
                              ![s].ahead = IF UpToDate THEN Scripts ELSE {}]
    /\ UNCHANGED <<shared, engine, cache, faults>> /\ UnchangedBySetup

There == {f \in Assets : tree[f] # "none"}
First(files) == CHOOSE f \in files : TRUE  \* in the order of listFiles, assets.list

\* deleteRecursively, a file at a time
Wipe(s) ==
    /\ setup[s].pc = "wiping"
    /\ \/ /\ There # {}
          /\ tree' = [tree EXCEPT ![First(There)] = "none"]
          /\ UNCHANGED marker
       \/ marker # "none" /\ marker' = "none" /\ UNCHANGED tree
    /\ UNCHANGED <<setup, lost, missed>>
    /\ UNCHANGED <<shared, engine, faults>> /\ UnchangedBySetup

\* Mutated: the marker is written before the files.
WipeEndsMarked(s) ==
    /\ setup[s].pc = "wiping"
    /\ marker = "none" /\ There = {}
    /\ setup' = [setup EXCEPT ![s].pc = "copying", ![s].ahead = Assets]
    /\ marker' = "current" /\ lost' = {}
    /\ UNCHANGED <<tree, missed>>
    /\ UNCHANGED <<shared, engine, faults>> /\ UnchangedBySetup

WipeEnds(s) ==
    /\ setup[s].pc = "wiping"
    /\ marker = "none" /\ There = {}
    /\ setup' = [setup EXCEPT ![s].pc = "copying", ![s].ahead = Assets]
    /\ lost' = {}
    /\ UNCHANGED <<tree, marker, missed>>
    /\ UNCHANGED <<shared, engine, faults>> /\ UnchangedBySetup

Copying(s) == setup[s].pc \in {"copying", "refreshing"}
Copied(s) == setup[s].file = NoFile /\ setup[s].ahead = {}

\* copyAssetsToFilesIfNeeded and copySingleAsset: outputStream() truncates the file.
OpenAsset(s) ==
    /\ Copying(s) /\ setup[s].file = NoFile /\ setup[s].ahead # {}
    /\ setup' = [setup EXCEPT ![s].file = First(setup[s].ahead), ![s].ahead = @ \ {First(@)}]
    /\ tree' = [tree EXCEPT ![First(setup[s].ahead)] = "wrong"]
    /\ UNCHANGED <<marker, lost, missed>>
    /\ UNCHANGED <<shared, engine, faults>> /\ UnchangedBySetup

\* A file that was deleted meanwhile stays so.
CloseAsset(s) ==
    LET f == setup[s].file IN
    /\ Copying(s) /\ f # NoFile
    /\ setup' = [setup EXCEPT ![s].file = NoFile]
    /\ tree' = [tree EXCEPT ![f] = IF @ = "wrong" THEN "whole" ELSE @]
    /\ lost' = IF tree[f] = "wrong" THEN lost \ {f} ELSE lost
    /\ UNCHANGED <<marker, missed>>
    /\ UNCHANGED <<shared, engine, faults>> /\ UnchangedBySetup

Lose(f) == lost' = lost \cup {f} /\ missed' = missed \cup {f}

\* The copy of a file fails, before it is opened or on the way: logged, and on
\* with the next.
CopyFails(s) ==
    /\ Copying(s)
    /\ Fault
    /\ ~Copied(s)
    /\ LET f == IF setup[s].file = NoFile THEN First(setup[s].ahead) ELSE setup[s].file IN
          /\ setup' = [setup EXCEPT ![s].file = NoFile, ![s].ahead = @ \ {f}]
          /\ Lose(f)
    /\ UNCHANGED <<tree, marker>>
    /\ UNCHANGED <<shared, engine>> /\ UnchangedBySetup

\* versionMarker.writeText
Mark(s) ==
    /\ setup[s].pc = "copying" /\ Copied(s)
    /\ marker' = "current"
    /\ setup' = [setup EXCEPT ![s].pc = "refreshing", ![s].ahead = Scripts]
    /\ UNCHANGED <<tree, lost, missed>>
    /\ UNCHANGED <<shared, engine, faults>> /\ UnchangedBySetup

\* Without index.js the setup is given up, also when Node is up.
CheckEntry(s) ==
    /\ setup[s].pc = "refreshing" /\ Copied(s)
    /\ Go(s, IF tree[EntryPoint] = "none" THEN "aborted"
             ELSE IF setup[s].heard THEN "reading" ELSE "picking")
    /\ UNCHANGED <<shared, engine, cache, faults>> /\ UnchangedBySetup

-----------------------------------------------------------------------------
(* Starting Node, and connecting *)

FindAvailablePort ==
    LET free == {p \in Scan : Bindable(p)} IN
    IF free = {} THEN DefaultPort ELSE CHOOSE p \in free : \A q \in free : p <= q

Pick(s) ==
    /\ setup[s].pc = "picking"
    /\ activePort' = FindAvailablePort
    /\ setup' = [setup EXCEPT ![s].pc = "starting", ![s].port = FindAvailablePort]
    /\ UNCHANGED <<started, channel, engine, cache, faults>> /\ UnchangedBySetup

\* What Node makes of "node", the path of index.js and "--port=..."
RequestedPort ==
    [p \in Ports |-> GetRequestedPort(ProcessArgv(StartNodeWithArguments(<< <<Node>>, <<Entry>>, <<Flag, p>> >>)))]

\* Under the lock of the class: a thread for Node unless the flag is set
Start(s) ==
    /\ setup[s].pc = "starting"
    /\ started' = TRUE
    /\ engine' = IF started THEN engine ELSE [engine EXCEPT ![s] =
          [pc |-> "booting", port |-> RequestedPort[setup[s].port], attempts |-> MaxPortAttempts]]
    /\ Go(s, "reading")
    /\ UNCHANGED <<activePort, channel, cache, faults>> /\ UnchangedBySetup

\* val port = activeNodePort
ReadPort(s) ==
    /\ setup[s].pc = "reading"
    /\ setup' = [setup EXCEPT ![s].pc = "waiting", ![s].port = activePort, ![s].heard = FALSE]
    /\ UNCHANGED <<shared, engine, cache, faults>> /\ UnchangedBySetup

\* The try that succeeds is followed by initChannel, cancelled or not.
Connect(s) ==
    /\ setup[s].pc \in Connecting /\ Answers(setup[s].port)
    /\ Go(s, "wired")
    /\ channel' = TRUE
    /\ UNCHANGED <<started, activePort, engine, cache, faults>> /\ UnchangedBySetup

\* The first try that fails; half a second after each follows another.
TryFails(s) ==
    /\ setup[s].pc = "waiting" /\ ~Answers(setup[s].port)
    /\ Go(s, "retrying")
    /\ UNCHANGED <<shared, engine, cache, faults>> /\ UnchangedBySetup

\* The last try fails.
GiveUp(s) ==
    /\ setup[s].pc = "retrying" /\ ~Answers(setup[s].port)
    /\ Go(s, "failed")
    /\ UNCHANGED <<shared, engine, cache, faults>> /\ UnchangedBySetup

\* The delay after a failed try finds the scope cancelled, also when somebody
\* has come to answer meanwhile.
Cancelled(s) ==
    /\ setup[s].pc = "retrying" /\ s \in destroyed
    /\ Go(s, "cancelled")
    /\ UNCHANGED <<shared, engine, cache, faults>> /\ UnchangedBySetup

-----------------------------------------------------------------------------
(* Node *)

UnchangedByNode ==
    UNCHANGED <<shared, begun, destroyed, setup, others, cache, overlapped, budgets>>

\* index.js and what it requires; with a file missing or torn Node may not get through.
Load(e) ==
    /\ engine[e].pc = "booting"
    /\ \/ engine' = [engine EXCEPT ![e].pc = "binding"]
       \/ /\ \E f \in Assets : tree[f] # "whole"
          /\ engine' = [engine EXCEPT ![e].pc = "ended"]
    /\ UnchangedByNode

\* Mutated: EADDRINUSE is fatal.
ListenOnce(e) ==
    /\ engine[e].pc = "binding"
    /\ engine' = [engine EXCEPT ![e].pc = IF Bindable(engine[e].port) THEN "listening" ELSE "ended"]
    /\ UnchangedByNode

\* tryListen: the next port when this one is taken, ten times
TryListen(e) ==
    LET p == engine[e].port IN
    /\ engine[e].pc = "binding"
    /\ \/ /\ Bindable(p)
          /\ engine' = [engine EXCEPT ![e].pc = "listening"]
       \/ /\ ~Bindable(p) /\ engine[e].attempts > 1
          /\ engine' = [engine EXCEPT ![e].port = p + 1, ![e].attempts = @ - 1]
       \/ /\ ~Bindable(p) /\ engine[e].attempts = 1
          /\ engine' = [engine EXCEPT ![e].pc = "ended"]
    /\ UnchangedByNode

-----------------------------------------------------------------------------
(* The surroundings *)

\* Another program takes a port, to listen or not, or a closed socket holds it;
\* an engine is no longer owed to a probe that may hear a stranger.
Take(p) ==
    /\ Fault /\ takes' = takes + 1
    /\ Bindable(p)
    /\ \E how \in {"mute", "answering"} :
          /\ others' = [others EXCEPT ![p] = how]
          /\ setup' = [s \in Setups |-> IF setup[s].pc = "probing" /\ how = "answering"
                                        THEN [setup[s] EXCEPT !.owed = FALSE] ELSE setup[s]]
    /\ UNCHANGED <<shared, begun, destroyed, engine, cache, overlapped>>

Leave(p) ==
    /\ others[p] # "absent"
    /\ others' = [others EXCEPT ![p] = "absent"]
    /\ UNCHANGED <<shared, begun, destroyed, setup, engine, cache, overlapped, budgets>>

\* Android takes a file from the cache.
Evict ==
    /\ Fault
    /\ \/ \E f \in Assets :
             /\ tree[f] # "none"
             /\ tree' = [tree EXCEPT ![f] = "none"]
             /\ Lose(f)
          /\ UNCHANGED marker
       \/ marker # "none" /\ marker' = "none" /\ UNCHANGED <<tree, lost, missed>>
    /\ UNCHANGED <<shared, begun, destroyed, setup, engine, others, overlapped, takes>>

\* The process dies; an update of the app kills it too, and then what was
\* unpacked is of another version.
Kill ==
    /\ Fault
    /\ started' = FALSE /\ activePort' = DefaultPort /\ channel' = FALSE
    /\ destroyed' = 1 .. begun
    /\ setup' = [s \in Setups |-> IF Unfinished(s) THEN [NoSetup EXCEPT !.pc = "dead"] ELSE setup[s]]
    /\ engine' = [e \in Setups |-> IF engine[e].pc \in {"none", "ended"} THEN engine[e]
                                   ELSE [NoEngine EXCEPT !.pc = "dead"]]
    /\ \/ UNCHANGED <<tree, marker>>
       \/ /\ tree' = [f \in Assets |-> IF tree[f] = "none" THEN "none" ELSE "wrong"]
          /\ marker' = IF marker = "none" THEN "none" ELSE "other"
    /\ UNCHANGED <<begun, others, lost, missed, overlapped, takes>>

-----------------------------------------------------------------------------
SetupStep(s) ==
    \/ Probe(s) \/ Sync(s)
    \/ Check(s) \/ Wipe(s) \/ WipeEnds(s)
    \/ OpenAsset(s) \/ CloseAsset(s) \/ Mark(s)
    \/ CheckEntry(s)
    \/ Pick(s) \/ Start(s)
    \/ ReadPort(s) \/ Connect(s) \/ TryFails(s) \/ GiveUp(s) \/ Cancelled(s)
NodeStep(e) == Load(e) \/ TryListen(e)

Next ==
    \/ \E s \in Setups : Begin(s) \/ Destroy(s) \/ SetupStep(s) \/ CopyFails(s) \/ NodeStep(s)
    \/ \E p \in Ports : Take(p) \/ Leave(p)
    \/ Evict \/ Kill

Spec == Init /\ [][Next]_vars

\* The threads of the setups and of Node are scheduled (they take finitely many
\* steps, so fairness to all of them together is fairness to each); nobody has to
\* create or destroy a service, or to take or leave a port.
FairSpec == Spec /\ WF_vars(\E s \in Setups : SetupStep(s) \/ NodeStep(s))

-----------------------------------------------------------------------------
(* Properties *)

\* A setup that begins while Node listens on a scanned port never starts a
\* second engine, whatever the flag says and however many setups overlap: the
\* fix of SchedulerService.kt:74-77.  (One that begins while Node boots does.)
NoEngineBesideAListeningOne ==
    [][\A s \in Setups : (engine[s].pc = "none" /\ engine'[s].pc = "booting") => ~setup[s].up]_vars

\* An unpacking that was interrupted, and an update, are noticed: when marker and
\* sentinels say up to date, every file that is not copied at each start is of
\* this version and whole, but for those evicted or not copied since; unless
\* two setups were at the cache at a time.
TrustedTreeIsWhole ==
    (UpToDate /\ ~overlapped) => \A f \in Assets \ Scripts : tree[f] = "whole" \/ f \in lost

\* When Node is about to be started the scripts are whole and no sentinel is
\* missing, but for files lost since this setup began: what was evicted from the
\* cache before is there again (SchedulerService.kt:108-115).
NodeFindsItsFiles ==
    \A s \in Setups : (setup[s].pc = "starting" /\ ~overlapped) =>
        /\ \A f \in Scripts \ missed : tree[f] = "whole"
        /\ \A f \in Sentinels \ missed : tree[f] # "none"

\* Every list of arguments arrives in Node as Kotlin passed it, and the copying
\* stays inside its buffer, for empty arguments and an empty list too
\* (native-lib.cpp:59-82).  It says nothing of the state, and is evaluated
\* before the first setup.
ArgumentsArrive == begun = 0 => \A args \in ArgumentLists : Arrives(args)

\* An engine that is started comes to listen, also when its port was taken in the
\* meantime; unless its process dies, a file is lost, setups overlap, the ports it
\* may try are all taken on its way, or the next setup begins before: that one
\* truncates and copies the scripts Node is reading.
Crowded(e) ==
    takes + Cardinality({d \in Setups \ {e} : engine[d].pc = "listening"}) >= MaxPortAttempts
EngineListens ==
    \A e \in Setups : engine[e].pc = "booting" ~>
        \/ engine[e].pc \in {"listening", "dead"}
        \/ lost # {} \/ overlapped \/ Crowded(e) \/ begun > e

\* A setup that begins while Node listens on a scanned port and nobody else
\* answers there ends connected to Node, also when Node is not on the port Kotlin
\* asked for; unless its service or its process ends, the entry script is lost,
\* or setups overlap.
ConnectsAgain ==
    \A s \in Setups : (setup[s].pc = "probing" /\ setup[s].owed) ~>
        \/ setup[s].pc = "wired" /\ Listening(setup[s].port)
        \/ ~setup[s].owed
        \/ setup[s].pc = "dead" \/ s \in destroyed
        \/ EntryPoint \in missed
        \/ overlapped

=============================================================================
