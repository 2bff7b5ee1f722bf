# Verification of Delivra

Delivra schedules WhatsApp messages on an Android phone. A Kotlin application keeps the messages in
a Room table, wakes up by alarms, and sends through an embedded Node engine (Baileys) in the same
process, with which it talks over a local TCP socket. This directory holds TLA+ models of that code,
TLC configurations that check them on small instances, and TLAPS proofs of what they promise: every safety
invariant, every step property and every refinement that holds of the code is a theorem for all values of the
constants. What TLC alone checks is liveness, and of most of that the safety half is proved too.

Paths below are relative to `src/delivra/app/src/main/java/com/kabshah/delivra/` (Kotlin) and
`src/delivra/app/src/main/assets/nodejs-project/` (JavaScript). `wp_brain.md` is the design document
at the top of the repository. `PROJECT.json` maps every definition to the lines it translates.

## 1. Inventory

| component | state | operations | talks to |
|---|---|---|---|
| Message table: `data/ScheduledMessage.kt`, `ScheduledMessageDao.kt` | one row per message: status, attemptCount, attemptStartedAt, schedule, media | insert, atomicClaim, retryToPending, update of a whole row, delete, the three reconcile statements, due query, cleanup queries | everything in the process, by SQL |
| `data/ScheduleRepository.kt` | none but the table | schedule, cancel, resolve, resend, updateStatus (read, then write back), reconcile, due and missed, runCleanup | table, alarms, media files, service |
| `bridge/NodeBridge.kt` | channel, generation, connectionState, pending calls | initChannel, resetChannel, connect, disconnect, sendMessage, call, handleTcpDisconnection | service, table, Node by TCP |
| `service/SchedulerService.kt`, dispatch | instances made and destroyed by Android, a coroutine scope each | onStartCommand (one dispatch coroutine per start), waitForConnected, onDestroy | bridge, Node |
| `service/SchedulerService.kt`, Node runtime | isNodeStarted, activeNodePort, the unpacked assets in the cache and their version marker | onCreate/setupNodeRuntime: probe, unpack, choose a port, start Node, connect | bridge, launcher, `index.js` |
| `cpp/native-lib.cpp` | a buffer of arguments | startNodeWithArguments | Node |
| `scheduling/` workers, alarms, boot | WorkManager's and AlarmManager's queues | BackstopWorker, RetryWorker, AlarmReceiver, BootReceiver | repository, service |
| `index.js` | the one client socket, the port | accept, read lines, dispatch commands, sendResponse | Kotlin, `whatsapp.js`, `sender.js` |
| `whatsapp.js` | sock, isConnectingOrConnected, intentionalClose, pairing promise, backoff timers | connectToWhatsApp, createSocket, connection.update, disconnectWhatsApp, startPairing | Baileys |
| `sender.js` | Map of the parts each message has had sent | sendMessage, trackParts, classifyError | Baileys, media files |
| `atomic-auth.js` | session files, LRU of mutexes | read, write to .tmp and rename, remove, each under the mutex of its file | Baileys |
| `attachments/` and `VoiceNoteRecorder.kt` | files in attachments/ and voice_notes/ | stage, record, delete | compose form, repository |
| `attachments/OpusRecorder.kt` | recording thread, encoder, Ogg muxer | start, the loop, stopAndWait, cancel | microphone, compose form |
| `viewmodel/ViewModels.kt`, `ui/` | the compose form, the pairing screen's serviceStartedByUs | schedule, user actions, pairing, recording | repository, service, bridge |
| diagnostics, notifications, contacts, polyfill, tools | - | output, wiring, developer scripts | - |

What is hard about it:

* **Lost updates.** `updateStatus` reads a row and writes all its columns back; four other actors
  change rows in between. A claim, a staleness threshold and guarded UPDATEs are all the locking there is.
* **Unknown outcomes.** A call to Node may time out or lose its socket while Node goes on sending.
  The design never sends such a message again by itself, and asks the user (NEEDS_REVIEW).
* **Death at any point.** Scope cancellation (service destroyed) and process death leave rows in any
  state, files without rows, sends without an owner.
* **Three lifetimes.** Node outlives the services; zombie readers and late setups of destroyed
  services meet the bridge of the next one; messages to Node overtake each other.
* **Callbacks and timers** in Node between the awaits of overlapping connects.
* **Files written in pieces**: the session store and the unpacked assets survive a process that dies,
  a write that fails, and a system that evicts files from the cache.
* **A shared flag, port and cache** outlive the services whose setups read and write them.
* **Threads**: the recording thread, its encoder and a UI that waits five seconds at most.

What must hold, per component: one live dispatch per message, no duplicate, no false success, no
stranded message, three attempts at most (table, repository, `sendMessage`); no message without its
media and no media for ever (files); one WhatsApp socket, every connect and pairing answered
(`whatsapp.js`); every part once and in order, success only when complete (`sender.js`); Node answers
the live connection, every dispatch ends, no idle service and none stopped under a dispatch (service);
a well-formed recording without loss, a thread that ends (recorder); no torn session file and no session
reset behind the user's back (`atomic-auth.js`); no engine started beside one that listens, no engine
started on half a tree, an engine found again (Node runtime). `PROJECT.json` lists the hazards
line by line with the properties that cover them. One more hazard is not in that list:
`AlarmScheduler.kt:71` uses `messageId.hashCode()` as request code, so that two messages of equal hash
share an alarm. It needs the strings; the backstop sends the message all the same.

## 2. Modules

### MessageDao, SendFlow, MessageLifecycle: from the table to WhatsApp

`MessageDao` has one operator per SQL statement, from tables to tables, with the WHERE clauses as
guards. A row is its status, attemptCount, the age of attemptStartedAt in minutes (NoStamp for NULL,
capped where the last cutoff is passed) and its window (future, due, missed by the grace period).

`SendFlow` has the actors. `wk[w]` is a dispatch coroutine inside `NodeBridge.sendMessage`; its `pc`
goes claim, update/write (updateStatus in two steps), load, call, await, retry. `bs` is a backstop
pass, cut at each statement. `user` is a cancel, resolve or resend that has read its row.
`retryWork` is WorkManager's durable queue. `delivered`, `requested`, `calls` and `abandoned` are
history: what WhatsApp got, what the user asked for, calls since, and sends that Node continues after
Kotlin has let go.
`ScopeCancelled` ends one coroutine where it stands (its catch clause suspends in a cancelled scope and
so writes nothing), `ProcessDies` all of them.

Time: `Tick` is a minute. With MaxStalls = 0 the phone is prompt, the clock moves only while
everybody waits for Node; a stall is a minute in which somebody is behind. A backstop pass takes less
than a minute, since reconcile computes "now" once. LateDispatch = TRUE lets a row beyond its grace
period be claimed (late alarm, retry across the grace period).

`MessageLifecycle` is the abstract specification, the state machine of wp_brain.md 6.2 seen by the user
together with the promise on deliveries. `SendFlow` implements it with status taken from the table, restricted
to the text messages (`TextIds`). One statement of reconcile moves the rows of several messages at once, so
`Proceed` lets any set of messages take an arrow each in one step. A run with one message does not show this;
the proof of the refinement does.

What is abstracted: terminalAt and notifications; Node's failure answers stand for "not delivered"
(`Sender` shows when that is so). NoFalseSuccess does not rest on it.

### Storage: media files and rows

`disk` and `age` are the files, `draft` the compose form with the file it writes, `wk` one dispatch,
`cleanup` a runCleanup with the rows it has selected; time counts half days. updateStatus is one step
here. Scheduling inserts the row (`Inserts`) and then succeeds, which resets the form, or has its alarm
refused (`ScheduleFails`), which leaves both row and form: the user may delete the media of that row from the
form, or schedule them once more. Three kinds of message are excused by name (`excused`): one the user
deletes, one resent during its own dispatch, and one whose media the form or another message has too.

### WaEngine: the connection of the engine

A step is the code between two awaits of `whatsapp.js`. `calls` are invocations of connectToWhatsApp
in their awaits, `ws` is the fate of every socket, `timers` the backoff timers, `pair` the pairing
request. `owed` and `told` record what Kotlin was told. Baileys is external: sockets open, show a QR,
log in, close or die silently at will. A repeated "connecting" event is merged with the opening of the
WebSocket. Contacts and groups are left out.

### Sender: the parts of a message

`completedParts` is the Map in insertion order; `done` the Set objects, which a call may hold after
the Map has dropped them. Calls overlap, Kotlin gives up on some, files are lost, the engine restarts.
`excused` holds the messages whose record could not help: evicted, restarted, sent again by the user
without an answer, or called twice at a time.

### OggOpusMuxer, VoiceRecorder: voice notes

The muxer as operators on a record of pages written and packets pending; the recorder as the thread
(feed, drain, tail, finally) with the encoder's queue, its announcements of a header and the screen.
Encoder and microphone are external. Left out: lacing (a page's segment table), a read that never
returns, the MediaRecorder fallback below API 29, a full disk, the waveform. A join is shorter than
five seconds while the microphone works: `Joined` gives up on the thread only after a failed read.

### DispatchService: the service, the bridge's channel and Node's server

`svc` is the instance Android counts as started with its last start id, `dying` one whose onDestroy has
not run, `setup[i]` the setupNodeRuntime of an instance, `job[s]` the coroutine of start s, `reader[i]`
the reading coroutine of a channel. `chan`, `gen` and `conn` are NodeBridge's fields. `out` holds
messages handed to a channel (a set: each is written by a coroutine of its own), `inbox` the lines from
Node, `sock` each connection and `client` the one Node answers to. A probe of the port counts as a
client. A cancelled coroutine ends at its next suspension, so a setup past its last one still installs a
channel. Timeouts fire at any time. The engine is idle, connecting or open (WaEngine has the rest), what
a dispatch does to its row is SendFlow's.

### NativeLauncher, EngineStart: how the engine is started and found again

`NativeLauncher` has the copying of the arguments of `native-lib.cpp` on sequences of bytes, and what
`index.js` makes of them; `Sizes` and `Populated` are the two loops, as functions of the number of passes.
`ArgumentLists` are the lists for which `ArgumentsArrive` is stated. `EngineStart` has `setup[s]`, the setupNodeRuntime of the s-th instance of the
service (Probe port by port, Sync of flag and port, Check, Wipe, OpenAsset and CloseAsset for each file,
Mark, CheckEntry, Pick, Start, ReadPort, then TryFails and Connect, GiveUp or Cancelled), `engine[e]`, the Node which setup e started
(Load, TryListen), and what they share: `started`, `activePort`, the `tree` of files and the `marker`.
A file is missing, wrong (truncated, or of another version) or whole. Other programs take and leave ports,
a copy fails, Android evicts files, the process dies, the app is updated. `up`, `owed`, `lost`, `missed`
and `overlapped` are history, used by the properties only.

What is abstracted: files are wiped and copied in one fixed order; the 61 tries to connect are
two states, before and after the first that failed: they end with a connection when somebody listens, may
end at any time after the first when nobody does, and a setup whose service is destroyed may be cancelled
in the delay between two tries, also when somebody has come to listen meanwhile; whoever
answers a probe is taken for Node, as the code does; `channel` is the only part of the bridge here, the
rest is DispatchService's; the catch around startNodeWithArguments is left out, since a native call
throws no Java exception here.

### AtomicFiles, AtomicAuth: the session files

`AtomicFiles` is the promise: each file is a register, calls on it take effect in the order in which they
were made, and a death takes no more than the calls that had not settled. `AtomicAuth` implements it with
what `atomic-auth.js` does: `fileLocks` is the Map of mutexes in insertion order, `op[o]` a call with its
mutex, its place between two awaits and the file it has open, `disk` and `tmp` say which data <file> and
<file>.tmp name, `content` what the data are. Names and data are apart as in a file system, so that a
writer goes on with what it has opened after a rename. The datum a write stores is the number of the
write. A file whose mutex the Map has evicted while a call held or awaited it is `forgotten` and excused.
Reads and unlinks that fail for another reason than a missing file are left out: readData answers null
and removeData ignores them. A power failure (no fsync in the code) is not modelled either: a death of
the process leaves the page cache alone.

## 3. Runs

| run | bounds | states | what it shows |
|---|---|---|---|
| sendflow | 1 text message, 2 dispatches, 2 attempts, 2 faults, 1 resend, prompt phone | 260,093 | `ExclusiveDispatch`, `AtMostOncePerRequest`, `RequeuedIsUnsent`, `AttemptCap`, `OrphanRecoverable`, `ConfirmedIsFinal`, `ImplementsLifecycle`, `EventualOutcome` |
| sendflow_media | 1 media message, 2 dispatches, 1 stall, 1 fault | 74,594 | `ConfirmedWasDelivered` and `DeletedStaysDeleted` where claims are not exclusive |
| sendflow_review | media, no stall, no fault | violation | `ReviewedIsNotLive` |
| storage | 1 message, a voice note and 2 attachments, of which at most 2 files are staged, 1 crash | 408,442 | `MediaThere`, `NoMediaWithoutRow`, `NoLeak` |
| storage_sweep | same | violation | `SweepSparesLiveMedia` |
| waengine | 3 connects, 2 closes, 1 pairing | 298,694 | `OneSocket`, `CodeFromReadySocket`, `ConnectAnswered`, `ReconnectFollows`, `PairingAnswered` |
| wa_backoff | same | violation | `NoReconnectAfterDisconnect` |
| sender | 2 messages, 3 calls, Map of 1, 1 lost file, 2 give-ups, 1 restart | 621,580 | `PartsOnce`, `SuccessIsComplete`, `InOrder` |
| recorder | 5 frames, packets of 1 or 2, 3 input buffers, page at 3 | 29,222 | `StreamWellFormed`, `NothingLost`, `AttachedIsFinished`, `StopEnds` |
| service | 2 starts, 2 instances | 123,399 | `ClientIsTheOpenSocket`, `CutOnlyByNewerOrUser`, `DispatchEnds`, `NoIdleService` |
| auth | 1 key file and creds.json, Map of 1, 4 calls, 1 failed write, 1 death | 567,565 | `NeverTorn`, `NoSilentReset`, `CallsSettle`, `ImplementsRegisters` |
| engine | 2 setups, 3 files (a script, a sentinel, another), 2 scanned ports, 2 attempts of Node, 1 fault; argument lists of up to 3 strings of up to 2 bytes | 538,535 | `TrustedTreeIsWhole`, `NodeFindsItsFiles`, `ArgumentsArrive`, `NoEngineBesideAListeningOne`, `EngineListens`, `ConnectsAgain` |

The types of every module with a state are a theorem (`TypeCorrect`); the runs spend their time on what can
go wrong.

Why the bounds are enough to be interesting. Claims, reconciliation and retries concern one message at
a time, so one message with two dispatches has all interleavings of two on one row; two attempts have one
retry and the cap; two faults have a crash in the recovery of a crash. Timeouts keep their order to the
thresholds of the code: a text call (1 minute) is shorter than the staleness threshold (2), a media call
(2) is as long. Three connects are two that overlap and one that comes after; two closes put a timer
beside a fresh socket. The sender's Map of one message overflows with the second. Two starts of the
service are a dispatch beside another, beside the pairing screen, or after the death of its instance.
A Map of one mutex evicts at every change of file, and four calls are two writers and a reader of one file
with a call on the other between them, which evicts the mutex: the excuse of `NeverTorn` is met (without
it TLC finds the torn file), and so is every order of two writes, a failed one and a death. Two setups are
one that finds the engine of the other, at any point of its boot, or overlaps it; two ports and two
attempts have Node fall back into and out of the scanned range; an initial cache is empty, or unpacked with
a file evicted, and a death in the first setup hands a half-unpacked one to the second. A script that is no
sentinel (`package.json`) doubles the states of this run and takes it close to five minutes on a slow machine; with
it TLC finds no error in 768,709 states, and the theorems hold for any scripts. One message shares its media
with the form only; with two messages, and one file each of two kinds, TLC finds no error in 421,740 states,
and `MediaIsThere` is proved for any number.

Limits of the bounds. With LateDispatch = TRUE, or with two stalls, the state space of `SendFlow` has no
end: MarkMissed's stale copy puts attemptCount back and the row is claimed again, which is a hazard of the
code and not of the model. `AtMostOncePerRequest` and its companions are stated for `Guarded` messages, that
is text on a prompt phone: for media they are false, since a media call may outlast the claim
(sendflow_review), a lost update then requeues the row, and a dispatch reverted while it was slow
leaves a SENDING row with a NULL stamp that no query finds. Three starts in `DispatchService` exceed five
million states.

CHECK_DEADLOCK is FALSE throughout, since each system may come to rest: messages reach an outcome, calls
are used up, recordings end, starts are spent.

### Fairness

* `SendFlow`: a coroutine that can go on does (dispatcher), the backstop is periodic and hands each due row
  to a dispatch, RetryWorker is durable (WorkManager); a user action that has begun ends. The clock is
  strongly fair, because a pass, which is shorter than a minute, disables it again and again. Nothing
  is assumed of Node's answers, of the user's choices or of faults.
* `Storage`: a periodic cleanup goes on and time passes.
* `WaEngine`: awaits settle (the version fetch races five seconds), timers fire, a socket opens or closes,
  each wait of startPairing has its timeout.
* `VoiceRecorder`: the thread runs on, the encoder returns a buffer it has been given, the join ends.
* `DispatchService`: a timeout fires, a coroutine runs its finally block, the main thread runs onDestroy.
* `AtomicAuth`: the file system answers; nobody has to make a call. There are finitely many calls, so
  weak fairness of all their steps together is weak fairness of each.
* `EngineStart`: the threads of setups and Node run on, again as one condition since their steps are
  finitely many; nobody has to create or destroy a service, to take or to leave a port.
* `Sender` is checked for safety only.

### Disagreements the runs show

1. `ReviewedIsNotLive`: reconcile moves rows to NEEDS_REVIEW under a live media send, since
   MEDIA_SEND_TIMEOUT_MS equals CLAIM_STALENESS_MS; wp_brain.md:215 says it does not.
2. `SweepSparesLiveMedia`: the sweep by age takes the media of a message scheduled more than a day ahead
   (`ScheduleRepository.kt:164-171`).
3. `NoReconnectAfterDisconnect`: a backoff timer set before a disconnect fires after it
   (`whatsapp.js:71-74, 249`).

Others are met by the models without a run of their own; the properties name them as exceptions:

4. After a read error the recording thread never ends and keeps the microphone (`OpusRecorder.kt:181`,
   `NewMessageScreen.kt:165`): `StopEnds` and `AttachedIsFinished` except a failed microphone.
5. Leaving the pairing screen stops the instance an alarm's dispatch has joined
   (`ViewModels.kt:380-384`): `CutOnlyByNewerOrUser` lets the user cut a dispatch off.
6. `creds.json` can be torn after all (`atomic-auth.js:5-7` says never): the Map of mutexes evicts one
   that is held once a hundred other files have been asked for, and then two writers share one .tmp, the
   rename of the first publishing what the second has just truncated. One keys.set that uploads
   pre-keys writes more files than that at once. `NeverTorn` excepts forgotten mutexes. `NoSilentReset` has
   no exception: the session is then reported corrupt, not replaced.
7. A setup that begins while Node boots hears no port, takes Node for crashed and starts a second engine
   in the process (`SchedulerService.kt:84-90`), and it truncates and copies the scripts under the Node that
   is reading them (lines 142-147). `NoEngineBesideAListeningOne` and `EngineListens` are stated around that
   window.
8. Two setups that overlap (a setup does not suspend before its first try to connect, so cancelling
   the scope of a destroyed service does not stop it) share flag, port and cache: one may write the marker
   over the half copy of the other, and one may connect to the port the other has chosen. The properties of
   `EngineStart` except `overlapped`.
9. A copy that fails is logged and never tried again before the next version
   (`SchedulerService.kt:258-260`); a sentinel is noticed at the next start, another file is not.
10. A setup that finds index.js missing gives up although Node is up (`SchedulerService.kt:156-159`).
11. Node's fallback (`index.js:172-174`) may leave the range which the probe scans, so that no setup finds it.
12. An alarm that Android refuses with an exception after the row is inserted (`ScheduleRepository.kt:34-36`)
   is shown as "Failed to schedule" (`ViewModels.kt:287-290`), but the row stays PENDING and the backstop
   will send it: scheduling again sends twice, and deleting the voice note of the form takes the file of the
   row. `MediaThere` excuses such a message.

## 4. Proofs

| module | theorems | the invariant they follow from |
|---|---|---|
| `SendFlowProofs` | `TypeCorrect`, `NoFalseSuccess`, `NoResurrection` | `ConfirmedInv` |
| | `ExclusiveClaim`, `NoDuplicate`, `RequeueIsSafe`, `CappedCalls`, `OrphansAreStamped`, `ConfirmedForGood`, `RefinesLifecycle` | `GuardInv`, with `ConfirmedInv` |
| `StorageProofs` | `TypeCorrect`, `MediaIsThere`, `FilesGoFirst` | `StorageInv` |
| `WaEngineProofs` | `TypeCorrect`, `NeverTwoSockets`, `CodeAfterQr` | `WaInv` |
| | `NoCallerForgotten` | `CallersKeptInView`, with `WaInv` |
| `SenderProofs` | `TypeCorrect`, `PartsGoOutOnce`, `SuccessMeansComplete`, `TextComesLast` | `SenderInv` |
| `VoiceRecorderProofs` | `TypeCorrect`, `StreamIsWellFormed`, `NothingIsLost`, `AttachedFilesAreFinished` | `RecorderInv` |
| | `TheEndIsComing` | `EndIsComing`, with `RecorderInv` |
| `DispatchServiceProofs` | `TypeCorrect`, `OneClient`, `CutForAReason` | `ServiceInv` |
| | `NothingStaysUp` | `LastGoesOn`, with `ServiceInv` |
| `AtomicAuthProofs` | `TypeCorrect`, `FilesAreWhole`, `SessionIsKept`, `RefinesRegisters`, `NobodyIsStuck`, `CallsGoForward` | `AuthInv` |
| `EngineStartProofs` | `EveryListArrives`, `PortReachesNode`, `ArgumentsReachNode` | `LoopInv` of the copying loop |
| | `TypeCorrect` | `TypeInv` |
| | `OneEngineWhileListening` | `IInv` |
| | `TrustedTree`, `FilesAtStart` | `TreeInv` |
| | `ComesToNode` | `OwedInv`, with `IInv` and `TreeInv` |

The only assumptions are those the modules state about their constants (`...Assumption`), and `Prompt` where
the text says so. Each inductive invariant was checked by TLC on the run's instance before it was proved.

### SendFlow

For all sets of messages and workers, all thresholds that satisfy
`ThresholdsAssumption` and `SendFlowAssumption`, and all budgets of stalls, faults and resends,
LateDispatch included:

* `TypeCorrect == Spec => []TypeOK`. TypeOK is inductive. Each SQL statement has a lemma that it maps
  tables to tables; PutType and its companions carry a worker's step to the conjuncts about workers.
* `NoFalseSuccess == Spec => []ConfirmedWasDelivered`: a row is SENT_CONFIRMED only if WhatsApp was given
  its message. It is not inductive, because the status is written several steps after the answer that
  justifies it, from a copy of the row read in between. The inductive invariant is
  `ConfirmedInv == TypeOK /\ ConfirmedWasDelivered /\ EvidenceHeld`, where `EvidenceHeld` says that a
  worker with an "ok" reply, or about to write SENT_CONFIRMED, works for a delivered message.
  `delivered` only grows (`DeliveredGrows`); no other statement writes SENT_CONFIRMED
  (`NothingConfirmed`, `NothingConfirmedByReconcile`). Exclusiveness of claims is not needed, which is why
  it holds for media and stalls as well.

* `NoResurrection == Spec => DeletedStaysDeleted`: a message the user has deleted does not come back,
  although dispatches, the backstop and a resend write whole rows from old copies. TypeOK is
  invariant enough: an UPDATE matches no deleted row (`NoRowFromNothing`, `NoRowFromReconcile`), and
  Schedule takes a new id.

On a prompt phone (`Prompt`: no stalls, no late dispatch), for every text message, with any number of
messages, workers, attempts, faults and resends:

* `ExclusiveClaim`, `NoDuplicate`, `RequeueIsSafe`, `CappedCalls`, `OrphansAreStamped` and the step property
  `ConfirmedForGood` depend on each other: a second delivery is excluded because a row is requeued only when no
  call is running, that because one dispatch holds a row, that because no pass of reconcile finds a live
  dispatch stale, and that because of the stamp which the dispatch itself wrote. None of them is inductive.
  `GuardInv == \A id : Guarded(id) => Orderly(id)` is: `Orderly` says how the one dispatch of a message, its
  row, the counters outside (delivered, abandoned, requested, calls), a resend in progress and the copies a
  backstop pass has read fit together. The clock enters by one inequality, `r.age + me.left <= CallTimeout`,
  and `CallTimeout < Staleness` closes the argument; that is the assumption the code keeps for text
  and breaks for media.
* `RefinesLifecycle` (ASSUME Prompt): `SendFlow` implements `MessageLifecycle`. Every write of a status is an
  arrow (`AlongArrow`), reconcile's writes of several rows are several arrows in one step, and a delivery
  is one that was requested.

### Storage

For all sets of messages and files, all delays that satisfy `StorageAssumption`, and any number of crashes.
Files are deleted by operations that read the row first and delete later, so `StorageInv` says of a
dispatch, an operation of the user and a cleanup what they may still find of their row (`WorkFit`, `UserFit`,
`CleanupFit`). A cleanup may delete files of a row that is resent meanwhile; `MediaThere` holds all the
same since a row is never older than its files (`Aged`). `Owned`: the row of a message that is not excused shares
no file with another row or with the form; hence what the form has is on disk (`DraftThere`) unless a row has
it already, whose deletion may take it. `DeletedFirst`: who is about to delete a row has deleted its files.

### WaEngine

For every finite set of calls, any number of closes and pairings. `OneSocket` is inductive once the numbering
of sockets is known: they are made in order, and each goes back to a call that has ended or to a timer
that has fired (`SocksSuffice`), so that there is always a number for the next one.

`NoCallerForgotten == Spec => []CallersKeptInView` is the safety half of `ConnectAnswered` and
`ReconnectFollows`: as long as a caller waits for news, or was told "reconnecting" last, a call is in its awaits,
a WebSocket is opening or a timer is set. It is inductive with the flag of an intentional close, which is set
only while no connection is wanted: that close is the one which tells nobody.

### Sender

For all messages, calls, payloads that satisfy `SenderAssumption`, sizes of the Map, losses, give-ups and
restarts. The Sets of parts are shared by calls, and that is what `SenderInv` is about: a Set
belongs to one message (`SetsFit`), what is marked is out (`DoneIsOut`), and for a message that is not excused
exactly what is out is marked in the one Set the Map still has, nothing of which its one call in progress carries
(`Tracked`). `SuccessIsComplete` needs no excuse, since success is decided by the Set the call holds.

### VoiceRecorder

For any page threshold, packet lengths, number of frames and of input buffers (`MuxerAssumption`,
`RecorderAssumption`). The first half is about the muxer as a value: each of its operations maps a
stream to a stream (`Streams`: pages that follow one another, and pending packets that follow the last page),
or a muxer that was given nothing to a stream. When a page is flushed plays no part. The second half is
`QueueInv`: the encoder holds exactly the frames that are not in the muxer, in their order, and the mark of
the end only once no frame will follow. Hence the next packet is the next frame, and an empty queue
after the end means that nothing is missing. `StreamWellFormed` is stated page by page, not on the
concatenation of all pages, which is the same and can be reasoned about without induction.
`TheEndIsComing` is the safety half of `StopEnds`: once the input has ended the loop waits only for a mark that
is the last thing in the encoder, unless the microphone failed (disagreement 4).

### DispatchService

For any number of starts. `ServiceInv` comes in four parts on different variables. `StopsFit` is what
`CutOnlyByNewerOrUser` needs: an instance that is cancelled or dying has had its newest dispatch end, or
the user has left the pairing screen; it rests on Android's rule that stopSelf(id) stops only for the newest start
(`InstancesFit`). `SocketInv` is `ClientIsTheOpenSocket` with its types. That the generation stays within its
type needs a count: an instance bumps it by opening and by closing its channel (`ChannelInv`).

`NothingStaysUp == Spec => []NoIdleService` needs no fairness: the last start of the instance that is up is not
over, or it is the pairing screen's and the screen is open (`LastGoesOn`), since a dispatch comes to its end only
by its stopSelf, and the stopSelf of the last start takes the instance down.

### AtomicAuth

For any number of calls, key files, write errors and deaths, and any size of the Map of mutexes. `AuthInv` says
what the Map knows of the calls in progress (`LocksFit`: the mutex of every call on a file that is not
forgotten is in the Map, and who is inside came first), which name stands for which datum (`NamesFit`), and what
is in them (`FilesFit`). `RefinesRegisters` maps a register to what the file's name stands for: a write takes
effect at its rename, a removal at its unlink, a read when it returns (what it has opened is still what the name
stands for, since it holds the mutex); every other step stutters.

`NobodyIsStuck` and `CallsGoForward` are the safety half of `CallsSettle`. Of the unsettled calls that want a
mutex the first (there is one by `LeastNat`, from the well-foundedness of < on Nat) holds it, for `Inside` puts
nobody else before it, and has a step to take: its file may be open, missing or torn, but a step is enabled in
each case. And a call has four steps at most, none of which is ever undone.

### EngineStart

For all sets of assets, scripts and sentinels that satisfy
`EngineStartAssumption`, and any number of setups, ports, attempts and faults:

* `OneEngineWhileListening == Spec => NoEngineBesideAListeningOne`. The action property follows from an
  invariant, that a setup which began beside a listening engine never comes to choose a port; that is not
  inductive, since it depends on what the probe will find. `ProbeWillHear` adds that such an engine is
  still ahead of the probe or has been heard: engines stop listening only by the death of the process,
  which takes the setup along. `OneEngineEach` says that Start creates an engine where there was none,
  so that it cannot overwrite a listening one. That other programs may answer the probe, and that overlapping
  setups overwrite the flag, does no harm: `heard` is the setup's own.
* `TrustedTree == Spec => []TrustedTreeIsWhole` and `FilesAtStart == Spec => []NodeFindsItsFiles`, from
  one invariant `TreeInv` that says how far each copy is: while the tree is wiped, marker or sentinels give it
  away; while it is copied the marker is absent and every file that has been copied is whole, except
  files lost (`TrustedFor`) or missed by this setup (`ThereFor`). `OneAtWork` reduces a step to the setup
  that takes it, since without overlap no other is at work; that is where the exception is needed.
  NoFile must not be the name of an asset, which `EngineStartAssumption` says.
* `TypeCorrect`: the types are inductive with the count of tries a Node has left (`PortsFit`), which is what
  keeps its fallback within `Ports`; what Kotlin picks is always a scanned port.
* `ComesToNode == Spec => OwedEndsAtNode`, the safety half of `ConnectsAgain`: a setup that began beside a
  listening Node which no stranger precedes waits for no port but Node's, is wired to a Node that listens, and
  gives up only where `index.js` is gone. `OwedFits` carries the port from the probe through the flag, the
  activePort that others share, and the reading of it, and says that no try of such a setup fails; without
  `overlapped` it is false.
* `EveryListArrives` (ASSUME args \in Seq(Seq(Nat \ {0}))): the two loops of `native-lib.cpp`, for every number
  and length of strings. The recursive functions `Sizes` and `Populated` are shown to exist and to satisfy their
  equations on every prefix, and the invariant of the loop (`LoopInv`: what has been copied is in its place, the
  rest of the buffer is zero, argv points to each string) passes from one pass to the next. The induction itself
  takes the least prefix for which the claim fails (`LeastNat`): the library's rule of induction has an operator
  for parameter, its facts on well-founded sets do not. `ArgumentsReachNode` is the property of the run,
  `PortReachesNode` its use: `RequestedPort`, by which `EngineStart` asks Node for the port, is the identity on
  valid ports.

### What the proofs changed

* `MessageLifecycle` moved one message per step; one UPDATE moves many. It was the abstract machine that
  was wrong. With one message no run could tell.
* The refinement of the lifecycle is for text: `TextIds` takes the place of a mapping over all messages,
  false for media.
* `SendFlow`'s guards hold together or not at all: every attempt at one of them alone needs the others.
* `MediaThere` needs that a row is no older than its files, which no line of the code says: a form may be
  open for a day before it is scheduled, and its files age meanwhile.
* The types of `DispatchService` need a count of channels per instance.
* `NoIdleService` had been stated as liveness; the proof found it to hold in every state, and it is an invariant now.
* `StartNodeWithArguments` names the state after each pass of its loop, so that something can be said of it.
* A few operators were rewritten in an equivalent form the provers handle (`Place` in `AtomicAuth`, `Full` and
  `Forget` in `Sender`, sets without tuple patterns); the state graphs are the same.

### What stays with TLC

* Liveness under fairness, out of the prover's reach. Where a safety property carries the argument it is proved,
  so that fairness alone is left to TLC:

  | liveness | proved of it |
  |---|---|
  | `EventualOutcome` | `OrphansAreStamped`: an orphan is one a query finds; `CappedCalls`: retries end (text, prompt phone) |
  | `ConnectAnswered`, `ReconnectFollows` | `NoCallerForgotten` |
  | `StopEnds` | `TheEndIsComing` |
  | `CallsSettle` | `NobodyIsStuck`, `CallsGoForward` |
  | `ConnectsAgain` | `ComesToNode` |
  | `DispatchEnds`, `NoLeak`, `PairingAnswered`, `EngineListens` | nothing but the types: timeouts, a periodic cleanup and finitely many steps are all their argument |

* What the three violation runs show: a counterexample is found, not proved.

## 5. Not modelled

* Screens and application shell, diagnostics, notifications, phone contacts: no state others depend on.
* `polyfill.js` and `tools/`: global definitions made once, and developer scripts.
* Framing of the TCP stream, wording of errors, JSON; contacts and groups of `whatsapp.js`, which are
  requests for the lists Baileys holds.
* The registration of alarms: a dispatch may come at any time a row is due.
* The compose form's copies and the recording ticker's closure (`NewMessageScreen.kt:152`): how stale the
  captured form is depends on when Compose recomposes, which is not in the repository.
* The lacing of an Ogg page (`OpusRecorder.kt:418`): whether a page has more than 255 segments depends on
  the sizes of the encoder's packets, which the code does not bound; on their own the muxer's operators
  would only restate the arithmetic.
* `native-lib.cpp`: TMPDIR and the pipe that carries Node's output to the log.
* `cpp/include/node/` is the vendored headers of Node and OpenSSL, 632 files and more than 99 % of the lines
  of C and C++ in the repository: declarations, no program. The code of Delivra itself is 6,833 lines of
  Kotlin, JavaScript and C++; the map of `PROJECT.json` covers 2,441 of them (36 %), and 27 of the 86
  lines of its one C++ file. Most of the rest is layout (`ui/`), logging and comments.

## 6. Plan

Done, in this order: table and send flow; storage; engine; sender; recorder; service; session store; start of
the engine; proofs of all of them. Next:

1. **Proofs**: what media keep of the guards of `SendFlow`; that a row not at rest always has somebody who will
   look at it, for media and for the fault budget of a slow phone.
2. **SendFlow**: a bounded count of claims for LateDispatch = TRUE; two backstop passes at once.
3. **Composition of DispatchService and WaEngine**: a send finds the session open, or its failure is one
   that is retried.
