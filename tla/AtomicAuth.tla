----------------------------- MODULE AtomicAuth -----------------------------
(***************************************************************************)
(* The session store of the engine (atomic-auth.js): readData, writeData   *)
(* and removeData on the files of the session, each under the mutex of its *)
(* file, with the Map of mutexes that forgets the least recently used.     *)
(*                                                                         *)
(* Calls are numbered in the order they are made; a step is the code from  *)
(* one await to the next.  A write opens <file>.tmp (which truncates it),  *)
(* fills it, and renames it over the file.  Names and data are kept apart, *)
(* as the file system does: a writer goes on with the data it has opened   *)
(* whatever becomes of the name.                                           *)
(*                                                                         *)
(* The datum of a write is its number.  keys.get and keys.set make their   *)
(* calls in a row and wait for all of them.                                *)
(***************************************************************************)
EXTENDS Integers, FiniteSets, SequencesExt

CONSTANTS
    Keys,        \* the files of the signal keys
    Creds,       \* creds.json
    Cap,         \* FILE_LOCKS_MAX
    MaxOps,      \* bound: calls
    MaxErrors,   \* bound: writes that fail (no space left, an I/O error)
    MaxCrashes   \* bound: deaths of the process

ASSUME AtomicAuthAssumption ==
    /\ Creds \notin Keys /\ IsFiniteSet(Keys)
    /\ Cap \in Nat \ {0}
    /\ MaxOps \in Nat /\ MaxErrors \in Nat /\ MaxCrashes \in Nat

Files == Keys \cup {Creds}
Ops == 1 .. MaxOps
Data == 0 .. MaxOps      \* named by the call that created it; 0 was there before
None == -1               \* no file, null
Partial == -2            \* truncated, or filled in part
Mixed == -3              \* parts of two writes
Corrupt == -4            \* AuthStateCorruptError
Unparsable == {Partial, Mixed}

VARIABLES
    fileLocks,   \* the Map in insertion order: file and mutex
    op,          \* the calls
    issued,      \* calls made
    disk, tmp,   \* what <file> and <file>.tmp name
    content,     \* what the data are
    session,     \* useAtomicFileAuthState has returned in this process
    forgotten,   \* files whose mutex was evicted while in use
    errors, crashes

files == <<disk, tmp, content>>
budgets == <<errors, crashes>>
vars == <<fileLocks, op, issued, files, session, forgotten, budgets>>

Kinds == {"write", "read", "remove", "load"}
Settled == {"unmade", "done", "failed", "dead"}

\* lock: the mutex, named by the call that created it; data: the open file;
\* existed: whether the file was there when the call was made
Unmade == [kind |-> "none", file |-> None, lock |-> None, pc |-> "unmade", data |-> None,
           result |-> None, existed |-> FALSE]

Init ==
    /\ fileLocks = <<>>
    /\ op = [o \in Ops |-> Unmade]
    /\ issued = 0
    /\ \E there \in {None, 0} : disk = [f \in Files |-> IF f = Creds THEN there ELSE None]
    /\ tmp = [f \in Files |-> None]
    /\ content = [d \in Data |-> d]
    /\ session \in BOOLEAN   \* TRUE: calls before have settled
    /\ forgotten = {}
    /\ errors = 0 /\ crashes = 0

-----------------------------------------------------------------------------
(* getFileLock, and the calls that begin with it *)

InUse(lock) == \E o \in Ops : op[o].lock = lock /\ op[o].pc \notin Settled

Known(f) == {i \in DOMAIN fileLocks : fileLocks[i].file = f}
Place(f) == CHOOSE i \in Known(f) : TRUE

\* Mutated: every call gets a mutex of its own.
LockOfCall(f) == issued + 1

\* The mutex the Map has for the file, or a new one.
LockOf(f) ==
    IF Known(f) = {} THEN issued + 1 ELSE fileLocks[Place(f)].lock

\* A known entry moves to the tail, a new one takes the place of the oldest.
GetFileLock(f) ==
    LET full == Known(f) = {} /\ Len(fileLocks) >= Cap
        oldest == Head(fileLocks)
        others == IF Known(f) # {} THEN RemoveAt(fileLocks, Place(f))
                  ELSE IF full THEN Tail(fileLocks) ELSE fileLocks
    IN  /\ fileLocks' = Append(others, [file |-> f, lock |-> LockOf(f)])
        /\ forgotten' = IF full /\ InUse(oldest.lock) THEN forgotten \cup {oldest.file}
                        ELSE forgotten

Make(kind, f) ==
    /\ issued < MaxOps
    /\ issued' = issued + 1
    /\ GetFileLock(f)
    /\ op' = [op EXCEPT ![issued + 1] =
                 [Unmade EXCEPT !.kind = kind, !.file = f, !.lock = LockOf(f), !.pc = "waiting",
                                !.existed = disk[f] # None]]
    /\ UNCHANGED <<files, session, budgets>>

\* useAtomicFileAuthState: the strict read of creds.json, at every connect
Load == Make("load", Creds)

\* saveCreds, at every creds.update
SaveCreds == session /\ Make("write", Creds)

\* keys.get, and keys.set with a value or null
KeysGet(f) == session /\ Make("read", f)
KeysSet(f) == session /\ (Make("write", f) \/ Make("remove", f))

-----------------------------------------------------------------------------
(* The mutex, and what is done under it *)

\* async-mutex serves in the order of acquire(); release() is in a finally.
Holds(o) ==
    /\ op[o].pc \notin Settled
    /\ \A p \in Ops : op[p].lock = op[o].lock /\ op[p].pc \notin Settled => o <= p
Starts(o, kinds) == op[o].pc = "waiting" /\ op[o].kind \in kinds /\ Holds(o)

Step(o, pc) ==
    op' = [op EXCEPT ![o].pc = pc, ![o].lock = IF pc \in Settled THEN None ELSE @,
                     ![o].data = IF pc \in Settled THEN None ELSE @]
UnchangedByStep == UNCHANGED <<fileLocks, issued, forgotten, crashes>>

\* Mutated: the file itself is opened.
OpenInPlace(o) ==
    LET f == op[o].file
        data == IF disk[f] = None THEN o ELSE disk[f]
    IN  /\ Starts(o, {"write"})
        /\ op' = [op EXCEPT ![o].pc = "writing", ![o].data = data]
        /\ disk' = [disk EXCEPT ![f] = data]
        /\ tmp' = [tmp EXCEPT ![f] = data]
        /\ content' = [content EXCEPT ![data] = Partial]
        /\ UNCHANGED <<session, errors>> /\ UnchangedByStep

\* writeFile opens the .tmp, the one left by a writer before if there is any.
Open(o) ==
    LET f == op[o].file
        data == IF tmp[f] = None THEN o ELSE tmp[f]
    IN  /\ Starts(o, {"write"})
        /\ op' = [op EXCEPT ![o].pc = "writing", ![o].data = data]
        /\ tmp' = [tmp EXCEPT ![f] = data]
        /\ content' = [content EXCEPT ![data] = Partial]
        /\ UNCHANGED <<disk, session, errors>> /\ UnchangedByStep

\* What another has written into the same data since may stick out.
Written(o) ==
    LET data == op[o].data IN
    /\ op[o].pc = "writing"
    /\ Step(o, "renaming")
    /\ \/ content' = [content EXCEPT ![data] = o]
       \/ content[data] # Partial /\ content' = [content EXCEPT ![data] = Mixed]
    /\ UNCHANGED <<disk, tmp, session, errors>> /\ UnchangedByStep

\* Mutated: a write that fails does not release the mutex.
WriteFailsHolding(o) ==
    /\ op[o].pc = "writing"
    /\ errors < MaxErrors /\ errors' = errors + 1
    /\ Step(o, "stuck")
    /\ UNCHANGED <<files, session>> /\ UnchangedByStep

\* writeFile rejects; the .tmp stays.
WriteFails(o) ==
    /\ op[o].pc = "writing"
    /\ errors < MaxErrors /\ errors' = errors + 1
    /\ Step(o, "failed")
    /\ UNCHANGED <<files, session>> /\ UnchangedByStep

\* Whatever the name .tmp stands for now; without one rename rejects.
Rename(o) ==
    LET f == op[o].file IN
    /\ op[o].pc = "renaming"
    /\ IF tmp[f] = None
       THEN Step(o, "failed") /\ UNCHANGED <<disk, tmp>>
       ELSE /\ Step(o, "done")
            /\ disk' = [disk EXCEPT ![f] = tmp[f]]
            /\ tmp' = [tmp EXCEPT ![f] = None]
    /\ UNCHANGED <<content, session, errors>> /\ UnchangedByStep

OpenForRead(o) ==
    /\ Starts(o, {"read", "load"})
    /\ disk[op[o].file] # None
    /\ op' = [op EXCEPT ![o].pc = "reading", ![o].data = disk[op[o].file]]
    /\ UNCHANGED <<files, session, errors>> /\ UnchangedByStep

Return(o, result) ==
    /\ op' = [op EXCEPT ![o].pc = "done", ![o].result = result, ![o].lock = None, ![o].data = None]
    /\ session' = (session \/ (op[o].kind = "load" /\ result # Corrupt))
    /\ UNCHANGED <<files, errors>> /\ UnchangedByStep

\* ENOENT: null, which for creds.json means initAuthCreds().
ReadNothing(o) ==
    /\ Starts(o, {"read", "load"})
    /\ disk[op[o].file] = None
    /\ Return(o, None)

\* Mutated: no read is strict.
ParsedLeniently(o) == IF content[op[o].data] \in Unparsable THEN None ELSE content[op[o].data]

\* JSON.parse: only the strict read of creds.json tells an error from null.
Parsed(o) ==
    IF content[op[o].data] \notin Unparsable THEN content[op[o].data]
    ELSE IF op[o].kind = "load" THEN Corrupt ELSE None

ReadReturns(o) == op[o].pc = "reading" /\ Return(o, Parsed(o))

Unlink(o) ==
    /\ Starts(o, {"remove"})
    /\ disk' = [disk EXCEPT ![op[o].file] = None]
    /\ Step(o, "done")
    /\ UNCHANGED <<tmp, content, session, errors>> /\ UnchangedByStep

\* The process is killed: names and data stay as they are.
Crash ==
    /\ crashes < MaxCrashes /\ crashes' = crashes + 1
    /\ fileLocks' = <<>>
    /\ op' = [o \in Ops |-> IF op[o].pc \in Settled THEN op[o]
                            ELSE [op[o] EXCEPT !.pc = "dead", !.lock = None, !.data = None]]
    /\ session' = FALSE
    /\ UNCHANGED <<issued, files, forgotten, errors>>

-----------------------------------------------------------------------------
Under(o) ==
    \/ Open(o) \/ Written(o) \/ Rename(o)
    \/ OpenForRead(o) \/ ReadNothing(o) \/ ReadReturns(o)
    \/ Unlink(o)

Next ==
    \/ Load \/ SaveCreds
    \/ \E f \in Keys : KeysGet(f) \/ KeysSet(f)
    \/ \E o \in Ops : Under(o) \/ WriteFails(o)
    \/ Crash

Spec == Init /\ [][Next]_vars

\* The file system answers (there are finitely many calls, so fairness to all of
\* them together is fairness to each).
FairSpec == Spec /\ WF_vars(\E o \in Ops : Under(o))

-----------------------------------------------------------------------------
(* Properties *)

\* "A process kill mid-write can never leave a torn JSON file behind"
\* (atomic-auth.js:5-7): what a file names can be parsed at every moment, with
\* other writes, failed writes and an old .tmp about, unless the Map has
\* forgotten the mutex of the file while it was in use.
NeverTorn ==
    \A f \in Files \ forgotten : disk[f] # None => content[disk[f]] \notin Unparsable

\* A session is never replaced by fresh credentials behind the user's back
\* (atomic-auth.js:10-13): a load called when creds.json existed returns it or
\* AUTH_STATE_CORRUPT, also where two writers have got at the file.
NoSilentReset ==
    \A o \in Ops : (op[o].kind = "load" /\ op[o].existed /\ op[o].pc = "done") => op[o].result # None

\* Every call settles, whatever failed before it under the same mutex and
\* whichever mutexes were evicted: none stays locked.
AllSettled == \A o \in Ops : op[o].pc \in Settled
CallsSettle == ~AllSettled ~> AllSettled

\* Each file is an atomic register, served in the order of the calls and
\* surviving the process: the next connect loads what the last saveCreds
\* before it has saved.  Files whose mutex was evicted in use are excepted.
Kind(o) == IF op[o].kind = "load" THEN "read" ELSE op[o].kind
Phase(o) == IF op[o].pc \in Settled THEN op[o].pc ELSE "pending"
Registers == INSTANCE AtomicFiles WITH
    stored <- [f \in Files |-> IF disk[f] = None THEN None ELSE content[disk[f]]],
    phase <- [o \in Ops |-> Phase(o)],
    target <- [o \in Ops |-> [kind |-> Kind(o), file |-> op[o].file]],
    result <- [o \in Ops |-> op[o].result],
    unsound <- forgotten
ImplementsRegisters == Registers!Spec

=============================================================================
