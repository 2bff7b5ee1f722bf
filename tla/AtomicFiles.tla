---------------------------- MODULE AtomicFiles ----------------------------
(***************************************************************************)
(* What the session store promises: every file is a register.  Calls on a  *)
(* file take effect one at a time in the order they were made, a call that *)
(* settled has taken effect, a file holds what one write put there or      *)
(* nothing, and the death of the process takes no more than the calls that *)
(* had not settled.  AtomicAuth implements it.                             *)
(*                                                                         *)
(* "unsound" names the files for which the promise is no longer kept.      *)
(***************************************************************************)
EXTENDS Integers

CONSTANTS Files, Ops   \* Ops: calls, numbered in the order they are made

None == -1             \* no file; the result of a call that returns nothing

VARIABLES
    stored,            \* file -> the write whose data it holds, or None
    phase,             \* call -> unmade, pending, done, failed or dead
    target,            \* call -> what it does to which file
    result,            \* call -> what it returned
    unsound

vars == <<stored, phase, target, result, unsound>>

Kinds == {"write", "read", "remove"}
Pending == {o \in Ops : phase[o] = "pending"}
File(o) == target[o].file

\* The oldest pending call on its file.
IsNext(o) == o \in Pending /\ \A p \in Pending : File(p) = File(o) => o <= p

Settle(o, how) == phase' = [phase EXCEPT ![o] = how] /\ UNCHANGED <<target, unsound>>

Call(o) ==
    /\ phase[o] = "unmade"
    /\ phase' = [phase EXCEPT ![o] = "pending"]
    /\ \E kind \in Kinds, f \in Files : target' = [target EXCEPT ![o] = [kind |-> kind, file |-> f]]
    /\ unsound \subseteq unsound'
    /\ UNCHANGED <<stored, result>>

Write(o) ==
    /\ IsNext(o) /\ target[o].kind = "write"
    /\ stored' = [stored EXCEPT ![File(o)] = o]
    /\ Settle(o, "done") /\ UNCHANGED result

Remove(o) ==
    /\ IsNext(o) /\ target[o].kind = "remove"
    /\ stored' = [stored EXCEPT ![File(o)] = None]
    /\ Settle(o, "done") /\ UNCHANGED result

Read(o) ==
    /\ IsNext(o) /\ target[o].kind = "read"
    /\ result' = [result EXCEPT ![o] = stored[File(o)]]
    /\ Settle(o, "done") /\ UNCHANGED stored

\* A write that fails leaves the old value.
Fail(o) == IsNext(o) /\ target[o].kind = "write" /\ Settle(o, "failed") /\ UNCHANGED <<stored, result>>

Die ==
    /\ phase' = [o \in Ops |-> IF o \in Pending THEN "dead" ELSE phase[o]]
    /\ UNCHANGED <<stored, target, result, unsound>>

\* Anything may become of an unsound file and of the calls on it.
Unsound(f) ==
    /\ f \in unsound
    /\ \A g \in Files \ {f} : stored'[g] = stored[g]
    /\ \A o \in Ops : target[o].file # f => phase'[o] = phase[o] /\ result'[o] = result[o]
    /\ UNCHANGED <<target, unsound>>

Init ==
    /\ stored \in [Files -> {None, 0}]
    /\ phase = [o \in Ops |-> "unmade"]
    /\ target = [o \in Ops |-> [kind |-> "none", file |-> None]]
    /\ result = [o \in Ops |-> None]
    /\ unsound = {}

Next ==
    \/ \E o \in Ops : Call(o) \/ Write(o) \/ Remove(o) \/ Read(o) \/ Fail(o)
    \/ Die
    \/ \E f \in Files : Unsound(f)

Spec == Init /\ [][Next]_vars

=============================================================================
