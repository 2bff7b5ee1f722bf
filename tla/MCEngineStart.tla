--------------------------- MODULE MCEngineStart ---------------------------
(* EngineStart for TLC: a script, a sentinel of node_modules and a file
   nobody watches; short argument lists. *)
EXTENDS EngineStart, SequencesExt

Strings == BoundedSeq({Node, Entry}, 2)
ShortLists == BoundedSeq(Strings, 3)

=============================================================================
