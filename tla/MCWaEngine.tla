----------------------------- MODULE MCWaEngine -----------------------------
(* WaEngine for TLC: three connect calls. *)
EXTENDS WaEngine

CONSTANTS c1, c2, c3

MCCalls == {c1, c2, c3}

=============================================================================
