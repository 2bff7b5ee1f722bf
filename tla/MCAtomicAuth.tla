---------------------------- MODULE MCAtomicAuth ----------------------------
(* AtomicAuth for TLC: creds.json and key files, a Map smaller than their
   number. *)
EXTENDS AtomicAuth

CONSTANTS k1

=============================================================================
