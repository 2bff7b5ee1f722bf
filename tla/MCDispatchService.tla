------------------------- MODULE MCDispatchService -------------------------
(* DispatchService for TLC: two starts, of which one may be the pairing
   screen's, and as many instances of the service. *)
EXTENDS DispatchService

=============================================================================
