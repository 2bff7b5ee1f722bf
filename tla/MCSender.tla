------------------------------ MODULE MCSender ------------------------------
(* Sender for TLC: two messages, three calls, room for one message in the
   Map.  The payload is a voice note with a document and a text, or an image that
   takes the text along. *)
EXTENDS Sender, TLC

CONSTANTS m1, m2, k1, k2, k3

MCMsgs == {m1, m2}
MCCalls == {k1, k2, k3}
MCPayloads == {[parts |-> {"voice", "doc", "text"}, image |-> FALSE],
               [parts |-> {"doc", "text"}, image |-> TRUE]}

Symmetry == Permutations(MCMsgs) \cup Permutations(MCCalls)

=============================================================================
