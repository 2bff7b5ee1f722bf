---------------------------- MODULE OggOpusMuxer ----------------------------
(***************************************************************************)
(* OggOpusMuxer (OpusRecorder.kt): packets are collected and written as a  *)
(* page once they weigh PAGE_FLUSH_THRESHOLD, and with finish().  A muxer  *)
(* is a value, its operations map a muxer to a muxer.  Serial number, CRC, *)
(* lacing and the bytes of a packet are left out; a packet has a length,   *)
(* which decides when a page is written, and counts for one unit of the    *)
(* granule position.                                                       *)
(***************************************************************************)
EXTENDS Integers, Sequences, FiniteSetsExt

CONSTANT FlushThreshold  \* PAGE_FLUSH_THRESHOLD

ASSUME MuxerAssumption == FlushThreshold \in Nat \ {0}

OpusHead == [what |-> "head", frame |-> 0, len |-> 1]
OpusTags == [what |-> "tags", frame |-> 0, len |-> 1]
Audio(frame, len) == [what |-> "audio", frame |-> frame, len |-> len]

NewMuxer == [pages |-> <<>>, pending |-> <<>>, granule |-> 0, finished |-> FALSE]

WritePage(mux, type, granule, packets) ==
    [mux EXCEPT !.pages = Append(@, [type |-> type, granule |-> granule, packets |-> packets])]

WriteHeader(mux) == WritePage(mux, "BOS", 0, <<OpusHead>>)
WriteTags(mux) == WritePage(mux, "none", 0, <<OpusTags>>)

\* Mutated: the packets just written stay in the list.
FlushKeeping(mux, eos) ==
    IF mux.pending = <<>> /\ ~eos THEN mux
    ELSE WritePage(mux, IF eos THEN "EOS" ELSE "none", mux.granule, mux.pending)

Flush(mux, eos) ==
    IF mux.pending = <<>> /\ ~eos THEN mux
    ELSE [WritePage(mux, IF eos THEN "EOS" ELSE "none", mux.granule, mux.pending)
             EXCEPT !.pending = <<>>]

PendingBytes(mux) == MapThenSumSet(LAMBDA i : mux.pending[i].len, DOMAIN mux.pending)

WritePacket(mux, packet) ==
    LET more == [mux EXCEPT !.pending = Append(@, packet), !.granule = @ + 1]
    IN  IF PendingBytes(more) >= FlushThreshold THEN Flush(more, FALSE) ELSE more

Finish(mux) == IF mux.finished THEN mux ELSE Flush([mux EXCEPT !.finished = TRUE], TRUE)

=============================================================================
