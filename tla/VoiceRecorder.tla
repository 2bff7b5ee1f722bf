---------------------------- MODULE VoiceRecorder ----------------------------
(***************************************************************************)
(* A voice note being recorded: the thread of OpusRecorder.start between   *)
(* the microphone, the Opus encoder and the muxer, and the screen that     *)
(* stops it (VoiceNoteRecorder.stop and cancel) and joins it for five      *)
(* seconds.                                                                *)
(*                                                                         *)
(* Microphone and encoder are external.  The encoder announces its header  *)
(* by a format change, by a flagged buffer, by both or not at all, puts    *)
(* out one packet per frame when it likes, and flags the last one or an    *)
(* empty buffer as the end of the stream, once that has been queued.       *)
(* A read of the microphone returns a frame or, once it fails, an error.   *)
(***************************************************************************)
EXTENDS OggOpusMuxer, SequencesExt

CONSTANTS
    Lens,        \* packet lengths
    MaxFrames,   \* MAX_DURATION_MS, in frames
    InputSlots,  \* input buffers of the encoder
    MinDuration  \* the second below which stop() discards, in packets

ASSUME RecorderAssumption ==
    /\ Lens \subseteq Nat \ {0}
    /\ MaxFrames \in Nat \ {0}
    /\ InputSlots \in Nat \ {0}
    /\ MinDuration \in Nat \ {0}

Eos == 0    \* the end-of-stream mark among the frames 1, 2, ...

VARIABLES
    pc,            \* where the thread is
    running, done, inputEos, framePending, framesIn, headWritten,
    mux,           \* the muxer and through it the file
    mic,           \* the AudioRecord
    queue,         \* frames (and Eos) given to the encoder and not put out yet
    announce,      \* the headers the encoder will still announce
    crashed,       \* the loop ended with an exception
    ui             \* the screen

flags == <<running, done, inputEos, framePending, framesIn, headWritten>>
codec == <<queue, announce>>
vars == <<pc, flags, mux, mic, codec, crashed, ui>>

Announcements == {<<>>, <<"format">>, <<"config">>, <<"format", "config">>}

TypeOK ==
    /\ pc \in {"off", "feed", "drain", "tail", "tailDrain", "finally", "dead"}
    /\ running \in BOOLEAN /\ done \in BOOLEAN /\ inputEos \in BOOLEAN
    /\ framePending \in BOOLEAN /\ headWritten \in BOOLEAN /\ crashed \in BOOLEAN
    /\ framesIn \in 0 .. MaxFrames
    /\ mux.granule \in 0 .. MaxFrames
    /\ mux.finished \in BOOLEAN
    /\ mic \in {"off", "on", "failed", "released"}
    /\ queue \in Seq(0 .. MaxFrames) /\ Len(queue) <= InputSlots
    /\ announce \in Announcements \cup {<<"config">>}
    /\ ui \in {"idle", "recording", "stopping", "attached", "discarded", "cancelling", "left"}

Init ==
    /\ pc = "off"
    /\ running = FALSE /\ done = FALSE /\ inputEos = FALSE /\ framePending = FALSE
    /\ framesIn = 0 /\ headWritten = FALSE
    /\ mux = NewMuxer
    /\ mic = "off"
    /\ queue = <<>> /\ announce \in Announcements
    /\ crashed = FALSE
    /\ ui = "idle"

-----------------------------------------------------------------------------
(* The screen *)

Start ==
    /\ ui = "idle"
    /\ ui' = "recording"
    /\ pc' = "feed"
    /\ mic' = "on"
    /\ running' = TRUE
    /\ UNCHANGED <<done, inputEos, framePending, framesIn, headWritten, mux, codec, crashed>>

\* stop() for a tap or the five-minute ticker, cancel() when the screen is left
StopRequested ==
    /\ ui = "recording"
    /\ ui' \in {"stopping", "cancelling"}
    /\ running' = FALSE
    /\ UNCHANGED <<pc, done, inputEos, framePending, framesIn, headWritten, mux, mic, codec,
                   crashed>>

Returned ==
    ui' = IF ui = "cancelling" THEN "left"
          ELSE IF mux.granule < MinDuration \/ mux.pages = <<>> THEN "discarded"
          ELSE "attached"

\* Mutated: stop() does not wait for the thread.
JoinSkipped ==
    /\ ui \in {"stopping", "cancelling"}
    /\ Returned
    /\ UNCHANGED <<pc, flags, mux, mic, codec, crashed>>

\* t.join(5_000) returns with the thread dead, or gives up on a thread that
\* does not end; a thread whose microphone works ends in less.
Joined ==
    /\ ui \in {"stopping", "cancelling"}
    /\ pc = "dead" \/ mic = "failed"
    /\ Returned
    /\ UNCHANGED <<pc, flags, mux, mic, codec, crashed>>

-----------------------------------------------------------------------------
(* The thread: the loop *)

More == ~done /\ framesIn < MaxFrames

FreeSlot == Len(queue) < InputSlots

LoopEnds ==
    /\ pc = "feed" /\ ~More
    /\ pc' = "tail"
    /\ UNCHANGED <<flags, mux, mic, codec, crashed, ui>>

\* The branches of one turn, each of which goes on to the encoder's output.
Turn(condition) ==
    /\ pc = "feed" /\ More
    /\ condition
    /\ pc' = "drain"
    /\ UNCHANGED <<done, headWritten, mux, mic, announce, crashed, ui>>

QueuesFrame ==
    /\ Turn(~inputEos /\ framePending /\ FreeSlot)
    /\ queue' = Append(queue, framesIn + 1)
    /\ framesIn' = framesIn + 1
    /\ framePending' = FALSE
    /\ UNCHANGED <<running, inputEos>>

ReadsFrame ==
    /\ Turn(~inputEos /\ ~framePending /\ running /\ mic = "on")
    /\ framePending' = TRUE
    /\ UNCHANGED <<running, inputEos, framesIn, queue>>

\* read <= 0: "ending stream", but nothing is queued.
ReadFails ==
    /\ Turn(~inputEos /\ ~framePending /\ running /\ mic = "failed")
    /\ inputEos' = TRUE
    /\ UNCHANGED <<running, framePending, framesIn, queue>>

\* Mutated: a stop is looked at before the frame that waits for a buffer.
QueuesEosFirst ==
    /\ Turn(~inputEos /\ ~running /\ FreeSlot)
    /\ queue' = Append(queue, Eos)
    /\ inputEos' = TRUE
    /\ UNCHANGED <<running, framePending, framesIn>>

QueuesEos ==
    /\ Turn(~inputEos /\ ~framePending /\ ~running /\ FreeSlot)
    /\ queue' = Append(queue, Eos)
    /\ inputEos' = TRUE
    /\ UNCHANGED <<running, framePending, framesIn>>

\* No input buffer comes free within 100 ms, or there is nothing left to feed.
FeedsNothing ==
    /\ Turn(inputEos \/ (~FreeSlot /\ (framePending \/ ~running)))
    /\ UNCHANGED <<running, inputEos, framePending, framesIn, queue>>

-----------------------------------------------------------------------------
(* The thread: the encoder's output, in the loop and after it *)

Draining == pc \in {"drain", "tailDrain"}

\* writeHeaderOnce
WithHeader(m) == IF headWritten THEN m ELSE WriteTags(WriteHeader(m))

\* INFO_OUTPUT_FORMAT_CHANGED: the csd-0 of the new format
FormatChanged ==
    /\ Draining
    /\ announce # <<>> /\ Head(announce) = "format"
    /\ announce' = Tail(announce)
    /\ mux' = WithHeader(mux)
    /\ headWritten' = TRUE
    /\ UNCHANGED <<pc, running, done, inputEos, framePending, framesIn, mic, queue, crashed, ui>>

\* Mutated: the buffer of the encoder's header is written like any other.
ConfigMuxed ==
    /\ Draining
    /\ announce # <<>> /\ Head(announce) = "config"
    /\ announce' = Tail(announce)
    /\ mux' = WritePacket(WithHeader(mux), OpusHead)
    /\ headWritten' = TRUE
    /\ UNCHANGED <<pc, running, done, inputEos, framePending, framesIn, mic, queue, crashed, ui>>

\* BUFFER_FLAG_CODEC_CONFIG: the bytes are kept for the header, never muxed.
ConfigBuffer ==
    /\ Draining
    /\ announce # <<>> /\ Head(announce) = "config"
    /\ announce' = Tail(announce)
    /\ UNCHANGED <<pc, flags, mux, mic, queue, crashed, ui>>

\* What handlePacket returned: only the loop sets done by it.
SeesEos(eos) == done' = (done \/ (eos /\ pc = "drain"))

\* A packet, which may be flagged as the last.
Packet ==
    /\ Draining
    /\ announce \in {<<>>, <<"config">>}
    /\ queue # <<>> /\ Head(queue) # Eos
    /\ \E len \in Lens : mux' = WritePacket(WithHeader(mux), Audio(Head(queue), len))
    /\ headWritten' = TRUE
    /\ \/ /\ queue' = Tail(queue)
          /\ SeesEos(FALSE)
       \/ /\ Tail(queue) = <<Eos>>
          /\ queue' = <<>>
          /\ SeesEos(TRUE)
    /\ UNCHANGED <<pc, running, inputEos, framePending, framesIn, mic, announce, crashed, ui>>

\* Mutated: a buffer without bytes is passed over, flag and all.
EmptyIgnored ==
    /\ Draining
    /\ queue = <<Eos>>
    /\ queue' = <<>>
    /\ UNCHANGED <<pc, flags, mux, mic, announce, crashed, ui>>

\* Samsung's encoder ends the stream with an empty buffer.
EmptyEos ==
    /\ Draining
    /\ queue = <<Eos>>
    /\ queue' = <<>>
    /\ SeesEos(TRUE)
    /\ UNCHANGED <<pc, running, inputEos, framePending, framesIn, headWritten, mux, mic,
                   announce, crashed, ui>>

\* Nothing came within the timeout of dequeueOutputBuffer.
DrainEnds ==
    /\ Draining
    /\ pc' = IF pc = "drain" THEN "feed" ELSE "finally"
    /\ UNCHANGED <<flags, mux, mic, codec, crashed, ui>>

\* After the loop: the end of the stream, unless it has been queued or no
\* buffer comes free.
TailQueues ==
    /\ pc = "tail"
    /\ queue' = IF ~inputEos /\ FreeSlot THEN Append(queue, Eos) ELSE queue
    /\ pc' = "tailDrain"
    /\ UNCHANGED <<flags, mux, mic, announce, crashed, ui>>

\* An IllegalStateException of the encoder
Throws ==
    /\ pc \in {"feed", "drain", "tail", "tailDrain"}
    /\ pc' = "finally"
    /\ crashed' = TRUE
    /\ UNCHANGED <<flags, mux, mic, codec, ui>>

Finally ==
    /\ pc = "finally"
    /\ pc' = "dead"
    /\ mic' = "released"
    /\ mux' = Finish(mux)
    /\ done' = TRUE /\ running' = FALSE
    /\ UNCHANGED <<inputEos, framePending, framesIn, headWritten, codec, crashed, ui>>

\* read() returns an error from now on: the microphone went to a call, or the
\* audio server died.
MicFails ==
    /\ mic = "on"
    /\ mic' = "failed"
    /\ UNCHANGED <<pc, flags, mux, codec, crashed, ui>>

-----------------------------------------------------------------------------

Screen == Start \/ StopRequested \/ Joined
Feed == LoopEnds \/ QueuesFrame \/ ReadsFrame \/ ReadFails \/ QueuesEos \/ FeedsNothing
Output == FormatChanged \/ ConfigBuffer \/ Packet \/ EmptyEos

Next == Screen \/ Feed \/ Output \/ DrainEnds \/ TailQueues \/ Throws \/ Finally \/ MicFails

Spec == Init /\ [][Next]_vars

\* A live thread runs, a join returns, and the encoder puts out what it holds
\* if it is asked often enough.
FairSpec ==
    /\ Spec
    /\ WF_vars(Feed) /\ WF_vars(DrainEnds) /\ WF_vars(TailQueues) /\ WF_vars(Finally)
    /\ WF_vars(Joined)
    /\ SF_vars(Output)

-----------------------------------------------------------------------------
(* What is expected of it *)

\* Once there is audio in the file it starts with OpusHead and OpusTags on
\* pages of their own, neither of them appears again, and every page goes on
\* where the one before it stopped: it holds the audio of the next frames in
\* their order, its granule counts the frames up to its end, and only the last
\* page, which ends at the last frame, is flagged as the end: whatever the
\* encoder announces when, and wherever a stop, an exception or a failing
\* microphone cuts the recording (OpusRecorder.kt handlePacket, writeHeaderOnce,
\* finish).
StreamWellFormed ==
    LET pages == mux.pages
        GoesOn(i) ==
            LET before == pages[i - 1].granule
                packets == pages[i].packets
            IN  /\ pages[i].granule = before + Len(packets)
                /\ \A k \in DOMAIN packets :
                      packets[k].what = "audio" /\ packets[k].frame = before + k
                /\ (pages[i].type = "EOS") = (mux.finished /\ i = Len(pages))
    IN  mux.granule > 0 =>
        /\ Len(pages) >= 2
        /\ pages[1] = [type |-> "BOS", granule |-> 0, packets |-> <<OpusHead>>]
        /\ pages[2] = [type |-> "none", granule |-> 0, packets |-> <<OpusTags>>]
        /\ \A i \in 3 .. Len(pages) : GoesOn(i)
        /\ mux.finished => pages[Len(pages)].granule = mux.granule

\* A recording that ends with the encoder's end of stream holds every frame
\* read from the microphone, the one that waited for an input buffer at the
\* moment of the stop included.
NothingLost ==
    pc = "dead" /\ ~crashed /\ queue = <<>> /\ inputEos =>
        ~framePending /\ mux.granule = framesIn

\* A voice note is attached to the message finished, its last page flagged and
\* the microphone released, unless the microphone had failed.
AttachedIsFinished ==
    ui = "attached" /\ mic # "failed" =>
        /\ mic = "released"
        /\ mux.pages[Len(mux.pages)].type = "EOS"
        /\ mux.pending = <<>>

\* A stop ends the thread, with whichever kind of buffer the encoder ends the
\* stream, unless the microphone fails.
StopEnds == ui \in {"stopping", "cancelling"} ~> pc = "dead" \/ mic = "failed"

=============================================================================
