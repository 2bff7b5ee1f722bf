-------------------------- MODULE MCVoiceRecorder --------------------------
(* VoiceRecorder for TLC: recordings of at most five frames with an encoder
   of three input buffers; a page is written at three units. *)
EXTENDS VoiceRecorder

=============================================================================
