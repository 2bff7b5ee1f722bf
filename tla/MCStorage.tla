------------------------------ MODULE MCStorage ------------------------------
(* Storage for TLC: one message that may have a voice note and an attachment, and a second
   attachment to replace the first one. *)
EXTENDS Storage

CONSTANTS m1, voice, doc1, doc2

MCMsgs == {m1}
MCFiles == {voice, doc1, doc2}
MCVoice == {voice}

=============================================================================
