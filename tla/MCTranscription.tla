--------------------------- MODULE MCTranscription ---------------------------
(* Transcription for TLC: every provider and size, with the code's three   *)
(* attempts, and with more, so that the fallback order could cycle.        *)
EXTENDS Transcription
=============================================================================
