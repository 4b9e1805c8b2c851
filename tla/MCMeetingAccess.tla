--------------------------- MODULE MCMeetingAccess ---------------------------
(* MeetingAccess for TLC; the .cfg files give the times, in seconds. *)
EXTENDS MeetingAccess
=============================================================================
