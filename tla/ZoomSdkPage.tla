----------------------------- MODULE ZoomSdkPage -----------------------------
(***************************************************************************)
(* frontend/src/app/zoom-meeting/page.tsx: the page that joins a Zoom      *)
(* meeting through the Meeting SDK while the bot of MeetingAccess only     *)
(* looks at its badge.  One asynchronous function fetches a signature,     *)
(* initialises the SDK and joins; a listener, registered before the join,  *)
(* sets the badge too.  Both write the same React state, so the badge is   *)
(* the one that was written last.                                          *)
(***************************************************************************)
VARIABLES
  page,  \* what the browser shows, in the words of MeetingAccess
  sdk    \* the promise the function awaits, "failed" or "settled" after its end

SdkPhases == {"none", "fetching_token", "initialising_sdk", "joining", "failed", "settled"}

(* inMeetingServiceListener has been called. *)
Listening == sdk \in {"joining", "settled"}

(* The effect runs once: hasJoined keeps Strict Mode and a changed query   *)
(* from starting the function again.                                       *)
Starts == sdk' = "fetching_token"

(* POST /zoom/signature has answered. *)
SignatureArrives ==
  /\ sdk = "fetching_token"
  /\ sdk' = "initialising_sdk"
  /\ UNCHANGED page

(* ZoomMtg.init calls success; the listener is registered. *)
SdkInitialised ==
  /\ sdk = "initialising_sdk"
  /\ sdk' = "joining"
  /\ UNCHANGED page

(* ZoomMtg.join shows Zoom's waiting room. *)
EntersWaitingRoom ==
  /\ sdk = "joining"
  /\ page = "entering"
  /\ page' = "lobby"
  /\ UNCHANGED sdk

(* join calls success: setStatus("in_meeting"), whatever the badge says. *)
JoinSucceeds ==
  /\ sdk = "joining"
  /\ sdk' = "settled"
  /\ page' = "company"

(* The catch block: setStatus("error"), a page no end detector knows. *)
Catch(phase) == page' = "refused" /\ sdk' = phase

(* The link is no Zoom link, the route has no credentials, or does not     *)
(* answer.                                                                 *)
SignatureRefused == sdk = "fetching_token" /\ Catch("failed")

InitFails == sdk = "initialising_sdk" /\ Catch("failed")

(* join calls error; the listener stays. *)
JoinFails == sdk = "joining" /\ Catch("settled")

(* onMeetingStatus 3: setStatus("meeting_ended"). *)
Disconnected ==
  /\ Listening
  /\ page' = "over"
  /\ UNCHANGED sdk

(* The SDK goes to its leaveUrl, where no badge is. *)
Redirects ==
  /\ page = "over"
  /\ page' = "refused"
  /\ sdk' = "none"

SdkNext == \/ SignatureArrives \/ SignatureRefused \/ SdkInitialised \/ InitFails
           \/ EntersWaitingRoom \/ JoinSucceeds \/ JoinFails
           \/ Disconnected \/ Redirects
=============================================================================
