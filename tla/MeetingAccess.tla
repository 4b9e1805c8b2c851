---------------------------- MODULE MeetingAccess ----------------------------
(***************************************************************************)
(* One MeetingAccess object of backend/modules/meeting_access.py: join a   *)
(* meeting, wait until it is over or deserted, leave.  The bot only knows  *)
(* what its browser shows when it looks; between two looks the page is     *)
(* changed by the host, by the other participants and by the platform, or  *)
(* is the repository's own page, ZoomSdkPage.                              *)
(*                                                                         *)
(* Times are seconds since the loop they belong to began.  A round of a    *)
(* loop takes its sleep plus the time of the browser calls, one of Lags.   *)
(***************************************************************************)
EXTENDS Integers

CONSTANTS
  Platforms,      \* the kinds of link join() is called with
  RetryLimit,     \* attempts to join
  PollInterval,   \* pause between two rounds of wait_until_end
  WarmUp,         \* min_meeting_duration
  Grace,          \* alone_grace_period
  LobbyPoll,      \* pause between two looks at a Teams lobby
  RoomPoll,       \* pause between two looks at a Zoom waiting room
  AdmissionLimit, \* lobby_timeout and the waiting-room deadline
  LobbyHeadStart, \* the sleep before the first look at a Teams lobby
  Lags,           \* bound: what the browser calls of a round can take
  MaxGlitches     \* bound: transient failures to read the page

AllPlatforms == {"google_meet", "zoom", "zoom_sdk", "teams", "teams_live"}

ASSUME PlatformsAssumption == Platforms \subseteq AllPlatforms
ASSUME LimitAssumption == RetryLimit \in Nat \ {0} /\ MaxGlitches \in Nat
ASSUME TimesAssumption ==
  /\ PollInterval \in Nat \ {0} /\ LobbyPoll \in Nat \ {0} /\ RoomPoll \in Nat \ {0}
  /\ WarmUp \in Nat /\ Grace \in Nat /\ AdmissionLimit \in Nat /\ LobbyHeadStart \in Nat
  /\ Lags \subseteq Nat

VARIABLES
  platform,  \* detected_platform; teams_live is Teams by a teams.live.com link
  pc,        \* the loop the bot is in
  attempt,   \* current_attempt
  page,      \* what the browser shows
  sdk,       \* how far ZoomSdkPage is, on the other platforms "none"
  waited,    \* time spent in the waiting room or lobby loop
  present,   \* elapsed_in_meeting, up to WarmUp + Grace
  aloneFor,  \* now - alone_since up to Grace, or None
  company,   \* history: time since a round met others in the meeting, up to Grace
  glitches,
  outcome    \* how join() or wait_until_end() ended

clockVars == <<waited, present, aloneFor, company>>
vars == <<platform, pc, attempt, page, sdk, clockVars, glitches, outcome>>

Sdk == INSTANCE ZoomSdkPage

-----------------------------------------------------------------------------
None == -1

(* "entering" follows the click on Join; "spotlight" shows one of several  *)
(* participants; "refused" is a page no end detector knows: the host       *)
(* declined, the meeting was cancelled while the bot was in the lobby, the *)
(* SDK page shows its error badge or has been left; "dead" is a browser    *)
(* that is gone.                                                           *)
Pages == {"blank", "prejoin", "entering", "lobby", "company", "spotlight",
          "alone", "refused", "over", "dead", "closed"}

Teams == {"teams", "teams_live"}

(* Platforms on which is_alone_in_meeting looks at the page at all. *)
AloneDetected == {"google_meet", "teams", "teams_live"}

Outcomes == {"none", "ended", "deserted", "joinError", "notAdmitted", "driverError"}

UpTo(n, limit) == IF n > limit THEN limit ELSE n

TypeOK ==
  /\ platform \in Platforms
  /\ pc \in {"join", "waitingRoom", "joined", "lobby", "poll", "alone", "done", "left"}
  /\ attempt \in 1 .. RetryLimit
  /\ page \in Pages
  /\ sdk \in Sdk!SdkPhases
  /\ waited \in Nat
  /\ present \in 0 .. WarmUp + Grace
  /\ aloneFor \in 0 .. Grace \cup {None}
  /\ company \in 0 .. Grace
  /\ glitches \in 0 .. MaxGlitches
  /\ outcome \in Outcomes

Init ==
  /\ platform \in Platforms
  /\ pc = "join"
  /\ attempt = 1
  /\ page = "blank"
  /\ sdk = "none"
  /\ waited = 0
  /\ present = 0
  /\ aloneFor = None
  /\ company = 0
  /\ glitches = 0
  /\ outcome = "none"

-----------------------------------------------------------------------------
Return(o) == /\ pc' = "done"
             /\ outcome' = o

GoTo(to) == /\ pc' = to
            /\ UNCHANGED outcome

(* Looking at the page: what it shows, or an exception of the driver. *)
Reads(seen) ==
  \/ page # "dead" /\ seen = page /\ UNCHANGED glitches
  \/ page = "dead" /\ seen = "unreadable" /\ UNCHANGED glitches
  \/ /\ page # "dead" /\ glitches < MaxGlitches
     /\ seen = "unreadable"
     /\ glitches' = glitches + 1

-----------------------------------------------------------------------------
(* join *)

(* The Join button is clicked.  On Zoom and teams.live.com a missing       *)
(* button ends in a script that clicks whatever it finds, perhaps nothing. *)
AfterClick == IF platform \in {"zoom", "teams_live"} THEN {"entering", "prejoin"}
                                                     ELSE {"entering"}

ClickJoin ==
  /\ pc = "join"
  /\ page' \in AfterClick
  /\ GoTo(IF platform = "zoom" THEN "waitingRoom" ELSE "joined")
  /\ IF platform = "zoom_sdk" THEN Sdk!Starts ELSE UNCHANGED sdk
  /\ waited' = 0
  /\ UNCHANGED <<platform, attempt, present, aloneFor, company, glitches>>

(* The next attempt loads the link anew; after the last, MeetingJoinError. *)
TryAgain ==
  IF attempt < RetryLimit THEN attempt' = attempt + 1 /\ GoTo("join")
                          ELSE Return("joinError") /\ UNCHANGED attempt

(* TimeoutException or NoSuchElementException: the attempt has failed.     *)
(* The SDK page is loaded without a retry loop.                            *)
AttemptFails ==
  /\ pc = "join"
  /\ platform # "zoom_sdk"
  /\ page' = "prejoin"
  /\ TryAgain
  /\ UNCHANGED <<platform, sdk, clockVars, glitches>>

(* Every other exception of the driver leaves join() at once. *)
JoinCrashes ==
  /\ pc = "join"
  /\ Return("driverError")
  /\ UNCHANGED <<platform, sdk, attempt, page, clockVars, glitches>>

(* handle_waiting_room: one look.  The waiting room is looked at again,    *)
(* any other page means that the bot has joined; an exception of the       *)
(* driver is a failed attempt or the end of join().                        *)
LookAtWaitingRoom ==
  /\ pc = "waitingRoom"
  /\ waited < AdmissionLimit
  /\ \E seen \in Pages \cup {"unreadable"} :
       /\ Reads(seen)
       /\ \/ /\ seen = "lobby"
             /\ \E lag \in Lags : waited' = waited + RoomPoll + lag
             /\ UNCHANGED <<pc, attempt, page, outcome>>
          \/ /\ seen \notin {"lobby", "unreadable"}
             /\ GoTo("joined")
             /\ UNCHANGED <<attempt, page, waited>>
          \/ /\ seen = "unreadable"
             /\ \/ TryAgain /\ page' = (IF page = "dead" THEN page ELSE "prejoin")
                \/ Return("driverError") /\ UNCHANGED <<attempt, page>>
             /\ UNCHANGED waited
  /\ UNCHANGED <<platform, sdk, present, aloneFor, company>>

(* WaitingRoomTimeout; join() does not retry it. *)
WaitingRoomTimeout ==
  /\ pc = "waitingRoom"
  /\ waited >= AdmissionLimit
  /\ Return("notAdmitted")
  /\ UNCHANGED <<platform, sdk, attempt, page, clockVars, glitches>>

-----------------------------------------------------------------------------
(* wait_until_end *)

StartMeetingClock == /\ present' = 0
                     /\ aloneFor' = None
                     /\ company' = 0

(* The orchestrator has started the recording and calls wait_until_end. *)
BeginWaiting ==
  /\ pc = "joined"
  /\ IF platform \in Teams
     THEN /\ GoTo("lobby")
          /\ waited' = LobbyHeadStart
          /\ UNCHANGED <<present, aloneFor, company>>
     ELSE /\ GoTo("poll")
          /\ StartMeetingClock
          /\ UNCHANGED waited
  /\ UNCHANGED <<platform, sdk, attempt, page, glitches>>

(* wait_for_teams_lobby: one look.  Whatever is not the lobby ends the     *)
(* loop, an exception of the driver included.                              *)
LookAtLobby ==
  /\ pc = "lobby"
  /\ waited < AdmissionLimit
  /\ \E seen \in Pages \cup {"unreadable"} :
       /\ Reads(seen)
       /\ \/ /\ seen = "lobby"
             /\ \E lag \in Lags : waited' = waited + LobbyPoll + lag
             /\ UNCHANGED <<pc, outcome, present, aloneFor, company>>
          \/ /\ seen # "lobby"
             /\ GoTo("poll")
             /\ StartMeetingClock
             /\ UNCHANGED waited
  /\ UNCHANGED <<platform, sdk, attempt, page>>

(* The loop's else: TimeoutException, while OBS is recording. *)
LobbyTimeout ==
  /\ pc = "lobby"
  /\ waited >= AdmissionLimit
  /\ Return("notAdmitted")
  /\ UNCHANGED <<platform, sdk, attempt, page, clockVars, glitches>>

(* The sleep that ends a round of the loop, which leaves alone_since at    *)
(* `since' ago.                                                            *)
EndRound(since) ==
  \E lag \in Lags :
    LET took == PollInterval + lag IN
    /\ present' = UpTo(present + took, WarmUp + Grace)
    /\ aloneFor' = IF since = None THEN None ELSE UpTo(since + took, Grace)
    /\ company' = UpTo((IF page = "company" THEN 0 ELSE company) + took, Grace)

(* Mutant: the end signs of the SDK page are not known. *)
MeetingHasEnded_NoSdk(seen) == seen = "over" /\ platform # "zoom_sdk"

(* meeting_has_ended *)
MeetingHasEnded(seen) == seen = "over"

(* Where an unreadable page is an exception that ends the wait; the other  *)
(* platforms take it for a meeting that goes on.                           *)
EndCheckRaises(seen) == seen = "unreadable" /\ platform \in {"google_meet", "zoom"}

(* The first half of a round: has the meeting ended?  During the warm-up   *)
(* the other half is skipped.                                              *)
CheckEnd ==
  /\ pc = "poll"
  /\ \E seen \in Pages \cup {"unreadable"} :
       /\ Reads(seen)
       /\ \/ /\ EndCheckRaises(seen)
             /\ Return("driverError") /\ UNCHANGED clockVars
          \/ /\ MeetingHasEnded(seen)
             /\ Return("ended") /\ UNCHANGED clockVars
          \/ /\ ~EndCheckRaises(seen) /\ ~MeetingHasEnded(seen)
             /\ IF present < WarmUp
                THEN GoTo("poll") /\ EndRound(aloneFor) /\ UNCHANGED waited
                ELSE GoTo("alone") /\ UNCHANGED clockVars
  /\ UNCHANGED <<platform, sdk, attempt, page>>

(* is_alone_in_meeting: a banner, or a single visible tile, which a        *)
(* spotlighted speaker also is.  An unreadable page counts as company.     *)
IsAlone(seen) == platform \in AloneDetected /\ seen \in {"alone", "spotlight"}

(* Mutant: a participant who comes back does not reset the timer. *)
AloneSince_NoReset(seen) == IF aloneFor # None THEN aloneFor
                            ELSE IF IsAlone(seen) THEN 0 ELSE None

(* Mutant: the timer starts anew in every round. *)
AloneSince_Restart(seen) == IF IsAlone(seen) THEN 0 ELSE None

(* alone_since after a look, as the time since then. *)
AloneSince(seen) == IF ~IsAlone(seen) THEN None
                    ELSE IF aloneFor = None THEN 0 ELSE aloneFor

(* The second half: alone for the grace period means the meeting is over.  *)
CheckAlone ==
  /\ pc = "alone"
  /\ \E seen \in Pages \cup {"unreadable"} :
       /\ Reads(seen)
       /\ IF IsAlone(seen) /\ AloneSince(seen) >= Grace
          THEN /\ Return("deserted")
               /\ aloneFor' = AloneSince(seen)
               /\ UNCHANGED <<present, company>>
          ELSE GoTo("poll") /\ EndRound(AloneSince(seen))
  /\ UNCHANGED <<platform, sdk, attempt, page, waited>>

-----------------------------------------------------------------------------
(* leave(): errors of the click and of driver.quit() are logged. *)
Leave ==
  /\ pc = "done"
  /\ outcome \in {"ended", "deserted"}
  /\ GoTo("left")
  /\ page' \in {"closed", page}
  /\ UNCHANGED <<platform, sdk, attempt, clockVars, glitches>>

(* What the platform shows next, and a browser that dies. *)
Follows(p) == CASE p = "entering"  -> {"lobby", "company", "alone", "refused", "over"}
                [] p = "lobby"     -> {"company", "alone", "refused", "over"}
                [] p = "company"   -> {"spotlight", "alone", "over"}
                [] p = "spotlight" -> {"company", "alone", "over"}
                [] p = "alone"     -> {"company", "over"}
                [] OTHER           -> {}

PageChanges ==
  /\ pc \notin {"join", "done", "left"}
  /\ page # "dead"
  /\ \/ platform = "zoom_sdk" /\ Sdk!SdkNext
     \/ platform # "zoom_sdk" /\ page' \in Follows(page) /\ UNCHANGED sdk
     \/ page' = "dead" /\ UNCHANGED sdk
  /\ UNCHANGED <<platform, pc, attempt, clockVars, glitches, outcome>>

Bot == \/ ClickJoin \/ AttemptFails \/ JoinCrashes
       \/ LookAtWaitingRoom \/ WaitingRoomTimeout
       \/ BeginWaiting \/ LookAtLobby \/ LobbyTimeout
       \/ CheckEnd \/ CheckAlone \/ Leave

Next == Bot \/ PageChanges

Spec == Init /\ [][Next]_vars

(* The bot runs in a thread of its own; every sleep and browser call ends. *)
FairSpec == Spec /\ WF_vars(Bot)

-----------------------------------------------------------------------------
(* Safety *)

(* The bot gives a meeting up for being alone only after the warm-up and   *)
(* the grace period, and only if no round of the last grace period met     *)
(* somebody else: who comes back and stays for a round is never left, and  *)
(* a page that could not be read never counts as being alone.              *)
DesertedAfterGrace ==
  outcome = "deserted" => present = WarmUp + Grace /\ company = Grace

(* The alone timer against the meeting clock and the company really met:   *)
(* with it the property above is inductive.                                *)
TimerInv ==
  /\ aloneFor # None => present >= UpTo(WarmUp + aloneFor, WarmUp + Grace)
                        /\ company >= aloneFor
  /\ pc = "alone" => present >= WarmUp
  /\ pc \notin {"done", "left"} => outcome = "none"
  /\ outcome = "deserted" => aloneFor = Grace

(* The SDK page runs only where it is used, and shows the end of a meeting *)
(* only once it has asked Zoom to join one.                                *)
SdkInv ==
  /\ platform # "zoom_sdk" => sdk = "none"
  /\ platform = "zoom_sdk" /\ page = "over" => sdk \in {"joining", "settled"}

ClockInv == TypeOK /\ TimerInv /\ SdkInv /\ DesertedAfterGrace

(* An attempt to join starts on a page of its own, and the clocks of the   *)
(* meeting are at their start until the bot is in it.                      *)
StartInv ==
  /\ pc = "join" => page \in {"blank", "prejoin", "dead"}
  /\ pc \in {"join", "waitingRoom", "joined", "lobby"} => present = 0 /\ aloneFor = None

(* The inductive invariant. *)
AInv == ClockInv /\ StartInv

-----------------------------------------------------------------------------
(* How long it takes to notice.                                            *)

(* The looks at a page that shows the end, until the bot has left. *)
LooksLeft ==
  CASE pc = "join" -> 7   [] pc = "waitingRoom" -> 6 [] pc = "joined" -> 5 [] pc = "lobby" -> 4
    [] pc = "alone" -> 3  [] pc = "poll" -> 2        [] pc = "done" -> 1   [] pc = "left" -> 0

(* The seconds of warm-up and grace that are still to pass, two looks for  *)
(* each at most, and the looks before the meeting.                         *)
SecondsLeft == (WarmUp - UpTo(present, WarmUp))
               + (IF aloneFor = None THEN Grace + 1 ELSE Grace - aloneFor)

Patience ==
  CASE pc = "left" -> 0
    [] pc = "done" -> 1
    [] pc = "alone" -> 2 * SecondsLeft + 2
    [] pc = "poll" -> 2 * SecondsLeft + 3
    [] OTHER -> 2 * SecondsLeft + LooksLeft

LookCounts ==
  Bot /\ glitches' = glitches =>
    /\ page = "over" => LooksLeft' < LooksLeft
    /\ page = "alone" /\ platform \in AloneDetected => Patience' < Patience

(* Every look that can read the page brings the bot closer to leaving a    *)
(* meeting that is over, or deserted: no waiting room, lobby, warm-up or   *)
(* timer is started anew by such a look.                                   *)
EveryLookCounts == [][LookCounts]_vars

-----------------------------------------------------------------------------
(* Liveness, under FairSpec *)

Ended == pc \in {"done", "left"}

(* On every platform, also in the Teams lobby, wait_until_end notices the  *)
(* end of the meeting if the page goes on showing it.                      *)
EndNoticed == ~<>[](page = "over" /\ ~Ended)

(* Where the page tells that the bot is alone, a meeting that stays        *)
(* deserted is left, whatever was on the page before.                      *)
DesertedNoticed ==
  ~<>[](platform \in AloneDetected /\ page = "alone" /\ ~Ended)

-----------------------------------------------------------------------------
(* What the documentation says and the code does not do. *)

(* SPEC-01: "Host did not admit within 5 minutes" is an error, on any      *)
(* platform: the bot does not wait in a lobby for ever.                    *)
AdmissionBounded == ~<>[](page = "lobby" /\ ~Ended)
=============================================================================
