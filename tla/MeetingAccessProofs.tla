------------------------- MODULE MeetingAccessProofs -------------------------
(***************************************************************************)
(* The alone timer of MeetingAccess, for all intervals, limits and lags.   *)
(***************************************************************************)
EXTENDS MeetingAccess, TLAPS

LEMMA Times ==
  /\ RetryLimit \in Nat \ {0} /\ MaxGlitches \in Nat /\ Platforms \subseteq AllPlatforms
  /\ PollInterval \in Nat \ {0} /\ LobbyPoll \in Nat \ {0} /\ RoomPoll \in Nat \ {0}
  /\ WarmUp \in Nat /\ Grace \in Nat /\ AdmissionLimit \in Nat /\ LobbyHeadStart \in Nat
  /\ Lags \subseteq Nat
  BY PlatformsAssumption, LimitAssumption, TimesAssumption

(* A look at the page only touches the glitch counter. *)
LEMMA ReadsType ==
  ASSUME glitches \in 0 .. MaxGlitches, NEW seen, Reads(seen)
  PROVE  glitches' \in 0 .. MaxGlitches
  BY Times DEF Reads

(* The clocks after a round that leaves the timer at `since': they stay in *)
(* their ranges, and the timer stays within the other two.                 *)
LEMMA RoundKeepsTimer ==
  ASSUME present \in 0 .. WarmUp + Grace, company \in 0 .. Grace,
         NEW since \in 0 .. Grace \cup {None},
         since # None => /\ present >= UpTo(WarmUp + since, WarmUp + Grace)
                         /\ company >= since
                         /\ page # "company" \/ since = 0,
         EndRound(since)
  PROVE  /\ present' \in 0 .. WarmUp + Grace
         /\ company' \in 0 .. Grace
         /\ aloneFor' \in 0 .. Grace \cup {None}
         /\ present' >= present
         /\ aloneFor' # None => /\ present' >= UpTo(WarmUp + aloneFor', WarmUp + Grace)
                                /\ company' >= aloneFor'
  <1>1. PICK lag \in Lags :
          LET took == PollInterval + lag IN
            /\ present' = UpTo(present + took, WarmUp + Grace)
            /\ aloneFor' = IF since = None THEN None ELSE UpTo(since + took, Grace)
            /\ company' = UpTo((IF page = "company" THEN 0 ELSE company) + took, Grace)
    BY DEF EndRound
  <1>2. lag \in Nat
    BY Times
  <1> QED BY <1>1, <1>2, Times DEF UpTo, None

LEMMA InitClockInv == Init => ClockInv
  BY Times DEF Init, ClockInv, TypeOK, TimerInv, SdkInv, DesertedAfterGrace, Pages, Outcomes, None,
               Sdk!SdkPhases

(* How far the SDK page is fits what it shows, after every step of the bot *)
(* and of the page.                                                        *)
LEMMA SdkStep ==
  ASSUME ClockInv, Next
  PROVE  sdk' \in Sdk!SdkPhases /\ SdkInv'
  <1> USE DEF ClockInv
  <1>1. CASE ClickJoin
    BY <1>1 DEF ClickJoin, AfterClick, Sdk!Starts, TypeOK, SdkInv, Sdk!SdkPhases
  <1>2. CASE AttemptFails \/ JoinCrashes \/ WaitingRoomTimeout
    BY <1>2 DEF AttemptFails, JoinCrashes, WaitingRoomTimeout, TypeOK, SdkInv
  <1>3. CASE LookAtWaitingRoom
    <2>1. UNCHANGED <<platform, sdk>> /\ page' \in {page, "prejoin"}
      BY <1>3 DEF LookAtWaitingRoom
    <2> QED BY <2>1 DEF TypeOK, SdkInv
  <1>4. CASE BeginWaiting \/ LookAtLobby \/ LobbyTimeout \/ CheckEnd \/ CheckAlone
    <2>1. UNCHANGED <<platform, sdk, page>>
      BY <1>4 DEF BeginWaiting, LookAtLobby, LobbyTimeout, CheckEnd, CheckAlone
    <2> QED BY <2>1 DEF TypeOK, SdkInv
  <1>5. CASE Leave
    BY <1>5 DEF Leave, TypeOK, SdkInv
  <1>6. CASE PageChanges
    <2>1. CASE platform = "zoom_sdk" /\ Sdk!SdkNext /\ UNCHANGED platform
      BY <2>1 DEF Sdk!SdkNext, Sdk!SignatureArrives, Sdk!SdkInitialised, Sdk!EntersWaitingRoom,
                  Sdk!JoinSucceeds, Sdk!SignatureRefused, Sdk!InitFails, Sdk!JoinFails,
                  Sdk!Catch, Sdk!Disconnected, Sdk!Redirects, Sdk!Listening, Sdk!SdkPhases, TypeOK, SdkInv
    <2>2. CASE UNCHANGED <<platform, sdk>> /\ (platform # "zoom_sdk" \/ page' = "dead")
      BY <2>2 DEF TypeOK, SdkInv
    <2> QED BY <1>6, <2>1, <2>2 DEF PageChanges
  <1> QED BY <1>1, <1>2, <1>3, <1>4, <1>5, <1>6 DEF Next, Bot

(* The steps of join() do not touch the clocks of the meeting. *)
LEMMA JoinStep ==
  ASSUME ClockInv,
         \/ ClickJoin \/ AttemptFails \/ JoinCrashes
         \/ LookAtWaitingRoom \/ WaitingRoomTimeout \/ Leave \/ PageChanges
  PROVE  ClockInv'
  <1> USE DEF ClockInv
  <1>s. sdk' \in Sdk!SdkPhases /\ SdkInv'
    BY SdkStep DEF Next, Bot
  <1>0. attempt \in 1 .. RetryLimit /\ RetryLimit \in Nat
    BY Times DEF TypeOK
  <1>1. CASE ClickJoin
    <2>1. /\ page' \in Pages
          /\ pc' \in {"waitingRoom", "joined"}
          /\ UNCHANGED <<platform, attempt, present, aloneFor, company, glitches, outcome>>
      BY <1>1 DEF ClickJoin, AfterClick, GoTo, Pages
    <2>2. waited' = 0 /\ outcome = "none"
      BY <1>1 DEF ClickJoin, TimerInv
    <2>3. TypeOK'
      BY <1>s, <2>1, <2>2 DEF TypeOK
    <2> QED BY <1>s, <2>1, <2>2, <2>3 DEF TimerInv, DesertedAfterGrace
  <1>2. CASE AttemptFails
    <2>1. /\ page' \in Pages
          /\ UNCHANGED <<platform, clockVars, glitches>>
      BY <1>2 DEF AttemptFails, Pages
    <2>2. /\ attempt' \in 1 .. RetryLimit
          /\ \/ pc' = "join" /\ outcome' = "none"
             \/ pc' = "done" /\ outcome' = "joinError"
      BY <1>0, <1>2 DEF AttemptFails, TryAgain, GoTo, Return, TimerInv
    <2>3. TypeOK'
      BY <1>s, <2>1, <2>2 DEF clockVars, TypeOK, Outcomes
    <2> QED BY <1>s, <2>1, <2>2, <2>3 DEF clockVars, TimerInv, DesertedAfterGrace
  <1>3. CASE JoinCrashes
    <2>1. /\ pc' = "done" /\ outcome' = "driverError"
          /\ UNCHANGED <<platform, attempt, page, clockVars, glitches>>
      BY <1>3 DEF JoinCrashes, Return
    <2>2. TypeOK'
      BY <1>s, <2>1 DEF clockVars, TypeOK, Outcomes
    <2> QED BY <1>s, <2>1, <2>2 DEF clockVars, TimerInv, DesertedAfterGrace
  <1>4. CASE LookAtWaitingRoom
    <2>1. PICK seen \in Pages \cup {"unreadable"} :
            /\ Reads(seen)
            /\ \/ /\ seen = "lobby"
                  /\ \E lag \in Lags : waited' = waited + RoomPoll + lag
                  /\ UNCHANGED <<pc, attempt, page, outcome>>
               \/ /\ seen \notin {"lobby", "unreadable"}
                  /\ GoTo("joined")
                  /\ UNCHANGED <<attempt, page, waited>>
               \/ /\ seen = "unreadable"
                  /\ \/ TryAgain /\ page' = (IF page = "dead" THEN page ELSE "prejoin")
                     \/ Return("driverError") /\ UNCHANGED <<attempt, page>>
                  /\ UNCHANGED waited
      BY <1>4 DEF LookAtWaitingRoom
    <2>2. glitches' \in 0 .. MaxGlitches
      BY <2>1, ReadsType DEF TypeOK
    <2>3. waited' \in Nat
      BY <2>1, Times DEF TypeOK
    <2>4. /\ attempt' \in 1 .. RetryLimit
          /\ \/ pc' \in {"waitingRoom", "joined", "join"} /\ outcome' = "none"
             \/ pc' = "done" /\ outcome' \in {"joinError", "driverError"}
      BY <1>0, <1>4, <2>1 DEF LookAtWaitingRoom, TryAgain, GoTo, Return, TimerInv
    <2>5. page' \in Pages
      BY <2>1 DEF TypeOK, Pages
    <2>6. UNCHANGED <<platform, present, aloneFor, company>>
      BY <1>4 DEF LookAtWaitingRoom
    <2>7. TypeOK'
      BY <1>s, <2>2, <2>3, <2>4, <2>5, <2>6 DEF TypeOK, Outcomes
    <2> QED BY <1>s, <2>4, <2>6, <2>7 DEF TimerInv, DesertedAfterGrace
  <1>5. CASE WaitingRoomTimeout
    <2>1. /\ pc' = "done" /\ outcome' = "notAdmitted"
          /\ UNCHANGED <<platform, attempt, page, clockVars, glitches>>
      BY <1>5 DEF WaitingRoomTimeout, Return
    <2>2. TypeOK'
      BY <1>s, <2>1 DEF clockVars, TypeOK, Outcomes
    <2> QED BY <1>s, <2>1, <2>2 DEF clockVars, TimerInv, DesertedAfterGrace
  <1>6. CASE Leave
    BY <1>s, <1>6 DEF Leave, GoTo, clockVars, TypeOK, TimerInv, DesertedAfterGrace, Pages
  <1>7. CASE PageChanges
    <2>1. page' \in Pages
      BY <1>7 DEF PageChanges, Follows, TypeOK, Pages, Sdk!SdkNext, Sdk!SignatureArrives,
                  Sdk!SdkInitialised, Sdk!EntersWaitingRoom, Sdk!JoinSucceeds,
                  Sdk!SignatureRefused, Sdk!InitFails, Sdk!JoinFails, Sdk!Catch,
                  Sdk!Disconnected, Sdk!Redirects
    <2> QED BY <1>s, <1>7, <2>1 DEF PageChanges, clockVars, TypeOK, TimerInv, DesertedAfterGrace
  <1> QED BY <1>1, <1>2, <1>3, <1>4, <1>5, <1>6, <1>7

(* The clocks start when wait_until_end does. *)
LEMMA StartStep ==
  ASSUME ClockInv, BeginWaiting \/ LookAtLobby \/ LobbyTimeout
  PROVE  ClockInv'
  <1> USE DEF ClockInv
  <1>s. sdk' \in Sdk!SdkPhases /\ SdkInv'
    BY SdkStep DEF Next, Bot
  <1>1. CASE BeginWaiting
    BY <1>s, <1>1, Times DEF BeginWaiting, StartMeetingClock, GoTo, TypeOK, TimerInv,
                       DesertedAfterGrace, None
  <1>2. CASE LookAtLobby
    <2>1. PICK seen \in Pages \cup {"unreadable"} :
            /\ Reads(seen)
            /\ \/ /\ seen = "lobby"
                  /\ \E lag \in Lags : waited' = waited + LobbyPoll + lag
                  /\ UNCHANGED <<pc, outcome, present, aloneFor, company>>
               \/ /\ seen # "lobby"
                  /\ GoTo("poll")
                  /\ StartMeetingClock
                  /\ UNCHANGED waited
      BY <1>2 DEF LookAtLobby
    <2>2. glitches' \in 0 .. MaxGlitches /\ waited' \in Nat
      BY <2>1, ReadsType, Times DEF TypeOK
    <2> QED
      BY <1>s, <1>2, <2>1, <2>2, Times
      DEF LookAtLobby, StartMeetingClock, GoTo, TypeOK, TimerInv, DesertedAfterGrace, None
  <1>3. CASE LobbyTimeout
    <2>1. /\ pc' = "done" /\ outcome' = "notAdmitted"
          /\ UNCHANGED <<platform, attempt, page, clockVars, glitches>>
      BY <1>3 DEF LobbyTimeout, Return
    <2>2. TypeOK'
      BY <1>s, <2>1 DEF clockVars, TypeOK, Outcomes
    <2> QED BY <1>s, <2>1, <2>2 DEF clockVars, TimerInv, DesertedAfterGrace
  <1> QED BY <1>1, <1>2, <1>3

(* The first half of a round; in the warm-up it is the whole round. *)
LEMMA CheckEndStep == ASSUME ClockInv, CheckEnd PROVE ClockInv'
  <1> USE DEF ClockInv
  <1>s. sdk' \in Sdk!SdkPhases /\ SdkInv'
    BY SdkStep DEF Next, Bot
  <1>1. PICK seen \in Pages \cup {"unreadable"} :
          /\ Reads(seen)
          /\ \/ Return("driverError") /\ UNCHANGED clockVars
             \/ Return("ended") /\ UNCHANGED clockVars
             \/ IF present < WarmUp
                THEN GoTo("poll") /\ EndRound(aloneFor) /\ UNCHANGED waited
                ELSE GoTo("alone") /\ UNCHANGED clockVars
    BY DEF CheckEnd
  <1>2. glitches' \in 0 .. MaxGlitches
    BY <1>1, ReadsType DEF TypeOK
  <1>3. outcome = "none"
    BY DEF CheckEnd, TimerInv
  <1>4. CASE \/ Return("driverError") /\ UNCHANGED clockVars
             \/ Return("ended") /\ UNCHANGED clockVars
    <2>1. /\ pc' = "done" /\ outcome' \in {"driverError", "ended"}
          /\ UNCHANGED <<platform, attempt, page, clockVars>>
      BY <1>4 DEF CheckEnd, Return
    <2>2. TypeOK'
      BY <1>s, <1>2, <2>1 DEF clockVars, TypeOK, Outcomes
    <2> QED BY <1>s, <2>1, <2>2 DEF clockVars, TimerInv, DesertedAfterGrace
  <1>5. CASE present < WarmUp /\ GoTo("poll") /\ EndRound(aloneFor) /\ UNCHANGED waited
    <2>1. aloneFor = None
      BY <1>5, Times DEF TypeOK, TimerInv, UpTo, None
    <2>2. /\ present' \in 0 .. WarmUp + Grace
          /\ company' \in 0 .. Grace
          /\ aloneFor' = None
      <3>1. aloneFor' = None
        BY <1>5, <2>1 DEF EndRound
      <3>2. aloneFor \in 0 .. Grace \cup {None} /\ present \in 0 .. WarmUp + Grace
            /\ company \in 0 .. Grace
        BY DEF TypeOK
      <3> QED BY <1>5, <2>1, <3>1, <3>2, RoundKeepsTimer
    <2>3. outcome # "deserted"
      BY <2>1, Times DEF TypeOK, TimerInv, None
    <2> QED
      BY <1>s, <1>5, <1>2, <2>2, <2>3 DEF CheckEnd, GoTo, TypeOK, TimerInv, DesertedAfterGrace
  <1>6. CASE ~(present < WarmUp) /\ GoTo("alone") /\ UNCHANGED clockVars
    BY <1>s, <1>6, <1>2, Times DEF CheckEnd, GoTo, clockVars, TypeOK, TimerInv, DesertedAfterGrace
  <1> QED BY <1>1, <1>4, <1>5, <1>6

(* The second half: the only step that ends a deserted meeting. *)
LEMMA CheckAloneStep == ASSUME ClockInv, CheckAlone PROVE ClockInv'
  <1> USE DEF ClockInv
  <1>s. sdk' \in Sdk!SdkPhases /\ SdkInv'
    BY SdkStep DEF Next, Bot
  <1>1. PICK seen \in Pages \cup {"unreadable"} :
          /\ Reads(seen)
          /\ IF IsAlone(seen) /\ AloneSince(seen) >= Grace
             THEN /\ Return("deserted")
                  /\ aloneFor' = AloneSince(seen)
                  /\ UNCHANGED <<present, company>>
             ELSE GoTo("poll") /\ EndRound(AloneSince(seen))
    BY DEF CheckAlone
  <1>2. glitches' \in 0 .. MaxGlitches
    BY <1>1, ReadsType DEF TypeOK
  <1>3. /\ present \in 0 .. WarmUp + Grace /\ company \in 0 .. Grace
        /\ aloneFor \in 0 .. Grace \cup {None} /\ present >= WarmUp
    BY DEF TypeOK, TimerInv, CheckAlone
  <1>4. AloneSince(seen) \in 0 .. Grace \cup {None}
    BY <1>3, Times DEF AloneSince
  <1>5. AloneSince(seen) # None =>
          /\ present >= UpTo(WarmUp + AloneSince(seen), WarmUp + Grace)
          /\ company >= AloneSince(seen)
          /\ page # "company"
    BY <1>1, <1>3, Times DEF AloneSince, IsAlone, Reads, TimerInv, UpTo, None
  <1>6. outcome = "none"
    BY DEF CheckAlone, TimerInv
  <1>7. CASE IsAlone(seen) /\ AloneSince(seen) >= Grace
    <2>1. /\ Return("deserted") /\ aloneFor' = AloneSince(seen)
          /\ UNCHANGED <<platform, attempt, page, waited, present, company>>
      BY <1>1, <1>7 DEF CheckAlone
    <2>2. AloneSince(seen) = Grace
      BY <1>4, <1>7, Times DEF None
    <2>3. TypeOK'
      BY <1>s, <1>2, <1>4, <2>1 DEF Return, TypeOK, Outcomes
    <2>4. present = WarmUp + Grace /\ company = Grace /\ AloneSince(seen) # None
      BY <1>3, <1>5, <2>2, Times DEF UpTo, None
    <2> QED
      BY <1>s, <2>1, <2>2, <2>3, <2>4, Times DEF Return, TimerInv, DesertedAfterGrace, UpTo
  <1>8. CASE ~(IsAlone(seen) /\ AloneSince(seen) >= Grace)
    <2>1. /\ GoTo("poll") /\ EndRound(AloneSince(seen))
          /\ UNCHANGED <<platform, attempt, page, waited>>
      BY <1>1, <1>8 DEF CheckAlone
    <2>2. /\ present' \in 0 .. WarmUp + Grace
          /\ company' \in 0 .. Grace
          /\ aloneFor' \in 0 .. Grace \cup {None}
          /\ aloneFor' # None => /\ present' >= UpTo(WarmUp + aloneFor', WarmUp + Grace)
                                 /\ company' >= aloneFor'
      BY <1>3, <1>4, <1>5, <2>1, RoundKeepsTimer
    <2> QED
      BY <1>s, <1>2, <1>6, <2>1, <2>2 DEF GoTo, TypeOK, TimerInv, DesertedAfterGrace
  <1> QED BY <1>7, <1>8

LEMMA ClockStep == ClockInv /\ [Next]_vars => ClockInv'
  <1> SUFFICES ASSUME ClockInv, [Next]_vars PROVE ClockInv'
    OBVIOUS
  <1>1. CASE UNCHANGED vars
    BY <1>1 DEF vars, clockVars, ClockInv, TypeOK, TimerInv, SdkInv, DesertedAfterGrace
  <1>2. CASE Bot
    BY <1>2, JoinStep, StartStep, CheckEndStep, CheckAloneStep DEF Bot
  <1>3. CASE PageChanges
    BY <1>3, JoinStep
  <1> QED BY <1>1, <1>2, <1>3 DEF Next

(* Only the steps of join() come back to it, each with a page of its own,  *)
(* and only those of the meeting touch its clocks.                         *)
LEMMA StartInvStep == ASSUME StartInv, [Next]_vars PROVE StartInv'
  <1> USE DEF StartInv
  <1>1. CASE UNCHANGED vars
    BY <1>1 DEF vars, clockVars
  <1>2. CASE ClickJoin
    BY <1>2 DEF ClickJoin, GoTo
  <1>3. CASE AttemptFails
    BY <1>3 DEF AttemptFails, TryAgain, GoTo, Return, clockVars
  <1>4. CASE JoinCrashes \/ WaitingRoomTimeout \/ LobbyTimeout
    BY <1>4 DEF JoinCrashes, WaitingRoomTimeout, LobbyTimeout, Return
  <1>5. CASE LookAtWaitingRoom
    BY <1>5 DEF LookAtWaitingRoom, TryAgain, GoTo, Return
  <1>6. CASE BeginWaiting
    BY <1>6 DEF BeginWaiting, GoTo
  <1>7. CASE LookAtLobby
    BY <1>7 DEF LookAtLobby, GoTo
  <1>8. CASE CheckEnd \/ CheckAlone
    BY <1>8 DEF CheckEnd, CheckAlone, GoTo, Return
  <1>9. CASE Leave
    BY <1>9 DEF Leave, GoTo
  <1>10. CASE PageChanges
    BY <1>10 DEF PageChanges, clockVars
  <1> QED BY <1>1, <1>2, <1>3, <1>4, <1>5, <1>6, <1>7, <1>8, <1>9, <1>10 DEF Next, Bot

(* For every choice of times, lags and platforms, the timers stay in their *)
(* ranges and the alone timer within the meeting clock and the time        *)
(* without company; no attempt to join finds the page of the last one, and *)
(* no meeting the clocks of another.                                       *)
THEOREM TimerInvariant == Spec => []AInv
  <1>1. Init => AInv
    BY InitClockInv DEF Init, AInv, StartInv
  <1>2. AInv /\ [Next]_vars => AInv'
    BY ClockStep, StartInvStep DEF AInv
  <1> QED BY <1>1, <1>2, PTL DEF Spec

(* The bot never gives up, for being alone, a meeting it has not been in   *)
(* for warm-up and grace period, or one where a round of the grace period  *)
(* met somebody.                                                           *)
THEOREM DesertedOnlyAfterGrace == Spec => []DesertedAfterGrace
  <1>1. AInv => DesertedAfterGrace
    BY DEF AInv, ClockInv
  <1> QED BY <1>1, TimerInvariant, PTL

-----------------------------------------------------------------------------
(* How long it takes to notice. *)

(* A look that does not fail sees what is on the page. *)
LEMMA LookSees ==
  ASSUME glitches \in 0 .. MaxGlitches, page # "dead", NEW seen, Reads(seen),
         glitches' = glitches
  PROVE  seen = page
  BY Times DEF Reads

LEMMA SecondsType == TypeOK => SecondsLeft \in 0 .. WarmUp + Grace + 1
  BY Times DEF TypeOK, SecondsLeft, UpTo, None

LEMMA SecondsTypeNext == TypeOK' => (SecondsLeft \in 0 .. WarmUp + Grace + 1)'
  BY SecondsType, PTL

LEMMA LooksType ==
  ASSUME TypeOK
  PROVE  /\ LooksLeft \in 0 .. 7
         /\ Patience \in 0 .. 2 * (WarmUp + Grace + 1) + 7
  <1>1. LooksLeft \in 0 .. 7
    BY DEF TypeOK, LooksLeft
  <1>2. SecondsLeft \in 0 .. WarmUp + Grace + 1
    BY SecondsType
  <1>3. Patience \in {0, 1, 2 * SecondsLeft + 2, 2 * SecondsLeft + 3, 2 * SecondsLeft + LooksLeft}
    BY DEF TypeOK, Patience
  <1> QED BY <1>1, <1>2, <1>3, Times

(* While the end is on the page every step of the bot is one of the few    *)
(* that are left.                                                          *)
LEMMA EndLooks ==
  ASSUME AInv, Bot, glitches' = glitches, page = "over"
  PROVE  LooksLeft' < LooksLeft
  <1> USE DEF AInv, ClockInv
  <1>0. glitches \in 0 .. MaxGlitches
    BY DEF TypeOK
  <1>1. pc # "join"
    BY DEF StartInv
  <1>2. CASE LookAtWaitingRoom
    <2>1. Reads("over") /\ pc' = "joined"
      BY <1>0, <1>2, LookSees DEF LookAtWaitingRoom, GoTo
    <2> QED BY <1>2, <2>1 DEF LookAtWaitingRoom, LooksLeft
  <1>3. CASE WaitingRoomTimeout \/ LobbyTimeout
    BY <1>3 DEF WaitingRoomTimeout, LobbyTimeout, Return, LooksLeft
  <1>4. CASE BeginWaiting
    BY <1>4 DEF BeginWaiting, GoTo, LooksLeft
  <1>5. CASE LookAtLobby
    <2>1. pc' = "poll"
      BY <1>0, <1>5, LookSees DEF LookAtLobby, GoTo
    <2> QED BY <1>5, <2>1 DEF LookAtLobby, LooksLeft
  <1>6. CASE CheckEnd
    <2>1. pc' = "done"
      BY <1>0, <1>6, LookSees DEF CheckEnd, EndCheckRaises, MeetingHasEnded, Return
    <2> QED BY <1>6, <2>1 DEF CheckEnd, LooksLeft
  <1>7. CASE CheckAlone
    <2>1. pc' = "poll"
      BY <1>0, <1>7, LookSees DEF CheckAlone, IsAlone, GoTo
    <2> QED BY <1>7, <2>1 DEF CheckAlone, LooksLeft
  <1>8. CASE Leave
    BY <1>8 DEF Leave, GoTo, LooksLeft
  <1> QED BY <1>1, <1>2, <1>3, <1>4, <1>5, <1>6, <1>7, <1>8
          DEF Bot, ClickJoin, AttemptFails, JoinCrashes

(* A clock that is not at its limit moves on with every round. *)
LEMMA Forward ==
  ASSUME NEW n \in Nat, NEW limit \in Nat, n < limit, NEW lag \in Lags
  PROVE  /\ UpTo(n + (PollInterval + lag), limit) > n
         /\ UpTo(n + (PollInterval + lag), limit) \in 0 .. limit
  <1>1. lag \in Nat /\ PollInterval \in Nat \ {0}
    BY Times
  <1> QED BY <1>1 DEF UpTo

LEMMA AtLimit ==
  ASSUME NEW n \in Nat, NEW limit \in Nat, n >= limit
  PROVE  limit - UpTo(n, limit) = 0
  BY DEF UpTo

(* A round of the warm-up uses up some of it. *)
LEMMA WarmUpRound ==
  ASSUME TypeOK, present < WarmUp, aloneFor = None, EndRound(aloneFor)
  PROVE  SecondsLeft' < SecondsLeft
  <1>1. PICK lag \in Lags : present' = UpTo(present + (PollInterval + lag), WarmUp + Grace)
    BY DEF EndRound
  <1>2. aloneFor' = None
    BY DEF EndRound
  <1>3. present' > present /\ present' \in Nat
    BY <1>1, Times DEF TypeOK, UpTo
  <1>4. /\ UpTo(present, WarmUp) \in 0 .. WarmUp
        /\ UpTo(present', WarmUp) \in 0 .. WarmUp
        /\ UpTo(present', WarmUp) > UpTo(present, WarmUp)
    BY <1>3, Times DEF TypeOK, UpTo
  <1>5. /\ SecondsLeft = (WarmUp - UpTo(present, WarmUp)) + (Grace + 1)
        /\ SecondsLeft' = (WarmUp - UpTo(present', WarmUp)) + (Grace + 1)
    BY <1>2 DEF SecondsLeft
  <1> QED BY <1>4, <1>5, Times

(* A round of the grace period starts the timer or lets it run. *)
LEMMA GraceRound ==
  ASSUME TypeOK, present >= WarmUp,
         NEW since \in Nat, since = (IF aloneFor = None THEN 0 ELSE aloneFor),
         since < Grace, EndRound(since)
  PROVE  SecondsLeft' < SecondsLeft
  <1>1. PICK lag \in Lags :
          /\ present' = UpTo(present + (PollInterval + lag), WarmUp + Grace)
          /\ aloneFor' = UpTo(since + (PollInterval + lag), Grace)
    BY DEF EndRound, None
  <1>2. aloneFor' > since /\ aloneFor' \in 0 .. Grace
    <2>1. /\ UpTo(since + (PollInterval + lag), Grace) > since
          /\ UpTo(since + (PollInterval + lag), Grace) \in 0 .. Grace
      BY Forward, Times
    <2> QED BY <1>1, <2>1
  <1>3. present' >= WarmUp /\ present' \in Nat
    BY <1>1, Times DEF TypeOK, UpTo
  <1>4. WarmUp - UpTo(present, WarmUp) = 0 /\ WarmUp - UpTo(present', WarmUp) = 0
    <2>1. present \in Nat
      BY Times DEF TypeOK
    <2> QED BY <1>3, <2>1, AtLimit, Times
  <1>5. SecondsLeft = IF aloneFor = None THEN Grace + 1 ELSE Grace - since
    BY <1>4, Times DEF SecondsLeft, TypeOK
  <1>6. SecondsLeft' = Grace - aloneFor'
    BY <1>2, <1>4, Times DEF SecondsLeft, None
  <1> QED BY <1>2, <1>5, <1>6, Times

(* While the page tells that the bot is alone, a look uses up a second of  *)
(* the warm-up or of the grace period, or leads to one that does.          *)
LEMMA AloneLooks ==
  ASSUME AInv, Bot, glitches' = glitches, page = "alone", platform \in AloneDetected
  PROVE  Patience' < Patience
  <1> USE DEF AInv, ClockInv
  <1>0. glitches \in 0 .. MaxGlitches /\ SecondsLeft \in Nat
    BY SecondsType, Times DEF TypeOK
  <1>1. pc # "join"
    BY DEF StartInv
  <1>2. CASE LookAtWaitingRoom
    <2>1. pc' = "joined" /\ pc = "waitingRoom" /\ UNCHANGED <<present, aloneFor>>
      BY <1>0, <1>2, LookSees DEF LookAtWaitingRoom, GoTo
    <2>2. SecondsLeft' = SecondsLeft
      BY <2>1 DEF SecondsLeft
    <2> QED BY <1>0, <2>1, <2>2 DEF Patience, LooksLeft
  <1>3. CASE WaitingRoomTimeout \/ LobbyTimeout
    BY <1>0, <1>3 DEF WaitingRoomTimeout, LobbyTimeout, Return, Patience, LooksLeft
  <1>4. CASE BeginWaiting
    <2>1. /\ pc = "joined" /\ pc' \in {"lobby", "poll"}
          /\ present' = present /\ aloneFor' = aloneFor
      BY <1>4 DEF BeginWaiting, GoTo, StartMeetingClock, StartInv
    <2>2. SecondsLeft' = SecondsLeft
      BY <2>1 DEF SecondsLeft
    <2> QED BY <1>0, <2>1, <2>2 DEF Patience, LooksLeft
  <1>5. CASE LookAtLobby
    <2>1. /\ pc = "lobby" /\ pc' = "poll"
          /\ present' = present /\ aloneFor' = aloneFor
      BY <1>0, <1>5, LookSees DEF LookAtLobby, GoTo, StartMeetingClock, StartInv
    <2>2. SecondsLeft' = SecondsLeft
      BY <2>1 DEF SecondsLeft
    <2> QED BY <1>0, <2>1, <2>2 DEF Patience, LooksLeft
  <1>6. CASE CheckEnd
    <2>1. /\ pc = "poll"
          /\ IF present < WarmUp THEN pc' = "poll" /\ EndRound(aloneFor)
                                 ELSE pc' = "alone" /\ UNCHANGED <<present, aloneFor>>
      BY <1>0, <1>6, LookSees DEF CheckEnd, EndCheckRaises, MeetingHasEnded, GoTo, clockVars
    <2>2. CASE present < WarmUp
      <3>1. aloneFor = None
        BY <2>2, Times DEF TypeOK, TimerInv, UpTo, None
      <3>2. SecondsLeft' < SecondsLeft
        BY <2>1, <2>2, <3>1, WarmUpRound
      <3>3. TypeOK'
        BY ClockStep DEF Next
      <3>4. SecondsLeft' \in Nat
        BY <3>3, SecondsTypeNext, Times
      <3> QED BY <1>0, <2>1, <2>2, <3>2, <3>4 DEF Patience
    <2>3. CASE ~(present < WarmUp)
      <3>1. SecondsLeft' = SecondsLeft
        BY <2>1, <2>3 DEF SecondsLeft
      <3> QED BY <1>0, <2>1, <2>3, <3>1 DEF Patience
    <2> QED BY <2>2, <2>3
  <1>7. CASE CheckAlone
    <2> DEFINE since == IF aloneFor = None THEN 0 ELSE aloneFor
    <2>1. /\ pc = "alone"
          /\ IF since >= Grace THEN pc' = "done" ELSE pc' = "poll" /\ EndRound(since)
      BY <1>0, <1>7, LookSees DEF CheckAlone, IsAlone, AloneSince, Return, GoTo
    <2>2. present >= WarmUp /\ since \in Nat
      BY <2>1, Times DEF TimerInv, TypeOK, None
    <2>3. CASE since >= Grace
      BY <1>0, <2>1, <2>3 DEF Patience
    <2>4. CASE ~(since >= Grace)
      <3>1. SecondsLeft' < SecondsLeft
        <4> HIDE DEF since
        <4>1. since < Grace
          BY <2>2, <2>4, Times
        <4>2. since = (IF aloneFor = None THEN 0 ELSE aloneFor)
          BY DEF since
        <4> QED BY <2>1, <2>2, <2>4, <4>1, <4>2, GraceRound
      <3>2. TypeOK'
        BY ClockStep DEF Next
      <3>3. SecondsLeft' \in Nat
        BY <3>2, SecondsTypeNext, Times
      <3>4. pc' = "poll" /\ pc = "alone"
        BY <2>1, <2>4
      <3> QED BY <1>0, <3>1, <3>3, <3>4 DEF Patience
    <2> QED BY <2>3, <2>4
  <1>8. CASE Leave
    BY <1>8 DEF Leave, GoTo, Patience
  <1> QED BY <1>1, <1>2, <1>3, <1>4, <1>5, <1>6, <1>7, <1>8
          DEF Bot, ClickJoin, AttemptFails, JoinCrashes

(* Once the page shows the end, the bot has left after seven steps in      *)
(* which the driver answers, and a deserted meeting after two for every    *)
(* second of warm-up and grace period and nine more: the counts are within *)
(* these bounds and every such step lowers them.  With weak fairness of    *)
(* the bot this is why EndNoticed and DesertedNoticed hold.                *)
THEOREM LooksAreCounted ==
  Spec => /\ [](LooksLeft \in 0 .. 7 /\ Patience \in 0 .. 2 * (WarmUp + Grace + 1) + 7)
          /\ EveryLookCounts
  <1>1. AInv => LooksLeft \in 0 .. 7 /\ Patience \in 0 .. 2 * (WarmUp + Grace + 1) + 7
    BY LooksType DEF AInv, ClockInv
  <1>2. AInv /\ [Next]_vars => [LookCounts]_vars
    BY EndLooks, AloneLooks DEF LookCounts
  <1>3. EveryLookCounts <=> [][LookCounts]_vars
    BY DEF EveryLookCounts
  <1> QED BY <1>1, <1>2, <1>3, TimerInvariant, PTL DEF Spec
=============================================================================
