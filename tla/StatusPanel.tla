----------------------------- MODULE StatusPanel -----------------------------
(***************************************************************************)
(* The StatusPanel component of frontend/src/components/dashboard on the   *)
(* dashboard page: it polls GET /status of the meeting started last, every *)
(* three seconds, until the meeting is over.  The rows it reads move as    *)
(* MeetingLifecycle says, which module Pipeline implements.                *)
(*                                                                         *)
(* A poll is three steps: the browser sends the request, the server reads  *)
(* the row, the answer arrives.  Rows move, and the user starts another    *)
(* meeting or leaves the page, in between.  Starting a meeting is a        *)
(* request too, and the previous meeting is polled until it is answered.   *)
(***************************************************************************)
EXTENDS MeetingLifecycle

CONSTANTS
  NoMeeting,      \* sessionId is null
  MaxReadErrors   \* bound: database errors of GET /status

ASSUME NoMeetingAssumption == NoMeeting \notin Meetings
ASSUME ReadErrorsAssumption == MaxReadErrors \in Nat

VARIABLES
  open,        \* the dashboard page is shown
  launching,   \* isLoading: the meeting whose /trigger is under way
  started,     \* the meetings the user has sent from it
  session,     \* sessionId: the one started last
  polling,     \* the interval of the panel's current effect is set
  fetching,    \* isFetchingRef, one for all effects of the panel
  requests,    \* requests to GET /status under way
  shown,       \* the status last set, with the meeting it was read for
  error,       \* the meeting whose request failed last; the panel shows an error
  notified,    \* history: how often onComplete was called for a meeting, up to 2
  readErrors

panelVars == <<open, launching, started, session, polling, shown, error, notified>>
vars == <<status, report, panelVars, fetching, requests, readErrors>>

-----------------------------------------------------------------------------
(* "absent" is answered for a meeting without a row and when the row could *)
(* not be read: status "pending", step 0.                                  *)
Answers == Statuses \cup {"unread"}

Requests == [meeting : Meetings, answer : Answers]

TypeOK ==
  /\ LifecycleTypeOK
  /\ open \in BOOLEAN
  /\ launching \in started \cup {NoMeeting}
  /\ started \in SUBSET Meetings
  /\ session \in started \cup {NoMeeting}
  /\ polling \in BOOLEAN
  /\ fetching \in BOOLEAN
  /\ requests \in SUBSET Requests
  /\ shown \in [meeting : Meetings \cup {NoMeeting}, status : Statuses]
  /\ error \in Meetings \cup {NoMeeting}
  /\ notified \in [Meetings -> 0 .. 2]
  /\ readErrors \in 0 .. MaxReadErrors

Init ==
  /\ LifecycleInit
  /\ open = TRUE
  /\ launching = NoMeeting
  /\ started = {}
  /\ session = NoMeeting
  /\ polling = FALSE
  /\ fetching = FALSE
  /\ requests = {}
  /\ shown = [meeting |-> NoMeeting, status |-> "absent"]
  /\ error = NoMeeting
  /\ notified = [m \in Meetings |-> 0]
  /\ readErrors = 0

-----------------------------------------------------------------------------
(* Mutant: no isFetchingRef, polls overlap. *)
FetchStatus_Overlapping(m) ==
  /\ fetching' = TRUE
  /\ requests' = requests \cup {[meeting |-> m, answer |-> "unread"]}

(* fetchStatus up to its await: nothing while a request is under way, also *)
(* one of an earlier meeting.                                              *)
FetchStatus(m) ==
  IF fetching
  THEN UNCHANGED <<fetching, requests>>
  ELSE /\ fetching' = TRUE
       /\ requests' = requests \cup {[meeting |-> m, answer |-> "unread"]}

(* handleSubmit of the form and handleJoinMeeting up to its await: the     *)
(* button is disabled while a request to start a meeting is under way.     *)
Submit(m) ==
  /\ open /\ launching = NoMeeting
  /\ m \notin started
  /\ started' = started \cup {m}
  /\ launching' = m
  /\ UNCHANGED <<status, report, open, session, polling, shown, error, notified, fetching,
                 requests, readErrors>>

(* The session id of the new meeting arrives: the effect of the previous   *)
(* one is cleaned up, its status and error stay.  The row may have moved   *)
(* on since the server answered.                                           *)
Accepted ==
  /\ launching # NoMeeting
  /\ launching' = NoMeeting
  /\ IF open
     THEN session' = launching /\ FetchStatus(launching) /\ polling' = TRUE
     ELSE UNCHANGED <<session, polling, fetching, requests>>
  /\ UNCHANGED <<status, report, open, started, shown, error, notified, readErrors>>

(* It is refused, or its answer is lost and the meeting runs unwatched.    *)
Rejected ==
  /\ launching # NoMeeting
  /\ launching' = NoMeeting
  /\ UNCHANGED <<status, report, open, started, session, polling, shown, error, notified,
                 fetching, requests, readErrors>>

(* The interval fires. *)
Tick ==
  /\ polling
  /\ FetchStatus(session)
  /\ UNCHANGED <<status, report, panelVars, readErrors>>

(* get_status reads the row; an error of the database is answered like a   *)
(* meeting without a row.                                                  *)
ServerReads(r) ==
  /\ r.answer = "unread"
  /\ \/ /\ requests' = (requests \ {r}) \cup {[r EXCEPT !.answer = status[r.meeting]]}
        /\ UNCHANGED readErrors
     \/ /\ readErrors < MaxReadErrors
        /\ requests' = (requests \ {r}) \cup {[r EXCEPT !.answer = "absent"]}
        /\ readErrors' = readErrors + 1
  /\ UNCHANGED <<status, report, panelVars, fetching>>

(* Mutant: an answer is not compared with the meeting on the screen. *)
Current_Any(r) == open

(* isMounted of the effect that sent the request. *)
Current(r) == open /\ r.meeting = session

(* Mutant: the panel takes the last stage for the end. *)
Over_Delivering(st) == st \in Terminal \cup {"delivering"}

(* The statuses on which the panel stops polling. *)
Over(st) == st \in Terminal

(* Mutant: the interval is not cleared. *)
StopPolling_Never(stop) == UNCHANGED polling

(* clearInterval *)
StopPolling(stop) == polling' = (polling /\ ~stop)

(* Mutant: the flag is only reset on the error path. *)
Settle_FlagStays(r) ==
  /\ requests' = requests \ {r}
  /\ UNCHANGED fetching

(* The finally block. *)
Settle(r) ==
  /\ requests' = requests \ {r}
  /\ fetching' = FALSE

(* The answer arrives: it is shown if its effect is still mounted, and the *)
(* end of the meeting, good or bad, is reported by onComplete.             *)
ReplyArrives(r) ==
  /\ r.answer # "unread"
  /\ Settle(r)
  /\ LET over == Current(r) /\ Over(r.answer) IN
       /\ shown' = IF Current(r) THEN [meeting |-> r.meeting, status |-> r.answer]
                    ELSE shown
       /\ StopPolling(over)
       /\ notified' = IF over /\ notified[r.meeting] < 2
                      THEN [notified EXCEPT ![r.meeting] = @ + 1] ELSE notified
  /\ UNCHANGED <<status, report, open, launching, started, session, error, readErrors>>

(* The request fails in the network: an error is shown and the interval    *)
(* cleared if its effect is still mounted.                                 *)
RequestFails(r) ==
  /\ Settle(r)
  /\ error' = IF Current(r) THEN r.meeting ELSE error
  /\ polling' = (polling /\ ~Current(r))
  /\ UNCHANGED <<status, report, open, launching, started, session, shown, notified,
                 readErrors>>

(* The user leaves the page, or the timer set by handlePipelineComplete    *)
(* does, whatever meeting is on the panel by then.                         *)
Leave ==
  /\ open
  /\ open' = FALSE
  /\ polling' = FALSE
  /\ UNCHANGED <<status, report, launching, started, session, shown, error, notified,
                 fetching, requests, readErrors>>

(* The rows move without the panel. *)
RowMoves ==
  /\ LifecycleNext
  /\ UNCHANGED <<panelVars, fetching, requests, readErrors>>

Answer == \E r \in requests : ServerReads(r) \/ ReplyArrives(r) \/ RequestFails(r)

Next == \/ \E m \in Meetings : Submit(m)
        \/ Accepted \/ Rejected \/ Tick \/ Answer \/ Leave \/ RowMoves

Spec == Init /\ [][Next]_vars

(* The interval fires again and again, and every request is answered or    *)
(* fails: the server and the browser's network layer have time limits.     *)
FairSpec == Spec /\ WF_vars(Tick) /\ WF_vars(Answer)

-----------------------------------------------------------------------------
(* Safety *)

(* onComplete, with its toast and redirect, is called at most once for a   *)
(* meeting, whatever polls are under way when the interval is cleared, and *)
(* only for one that is over, at the time of the call and ever after,      *)
(* although the row is read before.                                        *)
NotifiedOnceAtEnd ==
  \A m \in Meetings : /\ notified[m] <= 1
                      /\ notified[m] > 0 => status[m] \in Terminal

(* An answer for an earlier meeting, or after the page was left, replaces  *)
(* nothing, and the progress of a meeting never goes back on the screen,   *)
(* except to "pending" when the row could not be read: answers do not      *)
(* overtake each other.                                                    *)
ScreenKeepsUp ==
  [][shown' # shown =>
       /\ open /\ shown'.meeting = session
       /\ shown'.meeting = shown.meeting /\ shown'.status # "absent"
            => StatusStep[shown.status] <= StatusStep[shown'.status]]_vars

(* An end that was read of a row: the report is there, or the failure is   *)
(* final.                                                                  *)
Backed(st, m) == /\ st = "completed" => report[m]
                 /\ st = "failed" => status[m] = "failed"

(* What the panel says of the end of a meeting can be relied on, however   *)
(* old the answer is: with "completed" on the screen the report is there   *)
(* to be opened, and "failed" is never taken back.                         *)
EndsAreBacked == shown.meeting # NoMeeting => Backed(shown.status, shown.meeting)

(* With the answers under way, and what the rows promise, it is inductive. *)
BackedInv == /\ ReportUnderEnd
             /\ \A r \in requests : Backed(r.answer, r.meeting)
             /\ EndsAreBacked

(* What was read of a row is behind the row. *)
Behind(st, m) == StatusStep[st] <= StatusStep[status[m]]

(* The requests under way, against the flag, the screen and the rows.      *)
PollInv ==
  /\ ~fetching => requests = {}
  /\ \A r, q \in requests : r = q
  /\ polling => open /\ session # NoMeeting /\ notified[session] = 0
  /\ \A r \in requests :
       /\ r.meeting \in started
       /\ Current(r) => notified[r.meeting] = 0
       /\ r.answer # "unread" =>
            /\ Behind(r.answer, r.meeting)
            /\ r.meeting = shown.meeting /\ r.answer # "absent"
                 => StatusStep[shown.status] <= StatusStep[r.answer]
  /\ \A m \in Meetings \ started : notified[m] = 0
  /\ launching # NoMeeting => /\ launching # session
                              /\ notified[launching] = 0
                              /\ \A r \in requests : r.meeting # launching
  /\ shown.meeting # NoMeeting =>
       shown.meeting \in started /\ Behind(shown.status, shown.meeting)

PollsInv == TypeOK /\ PollInv /\ NotifiedOnceAtEnd

(* The inductive invariant. *)
PInv == PollsInv /\ BackedInv

-----------------------------------------------------------------------------
(* Liveness, under FairSpec *)

(* The end of the meeting on the screen is reported, unless the page is    *)
(* left, another meeting started or a request fails.                       *)
EndReported ==
  \A m \in Meetings :
    open /\ session = m /\ status[m] \in Terminal
      ~> notified[m] = 1 \/ ~open \/ session # m \/ error = m
=============================================================================
