------------------------------ MODULE Dashboard ------------------------------
(***************************************************************************)
(* The dashboard page and the server together: StatusPanel over the rows   *)
(* that the pipelines of module Pipeline write.  The two share the status  *)
(* and the report columns; a meeting the user starts is a pipeline, and    *)
(* the page gets its id when POST /trigger has handed the pipeline to a    *)
(* background task.                                                        *)
(***************************************************************************)
EXTENDS Pipeline

CONSTANTS
  NoMeeting,      \* sessionId is null
  MaxReadErrors   \* bound: database errors of GET /status

VARIABLES open, launching, started, session, polling, fetching, requests, shown, error,
          notified, readErrors

Panel == INSTANCE StatusPanel WITH Meetings <- Sessions

(* What StatusPanel assumes of its constants. *)
PanelConstants == NoMeeting \notin Sessions /\ MaxReadErrors \in Nat

(* The state of the server that the page does not see, and the page. *)
serverVars == <<pc, err, message, troubled, browser, obsVars, mailVars, envVars>>
pageVars == <<open, launching, started, session, polling, fetching, requests, shown, error,
              notified, readErrors>>
dashboardVars == <<vars, pageVars>>

DashboardInit == Init /\ Panel!Init

(* A pipeline, OBS or the process moves; meetings of other users are       *)
(* triggered without this page.                                            *)
ServerMoves == Next /\ UNCHANGED pageVars

(* The id of a meeting is made up for it: nobody else has triggered it. *)
SubmitNew == \E s \in Sessions : Panel!Submit(s) /\ pc[s] = "idle"

(* The answer of POST /trigger has the id of a pipeline that was accepted. *)
AcceptedByServer == Panel!Accepted /\ pc[launching] # "idle"

PageMoves ==
  /\ \/ SubmitNew \/ AcceptedByServer
     \/ Panel!Rejected \/ Panel!Tick \/ Panel!Answer \/ Panel!Leave
  /\ UNCHANGED serverVars

DashboardNext == ServerMoves \/ PageMoves

DashboardSpec == DashboardInit /\ [][DashboardNext]_dashboardVars

-----------------------------------------------------------------------------
(* The server does to the rows only what the panel is prepared for. *)
ServesPanel == Panel!Spec

(* What the page tells the user is true of the host, from the click to the *)
(* redirect: the meeting that is polled was accepted; whoever is told that *)
(* a meeting is over is told after its last stage, when nothing but the    *)
(* mails or the report of an error can follow; a meeting shown as          *)
(* COMPLETED has its report, made from a recording on which it is heard,   *)
(* and has given the recorder back; for one shown as FAILED nothing runs.  *)
ToldTheTruth ==
  /\ session # NoMeeting => pc[session] # "idle"
  /\ \A s \in Sessions :
       /\ notified[s] > 0 => pc[s] \in {"send", "setCompleted", "handle", "done", "lost"}
       /\ shown.meeting = s /\ shown.status = "completed"
            => report[s] /\ s \in audio[s] /\ recorder # s
       /\ shown.meeting = s /\ shown.status = "failed" => pc[s] = "done"
=============================================================================
