-------------------------- MODULE MeetingLifecycle --------------------------
(***************************************************************************)
(* What the rest of the product may rely on about the row of a meeting:    *)
(* the status column moves through the stages of MeetingStatus in order,   *)
(* the report fields are filled in the very commit that first says         *)
(* "completed" and are never taken away, and a meeting can turn "failed"   *)
(* from every stage, "completed" included (a delivery error after the      *)
(* report was stored).  Module Pipeline implements this.                   *)
(***************************************************************************)
EXTENDS Naturals

CONSTANT Meetings       \* the tracking ids handed out by POST /trigger

VARIABLES
  status,   \* status[m]: the status column, "absent" while there is no row
  report    \* report[m]: the summary, decisions, ... columns are filled

lifecycleVars == <<status, report>>

(* MeetingStatus, with "absent" for a meeting that has no row.  No code    *)
(* path writes PENDING.                                                    *)
Stages == {"processing", "joining", "recording", "transcribing",
           "summarising", "delivering"}
Terminal == {"completed", "failed"}
Statuses == {"absent"} \cup Terminal \cup Stages

(* The stage that follows each stage of run_pipeline. *)
NextStage == [processing   |-> "joining",
              joining      |-> "recording",
              recording    |-> "transcribing",
              transcribing |-> "summarising",
              summarising  |-> "delivering"]

(* status_map of GET /status/{session_id}: the progress step shown for a   *)
(* status; a meeting without a row is reported as "pending", step 0.       *)
StatusStep ==
  [st \in Statuses |->
     CASE st = "joining"      -> 1
       [] st = "recording"    -> 2
       [] st = "transcribing" -> 3
       [] st = "summarising"  -> 4
       [] st = "delivering"   -> 5
       [] st \in Terminal     -> 6
       [] OTHER               -> 0]

LifecycleTypeOK ==
  /\ status \in [Meetings -> Statuses]
  /\ report \in [Meetings -> BOOLEAN]

LifecycleInit ==
  /\ status = [m \in Meetings |-> "absent"]
  /\ report = [m \in Meetings |-> FALSE]

Move(m, from, to) ==
  /\ status[m] = from
  /\ status' = [status EXCEPT ![m] = to]

Create(m) ==
  /\ Move(m, "absent", "processing")
  /\ UNCHANGED report

Advance(m) ==
  \E st \in DOMAIN NextStage :
    /\ Move(m, st, NextStage[st])
    /\ UNCHANGED report

Persist(m) ==
  /\ Move(m, "delivering", "completed")
  /\ report' = [report EXCEPT ![m] = TRUE]

Fail(m) ==
  /\ \E st \in Stages \cup {"completed"} : Move(m, st, "failed")
  /\ UNCHANGED report

LifecycleNext == \E m \in Meetings : Create(m) \/ Advance(m) \/ Persist(m) \/ Fail(m)

LifecycleSpec == LifecycleInit /\ [][LifecycleNext]_lifecycleVars
-----------------------------------------------------------------------------
(* What a reader of the row may rely on.                                   *)

(* COMPLETED promises the report, and no meeting under way has one. *)
ReportUnderEnd ==
  \A m \in Meetings : /\ status[m] = "completed" => report[m]
                      /\ report[m] => status[m] \in Terminal

LifecycleInv == LifecycleTypeOK /\ ReportUnderEnd

(* Nothing that was read of a row becomes untrue: its progress does not    *)
(* fall back, its report stays, and FAILED is final.                       *)
Lasting(m) == /\ StatusStep[status[m]] <= StatusStep[status'[m]]
              /\ report[m] => report'[m]
              /\ status[m] = "failed" => status'[m] = "failed"

NothingTakenBack == [][\A m \in Meetings : Lasting(m)]_lifecycleVars
=============================================================================
