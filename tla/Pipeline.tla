------------------------------ MODULE Pipeline ------------------------------
(***************************************************************************)
(* run_pipeline of backend/src/orchestrator.py, once per accepted meeting, *)
(* as concurrent tasks of one server process.  Every await of the          *)
(* coroutine is an action: between two of them the other pipelines run.    *)
(*                                                                         *)
(* Pipelines share the host: each owns a row of the meetings table and a   *)
(* browser, but there is ONE OBS instance, which records the desktop audio *)
(* of every meeting that is open on the host.  OBS, the browsers and the   *)
(* database outlive the process.                                           *)
(***************************************************************************)
EXTENDS Naturals, FiniteSets

CONSTANTS
  Sessions,     \* tracking ids, one per accepted POST /trigger
  Nobody,       \* the recorder's owner when OBS is not recording
  NumEmails,    \* NumEmails[s]: recipients resolved when s was triggered
  DbOutcomes,   \* what a database write can do, see Writes below
  MaxHalts,     \* bound: recordings ended from outside (operator, full disk)
  MaxCrashes    \* bound: times the server process dies or is shut down

ASSUME NobodyAssumption == Nobody \notin Sessions
ASSUME EmailsAssumption == NumEmails \in [Sessions -> Nat]
ASSUME OutcomesAssumption == {"ok"} \subseteq DbOutcomes
                             /\ DbOutcomes \subseteq {"ok", "error", "lostAck"}
ASSUME BoundsAssumption == MaxHalts \in Nat /\ MaxCrashes \in Nat

VARIABLES
  pc,         \* the await each pipeline is at
  err,        \* the class of the exception being handled
  status,     \* Meeting.status, "absent" while there is no row
  message,    \* Meeting.error_message
  report,     \* the report columns of the row are filled
  troubled,   \* history: pipelines cut off, or with a write that failed
  browser,    \* the pipeline's Chrome: closed, open, or in the meeting
  recorder,   \* OBS: who started the recording that is running
  tape,       \* the meetings audible so far on the running recording
  audio,      \* the meetings audible on the file the pipeline works on
  next,       \* position of dispatch_summary_email in the recipient list
  delivered,  \* positions of the recipients that have got the mail
  halts, crashes

rowVars  == <<status, message, report>>
dbVars   == <<rowVars, troubled>>
obsVars  == <<recorder, tape, audio>>
mailVars == <<next, delivered>>
envVars  == <<halts, crashes>>
vars == <<pc, err, dbVars, browser, obsVars, mailVars, envVars>>

-----------------------------------------------------------------------------
(* Types *)

(* The program points, in the order a pipeline without errors visits them. *)
(* "handle" is the except block; "lost" is a task that died with the       *)
(* process or was cancelled, and "joinOn" to "leaveOn" are a cancelled     *)
(* task whose blocking call goes on in its thread.                         *)
Points == {"idle", "create", "setJoining", "open", "join", "setRecording",
           "start", "wait", "stop", "leave", "extract", "setTranscribing",
           "transcribe", "setSummarising", "summarise", "setDelivering",
           "store", "send", "setCompleted", "handle", "done", "lost",
           "joinOn", "startOn", "stopOn", "leaveOn"}

(* The calls that change the host although nobody waits for them any more. *)
GoesOn == [join |-> "joinOn", start |-> "startOn", stop |-> "stopOn", leave |-> "leaveOn"]
Orphans == {"joinOn", "startOn", "stopOn", "leaveOn"}

(* A task of the process that has not returned. *)
Live == Points \ ({"idle", "done", "lost"} \cup Orphans)

(* What the except block can tell apart by the exception's type and text.  *)
ErrorKinds == {"timeout", "stt", "obs", "other"}

(* "timeout" and "obs" are looked for in the text of the exception of any  *)
(* stage, and a text can hold anything: the page or the link it failed on, *)
(* a path, an SQL statement with its parameters, the answer of the LLM.    *)
AnyText == {"timeout", "obs", "other"}

MessageKinds == {"none", "notJoined", "sttSlow", "networkTimeout", "sttFailed",
                 "recordingProblem", "summaryFailed", "mailFailed", "unexpected"}

Lifecycle == INSTANCE MeetingLifecycle WITH Meetings <- Sessions

TypeOK ==
  /\ pc \in [Sessions -> Points]
  /\ err \in [Sessions -> ErrorKinds \cup {"none"}]
  /\ status \in [Sessions -> Lifecycle!Statuses]
  /\ message \in [Sessions -> MessageKinds]
  /\ report \in [Sessions -> BOOLEAN]
  /\ troubled \subseteq Sessions
  /\ browser \in [Sessions -> {"closed", "open", "meeting"}]
  /\ recorder \in Sessions \cup {Nobody}
  /\ tape \in SUBSET Sessions
  /\ audio \in [Sessions -> SUBSET Sessions]
  /\ next \in [Sessions -> Nat]
  /\ delivered \in [Sessions -> SUBSET Nat]
  /\ halts \in 0 .. MaxHalts
  /\ crashes \in 0 .. MaxCrashes

Init ==
  /\ pc = [s \in Sessions |-> "idle"]
  /\ err = [s \in Sessions |-> "none"]
  /\ status = [s \in Sessions |-> "absent"]
  /\ message = [s \in Sessions |-> "none"]
  /\ report = [s \in Sessions |-> FALSE]
  /\ troubled = {}
  /\ browser = [s \in Sessions |-> "closed"]
  /\ recorder = Nobody
  /\ tape = {}
  /\ audio = [s \in Sessions |-> {}]
  /\ next = [s \in Sessions |-> 1]
  /\ delivered = [s \in Sessions |-> {}]
  /\ halts = 0
  /\ crashes = 0

-----------------------------------------------------------------------------
(* Control and database helpers *)

Goto(s, to) == /\ pc' = [pc EXCEPT ![s] = to]
               /\ UNCHANGED err

(* An exception leaves the try block of run_pipeline. *)
Raise(s, kinds) == /\ pc' = [pc EXCEPT ![s] = "handle"]
                   /\ \E k \in kinds : err' = [err EXCEPT ![s] = k]

(* One short-lived session around a commit: it can commit and return, fail *)
(* and roll back, or commit and then raise (a connection lost before the   *)
(* acknowledgement, or the refresh() that follows the commit).             *)
Writes(s, done, returns, raises) ==
  \/ /\ "ok" \in DbOutcomes
     /\ done
     /\ returns
     /\ UNCHANGED troubled
  \/ /\ "error" \in DbOutcomes
     /\ UNCHANGED rowVars
     /\ raises
     /\ troubled' = troubled \cup {s}
  \/ /\ "lostAck" \in DbOutcomes
     /\ done
     /\ raises
     /\ troubled' = troubled \cup {s}

(* _update_meeting_status without an error message, from run_pipeline. *)
WriteStatus(s, st) == /\ status' = [status EXCEPT ![s] = st]
                      /\ UNCHANGED <<message, report>>

SetStatus(s, at, st, to) ==
  /\ pc[s] = at
  /\ Writes(s, WriteStatus(s, st), Goto(s, to), Raise(s, AnyText))
  /\ UNCHANGED <<browser, obsVars, mailVars, envVars>>

-----------------------------------------------------------------------------
(* POST /trigger, the row, joining *)

(* trigger_pipeline: answer 202 with the tracking id and leave the pipeline *)
(* to a background task.                                                    *)
Trigger(s) ==
  /\ pc[s] = "idle"
  /\ Goto(s, "create")
  /\ UNCHANGED <<dbVars, browser, obsVars, mailVars, envVars>>

(* The row with its teams and participants, in one commit.  Any exception  *)
(* (a team deleted since the request, a duplicate id, the database, the    *)
(* refresh after the commit) is logged and ends the pipeline.              *)
CreateRow(s) ==
  /\ pc[s] = "create"
  /\ Writes(s, WriteStatus(s, "processing"), Goto(s, "setJoining"), Goto(s, "done"))
  /\ UNCHANGED <<browser, obsVars, mailVars, envVars>>

SetJoining(s) == SetStatus(s, "setJoining", "joining", "open")

(* MeetingAccess(): start Chrome, or BrowserInitError. *)
OpenBrowser(s) ==
  /\ pc[s] = "open"
  /\ \/ /\ browser' = [browser EXCEPT ![s] = "open"]
        /\ Goto(s, "join")
     \/ /\ UNCHANGED browser
        /\ Raise(s, AnyText)
  /\ UNCHANGED <<dbVars, obsVars, mailVars, envVars>>

(* What a joined meeting plays is desktop audio, so it reaches the         *)
(* recording that is running, whoever started it.                          *)
EnterMeeting(s) ==
  /\ browser' = [browser EXCEPT ![s] = "meeting"]
  /\ tape' = IF recorder = Nobody THEN tape ELSE tape \cup {s}

(* access.join(link) *)
JoinSucceeds(s) ==
  /\ pc[s] = "join"
  /\ EnterMeeting(s)
  /\ Goto(s, "setRecording")
  /\ UNCHANGED <<dbVars, recorder, audio, mailVars, envVars>>

(* Mutant: the error of a failed join is swallowed. *)
JoinFails_Swallowed(s) ==
  /\ pc[s] = "join"
  /\ Goto(s, "setRecording")
  /\ UNCHANGED <<dbVars, browser, obsVars, mailVars, envVars>>

(* The retries are used up or the waiting room timed out; the browser is   *)
(* left open, nothing in the except block closes it.                       *)
JoinFails(s) ==
  /\ pc[s] = "join"
  /\ Raise(s, AnyText)
  /\ UNCHANGED <<dbVars, browser, obsVars, mailVars, envVars>>

-----------------------------------------------------------------------------
(* Recording *)

SetRecording(s) == SetStatus(s, "setRecording", "recording", "start")

InMeeting == {t \in Sessions : browser[t] = "meeting"}

(* start_record: OBS starts unless it already records. *)
BeginRecording(s) ==
  /\ recorder = Nobody
  /\ recorder' = s
  /\ tape' = InMeeting

(* AudioCapture() and capture.start(); the reply can be lost after OBS has *)
(* started.                                                                *)
Start(s) ==
  /\ pc[s] = "start"
  /\ BeginRecording(s)
  /\ Goto(s, "wait") \/ Raise(s, AnyText)
  /\ UNCHANGED <<dbVars, browser, audio, mailVars, envVars>>

(* Mutant: capture.start() logs the refusal of OBS instead of raising. *)
StartFails_Logged(s) ==
  /\ pc[s] = "start"
  /\ Goto(s, "wait")
  /\ UNCHANGED <<dbVars, browser, obsVars, mailVars, envVars>>

(* OBSConnectionError, OBSNotRunning, or RecordingStartError: OBS refuses  *)
(* a second recording whoever owns the first, and may fail on its own.     *)
StartFails(s) ==
  /\ pc[s] = "start"
  /\ Raise(s, AnyText)
  /\ UNCHANGED <<dbVars, browser, obsVars, mailVars, envVars>>

(* access.wait_until_end(): the meeting is over, or Selenium raised. *)
Wait(s) ==
  /\ pc[s] = "wait"
  /\ Goto(s, "stop") \/ Raise(s, AnyText)
  /\ UNCHANGED <<dbVars, browser, obsVars, mailVars, envVars>>

(* stop_record ends the recording that runs, whoever started it. *)
EndRecording == /\ recorder' = Nobody
                /\ tape' = {}

(* capture.stop() returns the path of a non-empty file. *)
StopSucceeds(s) ==
  /\ pc[s] = "stop"
  /\ recorder # Nobody
  /\ EndRecording
  /\ audio' = [audio EXCEPT ![s] = tape]
  /\ Goto(s, "leave")
  /\ UNCHANGED <<dbVars, browser, mailVars, envVars>>

(* capture.stop() raises: OBS does not record or cannot be reached, the    *)
(* reply is lost after OBS has stopped, or the file is missing or empty.   *)
(* The fallback then calls capture._find_latest_recording, which           *)
(* AudioCapture does not have, so every case ends in an AttributeError.    *)
StopFails(s) ==
  /\ pc[s] = "stop"
  /\ \/ UNCHANGED <<recorder, tape>>
     \/ /\ recorder # Nobody
        /\ EndRecording
  /\ Raise(s, {"other"})
  /\ UNCHANGED <<dbVars, browser, audio, mailVars, envVars>>

(* access.leave(): errors of the click and of driver.quit() are swallowed. *)
Leave(s) ==
  /\ pc[s] = "leave"
  /\ \E b \in {"closed", browser[s]} : browser' = [browser EXCEPT ![s] = b]
  /\ Goto(s, "extract")
  /\ UNCHANGED <<dbVars, obsVars, mailVars, envVars>>

-----------------------------------------------------------------------------
(* Processing the recording: none of these steps touches shared state *)

(* A blocking call in the thread pool that returns or raises. *)
Work(s, at, to, kinds) ==
  /\ pc[s] = at
  /\ Goto(s, to) \/ Raise(s, kinds)
  /\ UNCHANGED <<dbVars, browser, obsVars, mailVars, envVars>>

(* _extract_audio falls back to the raw file, except when ffmpeg hangs for *)
(* 60 s: TimeoutExpired is not caught.                                     *)
Extract(s) == Work(s, "extract", "setTranscribing", AnyText)

SetTranscribing(s) == SetStatus(s, "setTranscribing", "transcribing", "transcribe")

(* The errors of the speech services, or any other: a file that is too     *)
(* large, or missing, is an exception with the path in its text.           *)
Transcribe(s) == Work(s, "transcribe", "setSummarising", ErrorKinds)

SetSummarising(s) == SetStatus(s, "setSummarising", "summarising", "summarise")

(* ParseError quotes the beginning of what the LLM has answered. *)
Summarise(s) == Work(s, "summarise", "setDelivering", AnyText)

SetDelivering(s) == SetStatus(s, "setDelivering", "delivering", "store")

-----------------------------------------------------------------------------
(* Delivery *)

AfterStore(s) == IF NumEmails[s] = 0 THEN "setCompleted" ELSE "send"

(* Mutant: the status is committed ahead of the report columns. *)
WriteReport_StatusOnly(s) == /\ status' = [status EXCEPT ![s] = "completed"]
                             /\ UNCHANGED <<message, report>>

(* The report columns and status COMPLETED, in one commit. *)
WriteReport(s) == /\ status' = [status EXCEPT ![s] = "completed"]
                  /\ report' = [report EXCEPT ![s] = TRUE]
                  /\ UNCHANGED message

(* Mutant: a failed store is logged and the mails go out all the same. *)
Store_ErrorLogged(s) ==
  /\ pc[s] = "store"
  /\ Writes(s, WriteReport(s), Goto(s, AfterStore(s)), Goto(s, AfterStore(s)))
  /\ UNCHANGED <<browser, obsVars, mailVars, envVars>>

(* output.store: persist_meeting_report; DatabaseWriteError quotes what    *)
(* the database says, with the report's text among the parameters.         *)
Store(s) ==
  /\ pc[s] = "store"
  /\ Writes(s, WriteReport(s), Goto(s, AfterStore(s)), Raise(s, AnyText))
  /\ UNCHANGED <<browser, obsVars, mailVars, envVars>>

(* Mutant: the loop starts over while some recipient has no mail. *)
NextRecipient_StartOver(s) ==
  IF next[s] < NumEmails[s]
  THEN next' = [next EXCEPT ![s] = @ + 1] /\ Goto(s, "send")
  ELSE IF delivered'[s] = 1 .. NumEmails[s]
       THEN next' = [next EXCEPT ![s] = @ + 1] /\ Goto(s, "setCompleted")
       ELSE next' = [next EXCEPT ![s] = 1] /\ Goto(s, "send")

(* The recipient at next[s] is done with: on to the next one. *)
NextRecipient(s) ==
  /\ next' = [next EXCEPT ![s] = @ + 1]
  /\ Goto(s, IF next[s] = NumEmails[s] THEN "setCompleted" ELSE "send")

Deliver(s) == delivered' = [delivered EXCEPT ![s] = @ \cup {next[s]}]

(* aiosmtplib.send for one recipient: delivered, or an SMTPException that  *)
(* only counts as a bounce (the server may have taken the mail before).    *)
SendMail(s) ==
  /\ pc[s] = "send"
  /\ Deliver(s) \/ UNCHANGED delivered
  /\ NextRecipient(s)
  /\ UNCHANGED <<dbVars, browser, obsVars, envVars>>

(* SMTPConnectError ends the loop with EmailDeliveryError; so does every   *)
(* exception that is no SMTPException, and an error of the template.       *)
SendAborts(s) ==
  /\ pc[s] = "send"
  /\ Raise(s, AnyText)
  /\ UNCHANGED <<dbVars, browser, obsVars, mailVars, envVars>>

SetCompleted(s) == SetStatus(s, "setCompleted", "completed", "done")

-----------------------------------------------------------------------------
(* The except block of run_pipeline *)

(* Mutant: RECORDING is taken for a part of joining. *)
MessageFor_Recording(k, seen) ==
  CASE k = "timeout" /\ seen \in {"joining", "recording"} -> "notJoined"
    [] k = "timeout" /\ seen = "transcribing" -> "sttSlow"
    [] k = "stt"                              -> "sttFailed"
    [] OTHER                                  -> "unexpected"

(* The message for an exception of class k when the row is read as seen. *)
MessageFor(k, seen) ==
  CASE k = "timeout" /\ seen = "joining"      -> "notJoined"
    [] k = "timeout" /\ seen = "transcribing" -> "sttSlow"
    [] k = "timeout" /\ seen \notin {"joining", "transcribing"} -> "networkTimeout"
    [] k = "stt"                              -> "sttFailed"
    [] k = "obs"                              -> "recordingProblem"
    [] k = "other" /\ seen = "summarising"    -> "summaryFailed"
    [] k = "other" /\ seen = "delivering"     -> "mailFailed"
    [] OTHER                                  -> "unexpected"

WriteFailed(s, m) == /\ status' = [status EXCEPT ![s] = "failed"]
                     /\ message' = [message EXCEPT ![s] = m]
                     /\ UNCHANGED report

EndTask(s) == /\ pc' = [pc EXCEPT ![s] = "done"]
              /\ err' = [err EXCEPT ![s] = "none"]

(* Mutant: the handler logs the failure and leaves the row alone. *)
HandleFailure_NotRecorded(s) ==
  /\ pc[s] = "handle"
  /\ EndTask(s)
  /\ UNCHANGED <<dbVars, browser, obsVars, mailVars, envVars>>

(* Read the row's status (a failing read leaves it unknown), then write    *)
(* FAILED with the message; an error of that write is only logged.  Only   *)
(* the pipeline itself writes its row, so read and write are one step.     *)
HandleFailure(s) ==
  /\ pc[s] = "handle"
  /\ \E seen \in {status[s], "unknown"} :
       Writes(s, WriteFailed(s, MessageFor(err[s], seen)), EndTask(s), EndTask(s))
  /\ UNCHANGED <<browser, obsVars, mailVars, envVars>>

-----------------------------------------------------------------------------
(* The environment *)

(* OBS stops recording without being asked by a pipeline. *)
RecordingHalts ==
  /\ halts < MaxHalts
  /\ recorder # Nobody
  /\ EndRecording
  /\ halts' = halts + 1
  /\ UNCHANGED <<pc, err, dbVars, browser, audio, mailVars, crashes>>

(* The pipelines that are under way when the process is cut off. *)
Cut == {s \in Sessions : pc[s] \in Live}

(* Rows and OBS stay as they are, a Chrome may survive, and nothing at     *)
(* startup looks at unfinished rows.                                       *)
EndTasks(to) ==
  /\ crashes < MaxCrashes
  /\ Cut # {}
  /\ pc' = [s \in Sessions |-> IF s \in Cut THEN to[s] ELSE pc[s]]
  /\ err' = [s \in Sessions |-> "none"]
  /\ \E kept \in SUBSET Sessions :
       browser' = [s \in Sessions |-> IF s \in kept THEN browser[s] ELSE "closed"]
  /\ troubled' = troubled \cup Cut
  /\ crashes' = crashes + 1
  /\ UNCHANGED <<rowVars, obsVars, mailVars, halts>>

(* The process dies, with its threads. *)
Crash == EndTasks([s \in Sessions |-> "lost"])

(* A shutdown cancels the tasks: CancelledError is not an Exception, so no *)
(* handler runs.  A thread cannot be cancelled: a call that runs goes on.  *)
Cancel ==
  \E running \in SUBSET Sessions :
    EndTasks([s \in Sessions |-> IF s \in running /\ pc[s] \in DOMAIN GoesOn
                                 THEN GoesOn[pc[s]] ELSE "lost"])

(* The call of a cancelled task returns or raises; nobody is told. *)
ThreadReturns(s) ==
  /\ \/ pc[s] \in Orphans /\ UNCHANGED <<browser, recorder, tape>>
     \/ pc[s] = "joinOn" /\ EnterMeeting(s) /\ UNCHANGED recorder
     \/ pc[s] = "startOn" /\ BeginRecording(s) /\ UNCHANGED browser
     \/ pc[s] = "stopOn" /\ recorder # Nobody /\ EndRecording /\ UNCHANGED browser
     \/ /\ pc[s] = "leaveOn"
        /\ browser' = [browser EXCEPT ![s] = "closed"]
        /\ UNCHANGED <<recorder, tape>>
  /\ Goto(s, "lost")
  /\ UNCHANGED <<dbVars, audio, mailVars, envVars>>

(* One step of the coroutine of s. *)
Step(s) ==
  \/ CreateRow(s) \/ SetJoining(s) \/ OpenBrowser(s) \/ JoinSucceeds(s) \/ JoinFails(s)
  \/ SetRecording(s) \/ Start(s) \/ StartFails(s) \/ Wait(s)
  \/ StopSucceeds(s) \/ StopFails(s) \/ Leave(s)
  \/ Extract(s) \/ SetTranscribing(s) \/ Transcribe(s)
  \/ SetSummarising(s) \/ Summarise(s)
  \/ SetDelivering(s) \/ Store(s) \/ SendMail(s) \/ SendAborts(s) \/ SetCompleted(s)
  \/ HandleFailure(s) \/ ThreadReturns(s)

Next == (\E s \in Sessions : Trigger(s) \/ Step(s)) \/ RecordingHalts \/ Crash \/ Cancel

Spec == Init /\ [][Next]_vars

(* The event loop runs every ready task, every blocking call returns or    *)
(* raises and every meeting ends; users need not trigger anything.         *)
FairSpec == Spec /\ \A s \in Sessions : WF_vars(Step(s))

-----------------------------------------------------------------------------
(* Safety *)

Recording == {"wait", "stop"}
Recorded == {"leave", "extract", "setTranscribing", "transcribe", "setSummarising",
             "summarise", "setDelivering", "store", "send", "setCompleted"}

(* As long as nobody stops OBS by hand, a pipeline that waits in its       *)
(* meeting or stops the recording owns the one recorder: capture.start     *)
(* lets no second pipeline past it, whatever failed or crashed before.     *)
RecordingExclusive ==
  halts = 0 => \A s \in Sessions : pc[s] \in Recording => recorder = s

(* The file a pipeline transcribes, and the report it stores, come from a  *)
(* recording on which its own meeting is heard, even when the recording    *)
(* was halted from outside and another pipeline's was stopped instead.     *)
OwnMeetingRecorded ==
  \A s \in Sessions : pc[s] \in Recorded \/ report[s] => s \in audio[s]

(* COMPLETED is never visible without the report, a report is only there   *)
(* under COMPLETED or a later FAILED, and a meeting with a report has      *)
(* given the recorder back.                                                *)
ReportMatchesStatus ==
  \A s \in Sessions :
    /\ status[s] = "completed" => report[s]
    /\ report[s] => status[s] \in {"completed", "failed"} /\ recorder # s

(* Nobody gets a summary by mail that the database does not hold: also     *)
(* after failed, unacknowledged and interrupted writes.                    *)
MailOnlyAfterReport ==
  \A s \in Sessions : delivered[s] # {} => report[s]

(* The error text the user reads fits what happened, although the status   *)
(* it is chosen by may be one the row took in an unacknowledged write, or  *)
(* the one before a write that failed.  "We couldn't join" is never said   *)
(* of a meeting that was recorded.  A transcription or summary error, and  *)
(* "the summary was created, but we couldn't send the emails", are only    *)
(* said of a recorded meeting whose report is not stored, and then no mail *)
(* has gone out.  "A problem recording the audio" promises nothing: it is  *)
(* said whenever the text of an exception, of whatever stage, contains     *)
(* "obs" or "websocket".                                                   *)
MessageFitsProgress ==
  \A s \in Sessions :
    /\ message[s] = "notJoined" => audio[s] = {} /\ recorder # s
    /\ message[s] \in {"sttSlow", "sttFailed", "summaryFailed", "mailFailed"}
         => s \in audio[s] /\ ~report[s] /\ delivered[s] = {}

(* The row, the browser and the recording agree with the program point:    *)
(* with it the invariants above are inductive.                             *)
ProgressInv ==
  \A s \in Sessions :
    /\ pc[s] \in {"idle", "create"} => status[s] = "absent"
    /\ pc[s] = "setJoining" => status[s] = "processing"
    /\ pc[s] \in {"open", "join", "setRecording"} => status[s] = "joining"
    /\ pc[s] \in {"start", "wait", "stop", "leave", "extract", "setTranscribing"}
         => status[s] = "recording"
    /\ pc[s] \in {"transcribe", "setSummarising"} => status[s] = "transcribing"
    /\ pc[s] \in {"summarise", "setDelivering"} => status[s] = "summarising"
    /\ pc[s] = "store" => status[s] = "delivering"
    /\ pc[s] \in {"send", "setCompleted"} => status[s] = "completed"
    /\ pc[s] = "handle" => /\ status[s] \in Lifecycle!Stages \cup {"completed"}
                           /\ err[s] # "none"
                           /\ err[s] = "stt" => status[s] = "transcribing"
    /\ pc[s] \in {"setRecording", "start", "wait", "stop"} => browser[s] = "meeting"
    /\ pc[s] = "joinOn" => status[s] = "joining"
    /\ pc[s] \in {"startOn", "stopOn", "leaveOn"} => status[s] = "recording"
    /\ pc[s] \in Orphans => s \in troubled
    /\ pc[s] = "stopOn" /\ halts = 0 => recorder = s
    /\ message[s] # "none" => status[s] = "failed"
    /\ browser[s] = "meeting" /\ recorder # Nobody => s \in tape
    /\ pc[s] = "start" => recorder # s
    /\ pc[s] \in {"start", "wait", "stop"} => audio[s] = {}
    /\ pc[s] \in Recorded => recorder # s
    /\ status[s] \in {"absent", "processing", "joining"} => recorder # s /\ audio[s] = {}
    /\ status[s] \in {"transcribing", "summarising", "delivering"} => s \in audio[s]
    /\ status[s] \in Lifecycle!Stages \cup {"absent"} => ~report[s]
    /\ status[s] \in {"transcribing", "summarising", "delivering"} => recorder # s

CoreInv ==
  /\ TypeOK
  /\ ProgressInv
  /\ RecordingExclusive
  /\ OwnMeetingRecorded
  /\ ReportMatchesStatus
  /\ MailOnlyAfterReport
  /\ MessageFitsProgress

(* Each recipient has one turn: the loop never comes back to an address,   *)
(* delivered or not, and a meeting is COMPLETED with acknowledged writes   *)
(* only after every address has had its turn.                              *)
EachRecipientOnce ==
  \A s \in Sessions :
    /\ pc[s] = "send" => next[s] \in (1 .. NumEmails[s]) \ delivered[s]
    /\ status[s] = "completed" /\ pc[s] = "done" /\ s \notin troubled
         => next[s] = NumEmails[s] + 1

(* The recipients behind the loop's position are those it is done with. *)
DeliveryInv ==
  \A s \in Sessions :
    /\ next[s] \in 1 .. NumEmails[s] + 1
    /\ delivered[s] \subseteq 1 .. next[s] - 1
    /\ status[s] \notin Lifecycle!Terminal => next[s] = 1
    /\ pc[s] = "setCompleted" => next[s] = NumEmails[s] + 1

(* A pipeline that has returned leaves COMPLETED or FAILED behind, unless  *)
(* a write of its own failed or was not acknowledged: no path through the  *)
(* except block ends without an outcome.  FAILED is the last thing that is *)
(* done for a meeting: nothing runs for it any more.                       *)
OutcomeKnown ==
  \A s \in Sessions :
    /\ pc[s] = "done" => status[s] \in Lifecycle!Terminal \/ s \in troubled
    /\ status[s] = "failed" => pc[s] = "done"

(* The inductive invariant. *)
IInv == CoreInv /\ DeliveryInv /\ EachRecipientOnce /\ OutcomeKnown

Untouched(s) ==
  /\ pc'[s] = pc[s] /\ next'[s] = next[s] /\ delivered'[s] = delivered[s]
  /\ status'[s] = status[s] /\ message'[s] = message[s] /\ report'[s] = report[s]

(* Once a pipeline is over, or its task is gone, its row stays as it is:   *)
(* no other pipeline and no restart of the server touches it, also when it *)
(* says that the meeting is still being recorded.                          *)
EndIsFinal == [][\A s \in Sessions : pc[s] \in {"done", "lost"} => Untouched(s)]_vars

(* How far each program point is from the end, at most. *)
Distance ==
  [p \in Points |->
     CASE p = "idle" -> 20            [] p = "create" -> 19       [] p = "setJoining" -> 18
       [] p = "open" -> 17            [] p = "join" -> 16         [] p = "setRecording" -> 15
       [] p = "start" -> 14           [] p = "wait" -> 13         [] p = "stop" -> 12
       [] p = "leave" -> 11           [] p = "extract" -> 10      [] p = "setTranscribing" -> 9
       [] p = "transcribe" -> 8       [] p = "setSummarising" -> 7
       [] p = "summarise" -> 6        [] p = "setDelivering" -> 5 [] p = "store" -> 4
       [] p = "send" -> 3             [] p = "setCompleted" -> 3  [] p = "handle" -> 2
       [] p \in Orphans -> 1          [] OTHER -> 0]

(* The steps a pipeline has left, at most. *)
StepsLeft(s) == Distance[pc[s]] + (NumEmails[s] + 1 - next[s])

Closer(s) == /\ StepsLeft(s)' <= StepsLeft(s)
             /\ Trigger(s) \/ Step(s) => StepsLeft(s)' < StepsLeft(s)

(* No pipeline does a stage twice or mails in circles: each of its steps   *)
(* brings it closer to its end, whatever the others and the environment    *)
(* do in between, and nothing takes it back.                               *)
EveryStepCounts == [][\A s \in Sessions : Closer(s)]_vars

(* The rows behave like the abstract meeting lifecycle. *)
ImplementsLifecycle == Lifecycle!LifecycleSpec

-----------------------------------------------------------------------------
(* Liveness, under FairSpec *)

(* Every accepted meeting's pipeline comes to an end. *)
EveryPipelineEnds ==
  \A s \in Sessions : pc[s] = "create" ~> pc[s] \in {"done", "lost"}

(* A pipeline whose writes are acknowledged and whose process stays up     *)
(* ends, and stays, COMPLETED or FAILED, whatever happens to the others:   *)
(* the except block leaves no failure of any stage unrecorded.             *)
OutcomeRecorded ==
  \A s \in Sessions :
    pc[s] = "create" ~> [](status[s] \in {"completed", "failed"}) \/ s \in troubled

-----------------------------------------------------------------------------
(* What the documentation says and the code does not do; each is refuted   *)
(* by a run of its own.                                                    *)

(* orchestrator.py, module docstring: "COMPLETED / FAILED  (terminal       *)
(* states)".                                                               *)
TerminalStatesStable ==
  [][\A s \in Sessions : status[s] \in {"completed", "failed"}
                            => status'[s] = status[s]]_vars

(* specs/008-pipeline-orchestrator/spec.md: "The pipeline must contain its *)
(* own failures": no pipeline finds the recorder held by one that is over. *)
FailureIsolated ==
  \A s \in Sessions : pc[s] = "start" /\ recorder # Nobody => pc[recorder] \in Live
=============================================================================
