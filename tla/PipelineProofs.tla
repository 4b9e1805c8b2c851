--------------------------- MODULE PipelineProofs ---------------------------
(* Theorems about Pipeline, for every set of meetings and every bound. *)
EXTENDS Dashboard, TLAPS

USE DEF Lifecycle!Statuses, Lifecycle!Terminal, Lifecycle!Stages

(* Shared by the proofs below: the types of the constants. *)
LEMMA ConstantTypes ==
  /\ Nobody \notin Sessions
  /\ NumEmails \in [Sessions -> Nat]
  /\ MaxHalts \in Nat /\ MaxCrashes \in Nat
BY NobodyAssumption, EmailsAssumption, BoundsAssumption

(* The message of the except block is one of the eight texts. *)
LEMMA MessageType ==
  ASSUME NEW k \in ErrorKinds \cup {"none"}, NEW seen
  PROVE  MessageFor(k, seen) \in MessageKinds
BY DEF MessageFor, MessageKinds, ErrorKinds

(* A task that is cut off is lost, or leaves the call it is in behind. *)
LEMMA CutOff ==
  ASSUME Crash \/ Cancel
  PROVE  \E to \in [Sessions -> {"lost"} \cup Orphans] :
           /\ EndTasks(to)
           /\ \A s \in Sessions :
                to[s] = "lost" \/ (pc[s] \in DOMAIN GoesOn /\ to[s] = GoesOn[pc[s]])
<1>1. CASE Crash
  BY <1>1 DEF Crash
<1>2. CASE Cancel
  <2>1. PICK running \in SUBSET Sessions :
          EndTasks([s \in Sessions |-> IF s \in running /\ pc[s] \in DOMAIN GoesOn
                                       THEN GoesOn[pc[s]] ELSE "lost"])
    BY <1>2 DEF Cancel
  <2> DEFINE to == [s \in Sessions |-> IF s \in running /\ pc[s] \in DOMAIN GoesOn
                                       THEN GoesOn[pc[s]] ELSE "lost"]
  <2>2. to \in [Sessions -> {"lost"} \cup Orphans]
    BY DEF GoesOn, Orphans
  <2> QED
    BY <2>1, <2>2
<1> QED
  BY <1>1, <1>2

LEMMA TypeInit == Init => TypeOK
<1> SUFFICES ASSUME Init PROVE TypeOK
  OBVIOUS
<1> USE DEF Init
<1>1. pc \in [Sessions -> Points] /\ err \in [Sessions -> ErrorKinds \cup {"none"}]
  BY DEF Points, ErrorKinds
<1>2. status \in [Sessions -> Lifecycle!Statuses] /\ message \in [Sessions -> MessageKinds]
  BY DEF MessageKinds
<1>3. /\ report \in [Sessions -> BOOLEAN]
      /\ browser \in [Sessions -> {"closed", "open", "meeting"}]
  OBVIOUS
<1>4. /\ recorder \in Sessions \cup {Nobody} /\ tape \in SUBSET Sessions
      /\ audio \in [Sessions -> SUBSET Sessions]
  OBVIOUS
<1>5. troubled \subseteq Sessions /\ next \in [Sessions -> Nat] /\ delivered \in [Sessions -> SUBSET Nat]
  OBVIOUS
<1>6. halts \in 0 .. MaxHalts /\ crashes \in 0 .. MaxCrashes
  BY ConstantTypes
<1> QED
  BY <1>1, <1>2, <1>3, <1>4, <1>5, <1>6 DEF TypeOK

(* Every step keeps every variable in its type. *)
LEMMA TypeStep == TypeOK /\ [Next]_vars => TypeOK'
<1> SUFFICES ASSUME TypeOK, [Next]_vars PROVE TypeOK'
  OBVIOUS
<1> USE ConstantTypes
<1>1. ASSUME NEW s \in Sessions, Trigger(s) \/ Step(s)
      PROVE  TypeOK'
  <2> USE DEF TypeOK, Points, ErrorKinds, AnyText, Goto, Raise, Writes, WriteStatus, SetStatus, Work,
              rowVars, dbVars, obsVars, mailVars, envVars, Orphans
  <2>1. CASE Trigger(s) BY <2>1 DEF Trigger
  <2>2. CASE CreateRow(s) BY <2>2 DEF CreateRow
  <2>3. CASE SetJoining(s) BY <2>3 DEF SetJoining
  <2>4. CASE OpenBrowser(s) BY <2>4 DEF OpenBrowser
  <2>5. CASE JoinSucceeds(s) BY <2>5 DEF JoinSucceeds, EnterMeeting
  <2>6. CASE JoinFails(s) BY <2>6 DEF JoinFails
  <2>7. CASE SetRecording(s) BY <2>7 DEF SetRecording
  <2>8. CASE Start(s) BY <2>8 DEF Start, BeginRecording, InMeeting
  <2>9. CASE StartFails(s) BY <2>9 DEF StartFails
  <2>10. CASE Wait(s) BY <2>10 DEF Wait
  <2>11. CASE StopSucceeds(s) BY <2>11 DEF StopSucceeds, EndRecording
  <2>12. CASE StopFails(s) BY <2>12 DEF StopFails, EndRecording
  <2>13. CASE Leave(s) BY <2>13 DEF Leave
  <2>14. CASE Extract(s) BY <2>14 DEF Extract
  <2>15. CASE SetTranscribing(s) BY <2>15 DEF SetTranscribing
  <2>16. CASE Transcribe(s) BY <2>16 DEF Transcribe
  <2>17. CASE SetSummarising(s) BY <2>17 DEF SetSummarising
  <2>18. CASE Summarise(s) BY <2>18 DEF Summarise
  <2>19. CASE SetDelivering(s) BY <2>19 DEF SetDelivering
  <2>20. CASE Store(s)
    <3>1. AfterStore(s) \in Points BY DEF AfterStore
    <3>2. pc' \in [Sessions -> Points] /\ err' \in [Sessions -> ErrorKinds \cup {"none"}]
      BY <2>20, <3>1 DEF Store
    <3>3. /\ status' \in [Sessions -> Lifecycle!Statuses]
          /\ message' \in [Sessions -> MessageKinds]
      BY <2>20 DEF Store, WriteReport
    <3>4. report' \in [Sessions -> BOOLEAN]
      BY <2>20 DEF Store, WriteReport
    <3> QED BY <2>20, <3>2, <3>3, <3>4 DEF Store
  <2>21. CASE SendMail(s) BY <2>21 DEF SendMail, Deliver, NextRecipient
  <2>22. CASE SendAborts(s) BY <2>22 DEF SendAborts
  <2>23. CASE SetCompleted(s) BY <2>23 DEF SetCompleted
  <2>24. CASE HandleFailure(s)
    BY <2>24, MessageType DEF HandleFailure, WriteFailed, EndTask
  <2>25. CASE ThreadReturns(s)
    BY <2>25 DEF ThreadReturns, EnterMeeting, BeginRecording, InMeeting, EndRecording
  <2> QED
    BY <1>1, <2>1, <2>2, <2>3, <2>4, <2>5, <2>6, <2>7, <2>8, <2>9, <2>10, <2>11, <2>12,
       <2>13, <2>14, <2>15, <2>16, <2>17, <2>18, <2>19, <2>20, <2>21, <2>22, <2>23, <2>24,
       <2>25
    DEF Step
<1>2. CASE RecordingHalts
  BY <1>2 DEF TypeOK, RecordingHalts, EndRecording, rowVars, dbVars, mailVars
<1>3. CASE Crash \/ Cancel
  <2>1. PICK to \in [Sessions -> {"lost"} \cup Orphans] : EndTasks(to)
    BY <1>3, CutOff
  <2> QED
    <3>1. pc' \in [Sessions -> Points] /\ err' \in [Sessions -> ErrorKinds \cup {"none"}]
      BY <2>1 DEF TypeOK, EndTasks, Points, Orphans
    <3>2. browser' \in [Sessions -> {"closed", "open", "meeting"}]
      BY <2>1 DEF TypeOK, EndTasks
    <3>3. troubled' \subseteq Sessions
      BY <2>1 DEF TypeOK, EndTasks, Cut
    <3>4. crashes' \in 0 .. MaxCrashes
      BY <2>1 DEF TypeOK, EndTasks
    <3> QED
      BY <2>1, <3>1, <3>2, <3>3, <3>4 DEF TypeOK, EndTasks, rowVars, obsVars, mailVars
<1>4. CASE UNCHANGED vars
  BY <1>4 DEF TypeOK, vars, rowVars, dbVars, obsVars, mailVars, envVars
<1> QED
  BY <1>1, <1>2, <1>3, <1>4 DEF Next

(* Every variable of the pipelines keeps its type in every run. *)
THEOREM PipelineTypeCorrect == Spec => []TypeOK
BY TypeInit, TypeStep, PTL DEF Spec
-----------------------------------------------------------------------------
(* CoreInv holds initially... *)
LEMMA SafetyInit == Init => CoreInv
BY TypeInit, ConstantTypes
DEF Init, CoreInv, ProgressInv, RecordingExclusive, OwnMeetingRecorded, ReportMatchesStatus,
    MailOnlyAfterReport, MessageFitsProgress, Recording, Recorded, Orphans

(* ... and every step keeps it: one case per action.  ProgressInv ties the *)
(* row, the browser and the recorder to the program point, which is what   *)
(* each of the other conjuncts needs about the state before the step.      *)
LEMMA SafetyStep == CoreInv /\ [Next]_vars => CoreInv'
<1> SUFFICES ASSUME CoreInv, [Next]_vars PROVE CoreInv'
  OBVIOUS
<1>0. TypeOK /\ TypeOK'
  BY TypeStep DEF CoreInv
<1> USE <1>0, ConstantTypes
    DEF CoreInv, ProgressInv, RecordingExclusive, OwnMeetingRecorded, ReportMatchesStatus,
        MailOnlyAfterReport, MessageFitsProgress, Recording, Recorded
<1>1. ASSUME NEW s \in Sessions, Trigger(s) \/ Step(s)
      PROVE  CoreInv'
  <2> USE DEF TypeOK, ErrorKinds, AnyText, Goto, Raise, Writes, WriteStatus, SetStatus, Work,
              rowVars, dbVars, obsVars, mailVars, envVars, Orphans
  <2>1. CASE Trigger(s) BY <2>1 DEF Trigger
  <2>2. CASE CreateRow(s) BY <2>2 DEF CreateRow
  <2>3. CASE SetJoining(s) BY <2>3 DEF SetJoining
  <2>4. CASE OpenBrowser(s) BY <2>4 DEF OpenBrowser
  <2>5. CASE JoinSucceeds(s) BY <2>5 DEF JoinSucceeds, EnterMeeting
  <2>6. CASE JoinFails(s) BY <2>6 DEF JoinFails
  <2>7. CASE SetRecording(s) BY <2>7 DEF SetRecording
  <2>8. CASE Start(s) BY <2>8 DEF Start, BeginRecording, InMeeting
  <2>9. CASE StartFails(s) BY <2>9 DEF StartFails
  <2>10. CASE Wait(s) BY <2>10 DEF Wait
  <2>11. CASE StopSucceeds(s) BY <2>11 DEF StopSucceeds, EndRecording
  <2>12. CASE StopFails(s)
    <3>1. CASE UNCHANGED <<recorder, tape>> BY <2>12, <3>1 DEF StopFails
    <3>2. CASE recorder # Nobody /\ EndRecording
      BY <2>12, <3>2 DEF StopFails, EndRecording
    <3> QED BY <2>12, <3>1, <3>2 DEF StopFails
  <2>13. CASE Leave(s) BY <2>13 DEF Leave
  <2>14. CASE Extract(s) BY <2>14 DEF Extract
  <2>15. CASE SetTranscribing(s) BY <2>15 DEF SetTranscribing
  <2>16. CASE Transcribe(s) BY <2>16 DEF Transcribe
  <2>17. CASE SetSummarising(s) BY <2>17 DEF SetSummarising
  <2>18. CASE Summarise(s) BY <2>18 DEF Summarise
  <2>19. CASE SetDelivering(s) BY <2>19 DEF SetDelivering
  <2>20. CASE Store(s) BY <2>20 DEF Store, WriteReport, AfterStore
  <2>21. CASE SendMail(s) BY <2>21 DEF SendMail, Deliver, NextRecipient
  <2>22. CASE SendAborts(s) BY <2>22 DEF SendAborts
  <2>23. CASE SetCompleted(s) BY <2>23 DEF SetCompleted
  <2>24. CASE HandleFailure(s) BY <2>24 DEF HandleFailure, WriteFailed, EndTask, MessageFor
  <2>25. CASE ThreadReturns(s)
    <3>1. CASE pc[s] = "joinOn" /\ EnterMeeting(s) /\ UNCHANGED recorder
      BY <2>25, <3>1 DEF ThreadReturns, EnterMeeting
    <3>2. CASE pc[s] = "startOn" /\ BeginRecording(s) /\ UNCHANGED browser
      BY <2>25, <3>2 DEF ThreadReturns, BeginRecording, InMeeting
    <3>3. CASE pc[s] = "stopOn" /\ recorder # Nobody /\ EndRecording /\ UNCHANGED browser
      BY <2>25, <3>3 DEF ThreadReturns, EndRecording
    <3>4. CASE UNCHANGED <<recorder, tape>> /\ \E b \in {"closed", browser[s]} :
                 browser' = [browser EXCEPT ![s] = b]
      BY <2>25, <3>4 DEF ThreadReturns
    <3>5. browser = [browser EXCEPT ![s] = browser[s]]
      OBVIOUS
    <3> QED BY <2>25, <3>1, <3>2, <3>3, <3>4, <3>5 DEF ThreadReturns
  <2> QED
    BY <1>1, <2>1, <2>2, <2>3, <2>4, <2>5, <2>6, <2>7, <2>8, <2>9, <2>10, <2>11,
       <2>12, <2>13, <2>14, <2>15, <2>16, <2>17, <2>18, <2>19, <2>20, <2>21, <2>22,
       <2>23, <2>24, <2>25
    DEF Step
<1>2. CASE RecordingHalts
  BY <1>2 DEF TypeOK, RecordingHalts, EndRecording, rowVars, dbVars, mailVars
<1>3. CASE Crash \/ Cancel
  <2>1. PICK to \in [Sessions -> {"lost"} \cup Orphans] :
          /\ EndTasks(to)
          /\ \A s \in Sessions :
               to[s] = "lost" \/ (pc[s] \in DOMAIN GoesOn /\ to[s] = GoesOn[pc[s]])
    BY <1>3, CutOff
  <2> USE <2>1
      DEF TypeOK, EndTasks, Cut, GoesOn, Orphans, rowVars, obsVars, mailVars
  <2>2. ProgressInv'
    BY DEF Live, Points
  <2>3. RecordingExclusive' /\ OwnMeetingRecorded'
    BY DEF Live, Points
  <2> QED
    BY <2>2, <2>3
<1>4. CASE UNCHANGED vars
  BY <1>4 DEF TypeOK, vars, rowVars, dbVars, obsVars, mailVars, envVars
<1> QED
  BY <1>1, <1>2, <1>3, <1>4 DEF Next

-----------------------------------------------------------------------------
(* Delivery and the outcome.  DeliveryInv needs from CoreInv that nothing  *)
(* has been mailed while the report is not stored.                         *)

LEMMA DeliveryInit == Init => DeliveryInv /\ EachRecipientOnce /\ OutcomeKnown
BY ConstantTypes DEF Init, DeliveryInv, EachRecipientOnce, OutcomeKnown

LEMMA DeliveryStep ==
  IInv /\ [Next]_vars => DeliveryInv' /\ EachRecipientOnce' /\ OutcomeKnown'
<1> DEFINE Goal == DeliveryInv /\ EachRecipientOnce /\ OutcomeKnown
<1> SUFFICES ASSUME IInv, [Next]_vars PROVE Goal'
  OBVIOUS
<1>0. TypeOK /\ ProgressInv
  BY DEF IInv, CoreInv
<1> USE <1>0, ConstantTypes DEF IInv, DeliveryInv, EachRecipientOnce, OutcomeKnown
<1>1. ASSUME NEW s \in Sessions, Trigger(s) \/ Step(s)
      PROVE  Goal'
  <2> USE DEF TypeOK, ProgressInv, Goto, Raise, Writes, WriteStatus, SetStatus, Work,
              rowVars, dbVars, mailVars, Orphans
  <2>1. CASE CreateRow(s)
    <3>1. UNCHANGED <<next, delivered>> /\ next[s] = 1
      BY <2>1 DEF CreateRow, Lifecycle!Terminal
    <3>2. \/ /\ pc' = [pc EXCEPT ![s] = "setJoining"]
             /\ status' = [status EXCEPT ![s] = "processing"]
             /\ UNCHANGED troubled
          \/ /\ pc' = [pc EXCEPT ![s] = "done"]
             /\ status' = status \/ status' = [status EXCEPT ![s] = "processing"]
             /\ troubled' = troubled \cup {s}
      BY <2>1 DEF CreateRow
    <3> QED
      BY <3>1, <3>2
  <2>2. CASE \/ SetJoining(s) \/ SetRecording(s) \/ SetTranscribing(s)
             \/ SetSummarising(s) \/ SetDelivering(s)
    <3>1. /\ UNCHANGED <<next, delivered>> /\ next[s] = 1
          /\ pc[s] \notin {"done", "send", "setCompleted"}
      BY <2>2 DEF SetJoining, SetRecording, SetTranscribing, SetSummarising, SetDelivering,
                  Lifecycle!Terminal
    <3>2. \E st \in Lifecycle!Stages, to \in {"open", "start", "transcribe", "summarise", "store"} :
            \/ /\ pc' = [pc EXCEPT ![s] = to] /\ status' = [status EXCEPT ![s] = st]
               /\ UNCHANGED troubled
            \/ /\ pc' = [pc EXCEPT ![s] = "handle"]
               /\ status' = status \/ status' = [status EXCEPT ![s] = st]
               /\ troubled' = troubled \cup {s}
      BY <2>2 DEF SetJoining, SetRecording, SetTranscribing, SetSummarising, SetDelivering
    <3>3. status[s] # "failed"
      BY <3>1
    <3> QED
      BY <3>1, <3>2, <3>3
  <2>3. CASE SetCompleted(s) BY <2>3 DEF SetCompleted
  <2>4. CASE Store(s)
    <3>1. /\ pc[s] = "store" /\ status[s] = "delivering" /\ NumEmails[s] \in Nat
          /\ UNCHANGED <<next, delivered>> /\ next[s] = 1 /\ delivered[s] = {}
      BY <2>4 DEF Store
    <3>2. \/ /\ pc' = [pc EXCEPT ![s] = IF NumEmails[s] = 0 THEN "setCompleted" ELSE "send"]
             /\ status' = [status EXCEPT ![s] = "completed"]
             /\ UNCHANGED troubled
          \/ /\ pc' = [pc EXCEPT ![s] = "handle"]
             /\ status' = status \/ status' = [status EXCEPT ![s] = "completed"]
             /\ troubled' = troubled \cup {s}
      BY <2>4 DEF Store, WriteReport, AfterStore
    <3> QED
      BY <3>1, <3>2
  <2>5. CASE SendMail(s)
    BY <2>5 DEF SendMail, Deliver, NextRecipient
  <2>6. CASE HandleFailure(s) BY <2>6 DEF HandleFailure, WriteFailed, EndTask
  <2>7. CASE ThreadReturns(s) BY <2>7 DEF ThreadReturns
  <2>8. CASE \/ Trigger(s) \/ OpenBrowser(s) \/ JoinSucceeds(s) \/ JoinFails(s)
             \/ Start(s) \/ StartFails(s) \/ Wait(s) \/ StopSucceeds(s) \/ StopFails(s)
    BY <2>8 DEF Trigger, OpenBrowser, JoinSucceeds, JoinFails, Start, StartFails, Wait,
                StopSucceeds, StopFails
  <2>9. CASE Leave(s) \/ Extract(s) \/ Transcribe(s) \/ Summarise(s) \/ SendAborts(s)
    BY <2>9 DEF Leave, Extract, Transcribe, Summarise, SendAborts
  <2> QED
    BY <1>1, <2>1, <2>2, <2>3, <2>4, <2>5, <2>6, <2>7, <2>8, <2>9 DEF Step
<1>2. CASE RecordingHalts
  BY <1>2 DEF RecordingHalts, rowVars, dbVars, mailVars
<1>3. CASE Crash \/ Cancel
  <2>1. PICK to \in [Sessions -> {"lost"} \cup Orphans] : EndTasks(to)
    BY <1>3, CutOff
  <2>2. UNCHANGED <<status, next, delivered>> /\ troubled \subseteq troubled'
    BY <2>1 DEF EndTasks, rowVars, mailVars
  <2>3. ASSUME NEW s \in Sessions
        PROVE  pc'[s] = pc[s] \/ (pc[s] \in Live /\ pc'[s] \in {"lost"} \cup Orphans)
    BY <2>1, <2>3 DEF EndTasks, Cut
  <2> QED
    BY <2>2, <2>3 DEF Live, Orphans
<1>4. CASE UNCHANGED vars
  BY <1>4 DEF vars, rowVars, dbVars, mailVars
<1> QED
  BY <1>1, <1>2, <1>3, <1>4 DEF Next

LEMMA InvariantStep == IInv /\ [Next]_vars => IInv'
BY SafetyStep, DeliveryStep DEF IInv

THEOREM PipelineInvariant == Spec => []IInv
BY SafetyInit, DeliveryInit, InvariantStep, PTL DEF Spec, IInv

(* While OBS is left alone, the pipeline in a meeting owns the recorder,   *)
(* through every failure, lost reply and crash.                            *)
THEOREM RecordingIsExclusive == Spec => []RecordingExclusive
<1>1. IInv => RecordingExclusive BY DEF IInv, CoreInv
<1> QED BY <1>1, PipelineInvariant, PTL

(* A report is always made from a recording that has its own meeting. *)
THEOREM RecordingHasOwnMeeting == Spec => []OwnMeetingRecorded
<1>1. IInv => OwnMeetingRecorded BY DEF IInv, CoreInv
<1> QED BY <1>1, PipelineInvariant, PTL

(* COMPLETED and the report columns appear together and the recorder is    *)
(* free by then.                                                           *)
THEOREM ReportIsConsistent == Spec => []ReportMatchesStatus
<1>1. IInv => ReportMatchesStatus BY DEF IInv, CoreInv
<1> QED BY <1>1, PipelineInvariant, PTL

(* No summary is mailed that is not in the database. *)
THEOREM MailsAreStored == Spec => []MailOnlyAfterReport
<1>1. IInv => MailOnlyAfterReport BY DEF IInv, CoreInv
<1> QED BY <1>1, PipelineInvariant, PTL

(* The error text never contradicts how far the meeting got. *)
THEOREM MessagesFit == Spec => []MessageFitsProgress
<1>1. IInv => MessageFitsProgress BY DEF IInv, CoreInv
<1> QED BY <1>1, PipelineInvariant, PTL

(* Nobody gets the same summary twice, and COMPLETED is not said before    *)
(* everybody had a turn.                                                   *)
THEOREM RecipientsAreServedOnce == Spec => []EachRecipientOnce
<1>1. IInv => EachRecipientOnce BY DEF IInv
<1> QED BY <1>1, PipelineInvariant, PTL

(* A pipeline returns with an outcome in the row: the part of              *)
(* OutcomeRecorded that does not depend on fairness, ...                   *)
THEOREM OutcomesAreKnown == Spec => []OutcomeKnown
<1>1. IInv => OutcomeKnown BY DEF IInv
<1> QED BY <1>1, PipelineInvariant, PTL

-----------------------------------------------------------------------------
(* Steps: what they leave alone and where they lead.                       *)

(* ... and nothing changes an outcome later, nor the row of a pipeline     *)
(* that was cut off in the middle.                                         *)
THEOREM EndsAreFinal == Spec => EndIsFinal
<1>1. ASSUME TypeOK, [Next]_vars, NEW t \in Sessions, pc[t] \in {"done", "lost"}
      PROVE  Untouched(t)
  <2> USE <1>1 DEF Untouched, rowVars, dbVars, mailVars
  <2>1. ASSUME NEW s \in Sessions, Trigger(s) \/ Step(s)
        PROVE  Untouched(t)
    <3> USE DEF TypeOK, Goto, Raise, Writes, WriteStatus, SetStatus, Work
    <3>1. CASE \/ CreateRow(s) \/ SetJoining(s) \/ SetRecording(s) \/ SetTranscribing(s)
               \/ SetSummarising(s) \/ SetDelivering(s) \/ SetCompleted(s)
      BY <3>1 DEF CreateRow, SetJoining, SetRecording, SetTranscribing, SetSummarising,
                  SetDelivering, SetCompleted
    <3>2. CASE Store(s) \/ HandleFailure(s) \/ SendMail(s)
      BY <3>2 DEF Store, WriteReport, HandleFailure, WriteFailed, EndTask, SendMail, Deliver,
                  NextRecipient
    <3>3. CASE \/ Trigger(s) \/ OpenBrowser(s) \/ JoinSucceeds(s) \/ JoinFails(s)
               \/ Start(s) \/ StartFails(s) \/ Wait(s) \/ StopSucceeds(s) \/ StopFails(s)
               \/ Leave(s) \/ Extract(s) \/ Transcribe(s) \/ Summarise(s) \/ SendAborts(s)
      BY <3>3 DEF Trigger, OpenBrowser, JoinSucceeds, JoinFails, Start, StartFails, Wait,
                  StopSucceeds, StopFails, Leave, Extract, Transcribe, Summarise, SendAborts
    <3>4. CASE ThreadReturns(s)
      BY <3>4 DEF ThreadReturns, Orphans
    <3> QED
      BY <2>1, <3>1, <3>2, <3>3, <3>4 DEF Step
  <2>2. CASE RecordingHalts BY <2>2 DEF RecordingHalts
  <2>3. CASE Crash \/ Cancel
    BY <2>3, CutOff DEF EndTasks, Cut, Live
  <2>4. CASE UNCHANGED vars BY <2>4 DEF vars
  <2> QED
    BY <2>1, <2>2, <2>3, <2>4 DEF Next
<1>2. TypeOK /\ [Next]_vars =>
        [\A s \in Sessions : pc[s] \in {"done", "lost"} => Untouched(s)]_vars
  BY <1>1
<1> QED
  BY <1>2, PipelineTypeCorrect, PTL DEF Spec, EndIsFinal

(* Distance, as a table. *)
LEMMA Distances ==
  /\ \A p \in Points : Distance[p] \in 0 .. 20
  /\ Distance["idle"] = 20 /\ Distance["create"] = 19 /\ Distance["setJoining"] = 18
  /\ Distance["open"] = 17 /\ Distance["join"] = 16 /\ Distance["setRecording"] = 15
  /\ Distance["start"] = 14 /\ Distance["wait"] = 13 /\ Distance["stop"] = 12
  /\ Distance["leave"] = 11 /\ Distance["extract"] = 10 /\ Distance["setTranscribing"] = 9
  /\ Distance["transcribe"] = 8 /\ Distance["setSummarising"] = 7
  /\ Distance["summarise"] = 6 /\ Distance["setDelivering"] = 5 /\ Distance["store"] = 4
  /\ Distance["send"] = 3 /\ Distance["setCompleted"] = 3 /\ Distance["handle"] = 2
  /\ Distance["done"] = 0 /\ Distance["lost"] = 0
  /\ \A p \in Orphans : Distance[p] = 1
  /\ \A p \in Live : Distance[p] >= 2
BY DEF Distance, Points, Orphans, Live

(* A step of a pipeline leads to a later program point, or to the next     *)
(* recipient.                                                              *)
LEMMA StepLeadsOn ==
  ASSUME TypeOK, NEW s \in Sessions, Trigger(s) \/ Step(s)
  PROVE  /\ \A t \in Sessions \ {s} : pc'[t] = pc[t] /\ next'[t] = next[t]
         /\ \/ next'[s] = next[s] /\ Distance[pc'[s]] < Distance[pc[s]]
            \/ next'[s] = next[s] + 1 /\ Distance[pc'[s]] <= Distance[pc[s]]
<1> USE Distances DEF TypeOK, Goto, Raise, Writes, SetStatus, Work, rowVars, dbVars, mailVars
<1>1. CASE CreateRow(s) \/ SetJoining(s) \/ SetRecording(s)
  BY <1>1 DEF CreateRow, SetJoining, SetRecording
<1>2. CASE SetTranscribing(s) \/ SetSummarising(s) \/ SetDelivering(s) \/ SetCompleted(s)
  BY <1>2 DEF SetTranscribing, SetSummarising, SetDelivering, SetCompleted
<1>3. CASE Store(s) \/ HandleFailure(s)
  BY <1>3 DEF Store, AfterStore, HandleFailure, EndTask
<1>4. CASE SendMail(s)
  BY <1>4 DEF SendMail, Deliver, NextRecipient
<1>5. CASE Trigger(s) \/ OpenBrowser(s) \/ JoinSucceeds(s) \/ JoinFails(s)
  BY <1>5 DEF Trigger, OpenBrowser, JoinSucceeds, JoinFails
<1>6. CASE Start(s) \/ StartFails(s) \/ Wait(s) \/ StopSucceeds(s) \/ StopFails(s)
  BY <1>6 DEF Start, StartFails, Wait, StopSucceeds, StopFails
<1>7. CASE Leave(s) \/ Extract(s) \/ Transcribe(s) \/ Summarise(s) \/ SendAborts(s)
  BY <1>7 DEF Leave, Extract, Transcribe, Summarise, SendAborts
<1>8. CASE ThreadReturns(s)
  BY <1>8 DEF ThreadReturns, Orphans
<1> QED
  BY <1>1, <1>2, <1>3, <1>4, <1>5, <1>6, <1>7, <1>8 DEF Step

(* A pipeline takes at most 20 steps and one per recipient: with a step of *)
(* it that is always possible while it is under way, and fairness, this is *)
(* why every pipeline ends.                                                *)
THEOREM StepsAreCounted ==
  Spec => /\ []\A s \in Sessions : StepsLeft(s) \in 0 .. 20 + NumEmails[s]
          /\ EveryStepCounts
<1> DEFINE Bounded == \A s \in Sessions : StepsLeft(s) \in 0 .. 20 + NumEmails[s]
<1>1. IInv => Bounded
  <2> SUFFICES ASSUME IInv, NEW s \in Sessions
               PROVE  StepsLeft(s) \in 0 .. 20 + NumEmails[s]
    OBVIOUS
  <2>1. /\ pc[s] \in Points /\ NumEmails[s] \in Nat /\ next[s] \in 1 .. NumEmails[s] + 1
    BY ConstantTypes DEF IInv, CoreInv, TypeOK, DeliveryInv
  <2>2. Distance[pc[s]] \in 0 .. 20
    BY <2>1, Distances
  <2> QED
    BY <2>1, <2>2 DEF StepsLeft
<1>2. ASSUME IInv, IInv', [Next]_vars, NEW t \in Sessions
      PROVE  Closer(t)
  <2> DEFINE D(p) == Distance[p]
  <2>0. /\ TypeOK /\ pc[t] \in Points /\ pc'[t] \in Points /\ NumEmails[t] \in Nat
        /\ next[t] \in Nat /\ next'[t] \in Nat
    BY <1>2, ConstantTypes DEF IInv, CoreInv, TypeOK
  <2>1. D(pc[t]) \in 0 .. 20 /\ D(pc'[t]) \in 0 .. 20
    BY <2>0, Distances
  <2>2. /\ StepsLeft(t) = D(pc[t]) + (NumEmails[t] + 1 - next[t])
        /\ StepsLeft(t)' = D(pc'[t]) + (NumEmails[t] + 1 - next'[t])
    BY DEF StepsLeft
  <2>3. ASSUME NEW s \in Sessions, Trigger(s) \/ Step(s)
        PROVE  StepsLeft(t)' <= StepsLeft(t) /\ (t = s => StepsLeft(t)' < StepsLeft(t))
    <3>1. /\ \A u \in Sessions \ {s} : pc'[u] = pc[u] /\ next'[u] = next[u]
          /\ \/ next'[s] = next[s] /\ Distance[pc'[s]] < Distance[pc[s]]
             \/ next'[s] = next[s] + 1 /\ Distance[pc'[s]] <= Distance[pc[s]]
      BY <2>0, <2>3, StepLeadsOn
    <3>2. CASE t # s
      BY <2>2, <2>0, <2>1, <3>1, <3>2
    <3>3. CASE t = s
      BY <2>0, <2>1, <2>2, <3>1, <3>3
    <3> QED BY <3>2, <3>3
  <2>4. CASE ~\E s \in Sessions : Trigger(s) \/ Step(s)
    <3>1. next'[t] = next[t] /\ (pc'[t] = pc[t] \/ D(pc'[t]) < D(pc[t]))
      <4>1. CASE RecordingHalts BY <4>1 DEF RecordingHalts, mailVars
      <4>2. CASE UNCHANGED vars BY <4>2 DEF vars, mailVars
      <4>3. CASE Crash \/ Cancel
        BY <2>0, <4>3, CutOff, Distances DEF EndTasks, Cut, mailVars, TypeOK
      <4> QED BY <1>2, <2>4, <4>1, <4>2, <4>3 DEF Next
    <3> QED BY <2>0, <2>1, <2>2, <2>4, <3>1 DEF Closer
  <2> QED
    BY <2>3, <2>4 DEF Closer
<1>3. IInv /\ IInv' /\ [Next]_vars => [\A s \in Sessions : Closer(s)]_vars
  BY <1>2
<1> QED
  BY <1>1, <1>3, PipelineInvariant, PTL DEF Spec, EveryStepCounts

-----------------------------------------------------------------------------
(* Pipeline implements MeetingLifecycle under the identity mapping of the  *)
(* status column and the report columns.                                   *)

LEMMA LifecycleInitial == Init => Lifecycle!LifecycleInit
BY DEF Init, Lifecycle!LifecycleInit

(* A write of a stage, acknowledged or not, is an Advance or a stutter. *)
LEMMA StageWrite ==
  ASSUME NEW s \in Sessions, NEW from \in DOMAIN Lifecycle!NextStage,
         NEW at, NEW to, status[s] = from,
         SetStatus(s, at, Lifecycle!NextStage[from], to)
  PROVE  Lifecycle!Advance(s) \/ UNCHANGED <<status, report>>
BY DEF SetStatus, Writes, WriteStatus, rowVars, dbVars, Lifecycle!Advance, Lifecycle!Move

LEMMA LifecycleStep ==
  IInv /\ [Next]_vars => [Lifecycle!LifecycleNext]_<<status, report>>
<1> SUFFICES ASSUME IInv, [Next]_vars
             PROVE  Lifecycle!LifecycleNext \/ UNCHANGED <<status, report>>
  BY DEF Lifecycle!lifecycleVars
<1>0. TypeOK /\ ProgressInv
  BY DEF IInv, CoreInv
<1> USE DEF rowVars, dbVars
<1>1. ASSUME NEW s \in Sessions, Trigger(s) \/ Step(s)
      PROVE  Lifecycle!LifecycleNext \/ UNCHANGED <<status, report>>
  <2> SUFFICES \/ UNCHANGED <<status, report>>
               \/ Lifecycle!Create(s) \/ Lifecycle!Advance(s)
               \/ Lifecycle!Persist(s) \/ Lifecycle!Fail(s)
    BY DEF Lifecycle!LifecycleNext
  <2>1. CASE CreateRow(s)
    BY <1>0, <2>1 DEF CreateRow, ProgressInv, Writes, WriteStatus,
                      Lifecycle!Create, Lifecycle!Move
  <2>2. CASE SetJoining(s)
    BY <1>0, <2>2, StageWrite DEF SetJoining, SetStatus, ProgressInv, Lifecycle!NextStage
  <2>3. CASE SetRecording(s)
    BY <1>0, <2>3, StageWrite DEF SetRecording, SetStatus, ProgressInv, Lifecycle!NextStage
  <2>4. CASE SetTranscribing(s)
    BY <1>0, <2>4, StageWrite DEF SetTranscribing, SetStatus, ProgressInv, Lifecycle!NextStage
  <2>5. CASE SetSummarising(s)
    BY <1>0, <2>5, StageWrite DEF SetSummarising, SetStatus, ProgressInv, Lifecycle!NextStage
  <2>6. CASE SetDelivering(s)
    BY <1>0, <2>6, StageWrite DEF SetDelivering, SetStatus, ProgressInv, Lifecycle!NextStage
  <2>7. CASE Store(s)
    BY <1>0, <2>7 DEF Store, Writes, WriteReport, ProgressInv, Lifecycle!Persist, Lifecycle!Move
  <2>8. CASE SetCompleted(s)
    <3>1. status[s] = "completed" BY <1>0, <2>8 DEF SetCompleted, SetStatus, ProgressInv
    <3>2. [status EXCEPT ![s] = "completed"] = status BY <1>0, <3>1 DEF TypeOK
    <3> QED BY <2>8, <3>2 DEF SetCompleted, SetStatus, Writes, WriteStatus
  <2>9. CASE HandleFailure(s)
    BY <1>0, <2>9 DEF HandleFailure, Writes, WriteFailed, ProgressInv,
                      Lifecycle!Fail, Lifecycle!Move
  <2>10. CASE \/ Trigger(s) \/ OpenBrowser(s) \/ JoinSucceeds(s) \/ JoinFails(s)
              \/ Start(s) \/ StartFails(s) \/ Wait(s) \/ StopSucceeds(s) \/ StopFails(s)
              \/ Leave(s) \/ Extract(s) \/ Transcribe(s) \/ Summarise(s)
              \/ SendMail(s) \/ SendAborts(s) \/ ThreadReturns(s)
    BY <2>10 DEF Trigger, OpenBrowser, JoinSucceeds, JoinFails, Start, StartFails, Wait,
                 StopSucceeds, StopFails, Leave, Extract, Transcribe, Summarise, Work,
                 SendMail, SendAborts, ThreadReturns
  <2> QED
    BY <1>1, <2>1, <2>2, <2>3, <2>4, <2>5, <2>6, <2>7, <2>8, <2>9, <2>10 DEF Step
<1>2. CASE RecordingHalts BY <1>2 DEF RecordingHalts
<1>3. CASE Crash \/ Cancel BY <1>3, CutOff DEF EndTasks
<1>4. CASE UNCHANGED vars BY <1>4 DEF vars
<1> QED
  BY <1>1, <1>2, <1>3, <1>4 DEF Next

(* What the status column shows is a run of the abstract lifecycle. *)
THEOREM PipelineImplementsLifecycle == Spec => ImplementsLifecycle
<1>1. IInv /\ [Next]_vars => [Lifecycle!LifecycleNext]_Lifecycle!lifecycleVars
  BY LifecycleStep DEF Lifecycle!lifecycleVars
<1> QED
  BY LifecycleInitial, <1>1, PipelineInvariant, PTL
  DEF Spec, ImplementsLifecycle, Lifecycle!LifecycleSpec

(* MeetingLifecycle's own theorems hold of the rows (they do not depend on *)
(* the panel, so any value will do for its constants).                     *)
Rows == INSTANCE StatusPanelProofs WITH Meetings <- Sessions, NoMeeting <- Nobody,
                                        MaxReadErrors <- 0

(* Whoever reads a row while the pipelines run, of whatever meeting, can   *)
(* rely on it: its progress does not fall back, the report stays, FAILED   *)
(* is final.                                                               *)
THEOREM RowsAreReliable == Spec => Lifecycle!NothingTakenBack
<1>1. Lifecycle!LifecycleInit <=> Rows!LifecycleInit
  BY DEF Lifecycle!LifecycleInit, Rows!LifecycleInit
<1>2. Lifecycle!LifecycleNext <=> Rows!LifecycleNext
  BY DEF Lifecycle!LifecycleNext, Lifecycle!Create, Lifecycle!Advance, Lifecycle!Persist,
         Lifecycle!Fail, Lifecycle!Move, Lifecycle!NextStage,
         Rows!LifecycleNext, Rows!Create, Rows!Advance, Rows!Persist, Rows!Fail, Rows!Move,
         Rows!NextStage, Rows!Stages
<1>3. Lifecycle!lifecycleVars = Rows!lifecycleVars
  BY DEF Lifecycle!lifecycleVars, Rows!lifecycleVars
<1>4. [Lifecycle!LifecycleNext]_Lifecycle!lifecycleVars
        => [Rows!LifecycleNext]_Rows!lifecycleVars
  BY <1>2, <1>3 DEF Lifecycle!lifecycleVars, Rows!lifecycleVars
<1>5. [\A m \in Sessions : Rows!Lasting(m)]_Rows!lifecycleVars
        => [\A m \in Sessions : Lifecycle!Lasting(m)]_Lifecycle!lifecycleVars
  BY DEF Lifecycle!lifecycleVars, Rows!lifecycleVars, Lifecycle!Lasting, Rows!Lasting,
         Lifecycle!StatusStep, Rows!StatusStep, Rows!Statuses, Rows!Terminal, Rows!Stages
<1>6. Rows!LifecycleSpec => Rows!NothingTakenBack
  BY NobodyAssumption, 0 \in Nat, Rows!RowsTakeNothingBack
<1> QED
  BY <1>1, <1>4, <1>5, <1>6, PipelineImplementsLifecycle, PTL
  DEF ImplementsLifecycle, Lifecycle!LifecycleSpec, Rows!LifecycleSpec,
      Lifecycle!NothingTakenBack, Rows!NothingTakenBack

-----------------------------------------------------------------------------
(* Dashboard: the server and the page together.                            *)

PanelFacts == INSTANCE StatusPanelProofs WITH Meetings <- Sessions

LEMMA PageLeavesServer == PageMoves => UNCHANGED vars
BY DEF PageMoves, SubmitNew, AcceptedByServer, Panel!Submit, Panel!Accepted, Panel!Rejected,
       Panel!Tick, Panel!Answer, Panel!Leave, Panel!ServerReads, Panel!ReplyArrives,
       Panel!RequestFails, serverVars, vars, dbVars, rowVars

(* The page does nothing to the server: it runs as it does alone, and all  *)
(* theorems about Spec hold behind the page.                               *)
THEOREM ServerRunsAsAlone == DashboardSpec => Spec
<1>1. DashboardInit => Init
  BY DEF DashboardInit
<1>2. [DashboardNext]_dashboardVars => [Next]_vars
  BY PageLeavesServer DEF DashboardNext, ServerMoves, dashboardVars
<1> QED
  BY <1>1, <1>2, PTL DEF DashboardSpec, Spec

LEMMA SameRows ==
  /\ Lifecycle!LifecycleInit <=> Panel!LifecycleInit
  /\ Lifecycle!LifecycleNext <=> Panel!LifecycleNext
BY DEF Lifecycle!LifecycleInit, Panel!LifecycleInit,
       Lifecycle!LifecycleNext, Lifecycle!Create, Lifecycle!Advance, Lifecycle!Persist,
       Lifecycle!Fail, Lifecycle!Move, Lifecycle!NextStage,
       Panel!LifecycleNext, Panel!Create, Panel!Advance, Panel!Persist, Panel!Fail, Panel!Move,
       Panel!NextStage, Panel!Stages

(* A step of a pipeline is a move of the rows, or nothing, for the page. *)
LEMMA ServesStep == IInv /\ [DashboardNext]_dashboardVars => [Panel!Next]_Panel!vars
<1> SUFFICES ASSUME IInv, [DashboardNext]_dashboardVars PROVE [Panel!Next]_Panel!vars
  OBVIOUS
<1> USE DEF Panel!vars, Panel!panelVars, pageVars
<1>1. CASE ServerMoves
  <2>1. Lifecycle!LifecycleNext \/ UNCHANGED <<status, report>>
    BY <1>1, LifecycleStep DEF ServerMoves
  <2>2. UNCHANGED pageVars
    BY <1>1 DEF ServerMoves
  <2> QED
    BY <2>1, <2>2, SameRows DEF Panel!Next, Panel!RowMoves
<1>2. CASE PageMoves
  BY <1>2 DEF PageMoves, SubmitNew, AcceptedByServer, Panel!Next
<1>3. CASE UNCHANGED dashboardVars
  BY <1>3 DEF dashboardVars, vars, dbVars, rowVars
<1> QED
  BY <1>1, <1>2, <1>3 DEF DashboardNext

(* The pipelines, with their failures, crashes and cancellations, are a    *)
(* server as StatusPanel expects it.                                       *)
THEOREM ServerServesPanel == DashboardSpec => ServesPanel
<1>1. DashboardInit => Panel!Init
  BY DEF DashboardInit
<1> QED
  BY <1>1, ServesStep, ServerRunsAsAlone, PipelineInvariant, PTL
  DEF DashboardSpec, ServesPanel, Panel!Spec

(* A pipeline starts once. *)
LEMMA StartsOnce ==
  ASSUME TypeOK, [Next]_vars, NEW t \in Sessions, pc[t] # "idle"
  PROVE  pc'[t] # "idle"
<1>1. ASSUME NEW s \in Sessions, Trigger(s) \/ Step(s)
      PROVE  pc'[t] # "idle"
  <2>1. pc[t] \in Points /\ Distance[pc[t]] \in 0 .. 19
    BY DEF TypeOK, Points, Distance, Orphans
  <2>2. Distance[pc'[t]] <= Distance[pc[t]] \/ pc'[t] = pc[t]
    <3>1. CASE t # s BY <1>1, <3>1, StepLeadsOn
    <3>2. CASE t = s
      <4>1. \/ Distance[pc'[s]] < Distance[pc[s]]
            \/ Distance[pc'[s]] <= Distance[pc[s]]
        BY <1>1, StepLeadsOn
      <4>2. pc'[s] \in Points
        BY <1>1, TypeStep DEF TypeOK, Next
      <4> QED BY <2>1, <3>2, <4>1, <4>2, Distances
    <3> QED BY <3>1, <3>2
  <2> QED
    BY <2>1, <2>2, Distances
<1>2. CASE RecordingHalts BY <1>2 DEF RecordingHalts
<1>3. CASE UNCHANGED vars BY <1>3 DEF vars
<1>4. CASE Crash \/ Cancel
  BY <1>4, CutOff DEF EndTasks, Cut, Orphans
<1> QED
  BY <1>1, <1>2, <1>3, <1>4 DEF Next

(* The meeting on the panel was accepted. *)
Known == session \in Sessions \cup {NoMeeting} /\ (session # NoMeeting => pc[session] # "idle")

LEMMA KnownStep ==
  ASSUME TypeOK, Panel!TypeOK, Panel!TypeOK', Known, [DashboardNext]_dashboardVars
  PROVE  Known'
<1>0. session' \in Sessions \cup {NoMeeting}
  BY DEF Panel!TypeOK
<1>1. CASE ServerMoves
  BY <1>1, StartsOnce DEF Known, ServerMoves, pageVars
<1>2. CASE PageMoves
  <2>1. UNCHANGED pc
    BY <1>2, PageLeavesServer DEF vars
  <2>2. session' = session \/ (session' = launching /\ pc[launching] # "idle")
    BY <1>2 DEF PageMoves, SubmitNew, AcceptedByServer, Panel!Submit, Panel!Accepted,
                Panel!Rejected, Panel!Tick, Panel!Answer, Panel!Leave, Panel!ServerReads,
                Panel!ReplyArrives, Panel!RequestFails, Panel!panelVars
  <2> QED
    BY <1>0, <2>1, <2>2 DEF Known
<1>3. CASE UNCHANGED dashboardVars
  BY <1>3 DEF Known, dashboardVars, vars, pageVars
<1> QED
  BY <1>1, <1>2, <1>3 DEF DashboardNext

(* The facts of the two sides, put together: what the page has seen of a   *)
(* row holds of the row, and what holds of the row holds of the pipeline.  *)
LEMMA TruthFollows ==
  ASSUME PanelConstants, IInv, Known, Panel!TypeOK, Panel!NotifiedOnceAtEnd,
         Panel!EndsAreBacked
  PROVE  ToldTheTruth
<1>0. TypeOK /\ ProgressInv /\ OwnMeetingRecorded /\ ReportMatchesStatus /\ OutcomeKnown
  BY DEF IInv, CoreInv
<1>1. ASSUME NEW s \in Sessions, notified[s] > 0
      PROVE  pc[s] \in {"send", "setCompleted", "handle", "done", "lost"}
  <2>1. status[s] \in {"completed", "failed"}
    BY <1>1 DEF Panel!NotifiedOnceAtEnd, Panel!Terminal
  <2>2. pc[s] \in Points
    BY <1>0 DEF TypeOK
  <2> QED
    BY <1>0, <2>1, <2>2 DEF ProgressInv, Points
<1>2. ASSUME NEW s \in Sessions, shown.meeting = s
      PROVE  Panel!Backed(shown.status, s)
  BY <1>2 DEF PanelConstants, Panel!EndsAreBacked
<1>3. ASSUME NEW s \in Sessions, shown.meeting = s, shown.status = "completed"
      PROVE  report[s] /\ s \in audio[s] /\ recorder # s
  BY <1>0, <1>2, <1>3 DEF Panel!Backed, OwnMeetingRecorded, ReportMatchesStatus
<1>4. ASSUME NEW s \in Sessions, shown.meeting = s, shown.status = "failed"
      PROVE  pc[s] = "done"
  BY <1>0, <1>2, <1>4 DEF Panel!Backed, OutcomeKnown
<1> QED
  BY <1>1, <1>3, <1>4 DEF ToldTheTruth, Known

(* Panel and PanelFacts are the same module twice: with and without proofs. *)
LEMMA SamePanel == [Panel!Next]_Panel!vars => [PanelFacts!Next]_PanelFacts!vars
BY DEF Panel!Next, PanelFacts!Next, Panel!Submit, PanelFacts!Submit, Panel!Accepted,
       PanelFacts!Accepted, Panel!Rejected, PanelFacts!Rejected, Panel!Tick, PanelFacts!Tick,
       Panel!Answer, PanelFacts!Answer, Panel!Leave, PanelFacts!Leave, Panel!RowMoves,
       PanelFacts!RowMoves, Panel!FetchStatus, PanelFacts!FetchStatus, Panel!ServerReads,
       PanelFacts!ServerReads, Panel!ReplyArrives, PanelFacts!ReplyArrives, Panel!RequestFails,
       PanelFacts!RequestFails, Panel!Current, PanelFacts!Current, Panel!Over, PanelFacts!Over,
       Panel!StopPolling, PanelFacts!StopPolling, Panel!Settle, PanelFacts!Settle,
       Panel!Terminal, PanelFacts!Terminal, Panel!vars, PanelFacts!vars, Panel!panelVars,
       PanelFacts!panelVars, Panel!LifecycleNext, PanelFacts!LifecycleNext, Panel!Create,
       PanelFacts!Create, Panel!Advance, PanelFacts!Advance, Panel!Persist, PanelFacts!Persist,
       Panel!Fail, PanelFacts!Fail, Panel!Move, PanelFacts!Move, Panel!NextStage,
       PanelFacts!NextStage, Panel!Stages, PanelFacts!Stages

LEMMA SameFacts ==
  /\ PanelFacts!TypeOK => Panel!TypeOK
  /\ PanelFacts!NotifiedOnceAtEnd => Panel!NotifiedOnceAtEnd
  /\ PanelFacts!EndsAreBacked => Panel!EndsAreBacked
BY DEF Panel!TypeOK, PanelFacts!TypeOK, Panel!LifecycleTypeOK, PanelFacts!LifecycleTypeOK,
       Panel!Answers, PanelFacts!Answers, Panel!Requests, PanelFacts!Requests, Panel!Statuses,
       PanelFacts!Statuses, Panel!Stages, PanelFacts!Stages, Panel!Terminal,
       PanelFacts!Terminal, Panel!NotifiedOnceAtEnd, PanelFacts!NotifiedOnceAtEnd,
       Panel!EndsAreBacked, PanelFacts!EndsAreBacked, Panel!Backed, PanelFacts!Backed

(* What the page tells the user is true of the host. *)
THEOREM PageTellsTheTruth ==
  ASSUME PanelConstants
  PROVE  DashboardSpec => []ToldTheTruth
<1> USE DEF PanelConstants
<1>1. Panel!Spec => [](Panel!TypeOK /\ Panel!NotifiedOnceAtEnd /\ Panel!EndsAreBacked)
  <2>1. Panel!Spec => PanelFacts!Spec
    <3>1. Panel!Init => PanelFacts!Init
      BY DEF Panel!Init, PanelFacts!Init, Panel!LifecycleInit, PanelFacts!LifecycleInit
    <3> QED
      BY <3>1, SamePanel, PTL DEF Panel!Spec, PanelFacts!Spec
  <2>2. PanelFacts!PInv => Panel!TypeOK /\ Panel!NotifiedOnceAtEnd /\ Panel!EndsAreBacked
    BY SameFacts DEF PanelFacts!PInv, PanelFacts!PollsInv, PanelFacts!BackedInv
  <2>3. PanelFacts!Spec => []PanelFacts!PInv
    BY PanelFacts!PanelInvariant
  <2> QED
    BY <2>1, <2>2, <2>3, PTL
<1>2. DashboardInit => Known
  BY DEF DashboardInit, Panel!Init, Known
<1>3. DashboardSpec => []Known
  BY <1>1, <1>2, KnownStep, ServerServesPanel, ServerRunsAsAlone, PipelineTypeCorrect, PTL
  DEF DashboardSpec, ServesPanel
<1> QED
  BY <1>1, <1>3, TruthFollows, ServerServesPanel, ServerRunsAsAlone, PipelineInvariant, PTL
  DEF ServesPanel
=============================================================================
