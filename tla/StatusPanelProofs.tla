------------------------- MODULE StatusPanelProofs -------------------------
(* Proofs about the status panel, for any set of meetings. *)
EXTENDS StatusPanel, TLAPS

(* The steps of the progress bar, and which of them mean the end. *)
LEMMA Steps ==
  \A st \in Statuses : StatusStep[st] \in 0 .. 6 /\ (st \in Terminal <=> StatusStep[st] = 6)
  BY DEF Statuses, Stages, Terminal, StatusStep

LEMMA PendingIsFirst == StatusStep["absent"] = 0
  BY DEF Statuses, Stages, Terminal, StatusStep

(* A row never falls back: its step grows, and an end stays an end. *)
LEMMA RowsAdvance ==
  ASSUME LifecycleTypeOK, LifecycleNext
  PROVE  /\ LifecycleTypeOK'
         /\ \A m \in Meetings : StatusStep[status[m]] <= StatusStep[status'[m]]
  <1>1. PICK m \in Meetings : Create(m) \/ Advance(m) \/ Persist(m) \/ Fail(m)
    BY DEF LifecycleNext
  <1>2. \E from, to \in Statuses : Move(m, from, to) /\ StatusStep[from] <= StatusStep[to]
    <2>1. CASE Create(m)
      BY <2>1, Steps DEF Create, Statuses, Stages, Terminal, StatusStep
    <2>2. CASE Advance(m)
      <3>1. PICK st \in DOMAIN NextStage : Move(m, st, NextStage[st])
        BY <2>2 DEF Advance
      <3>2. /\ st \in Statuses /\ NextStage[st] \in Statuses
            /\ StatusStep[st] <= StatusStep[NextStage[st]]
        BY DEF NextStage, Statuses, Stages, Terminal, StatusStep
      <3> QED BY <3>1, <3>2
    <2>3. CASE Persist(m)
      BY <2>3 DEF Persist, Statuses, Stages, Terminal, StatusStep
    <2>4. CASE Fail(m)
      <3>1. PICK st \in Stages \cup {"completed"} : Move(m, st, "failed")
        BY <2>4 DEF Fail
      <3>2. /\ st \in Statuses /\ "failed" \in Statuses
            /\ StatusStep[st] <= StatusStep["failed"]
        BY DEF Statuses, Stages, Terminal, StatusStep
      <3> QED BY <3>1, <3>2
    <2> QED BY <1>1, <2>1, <2>2, <2>3, <2>4
  <1>3. report' \in [Meetings -> BOOLEAN]
    BY <1>1 DEF Create, Advance, Persist, Fail, LifecycleTypeOK
  <1>4. PICK from, to \in Statuses : Move(m, from, to) /\ StatusStep[from] <= StatusStep[to]
    BY <1>2
  <1>5. \A n \in Meetings : StatusStep[status[n]] \in 0 .. 6
    BY Steps DEF LifecycleTypeOK
  <1> QED BY <1>3, <1>4, <1>5 DEF Move, LifecycleTypeOK

LEMMA InitPolls == Init => PollsInv
  <1> SUFFICES ASSUME Init PROVE PollsInv
    OBVIOUS
  <1>1. LifecycleTypeOK
    BY DEF Init, LifecycleInit, LifecycleTypeOK, Statuses
  <1>2. shown \in [meeting : Meetings \cup {NoMeeting}, status : Statuses]
    BY DEF Init, Statuses
  <1>3. TypeOK
    <2>1. readErrors \in 0 .. MaxReadErrors
      BY ReadErrorsAssumption DEF Init
    <2>2. notified \in [Meetings -> 0 .. 2]
      BY DEF Init
    <2> QED BY <1>1, <1>2, <2>1, <2>2 DEF Init, TypeOK
  <1>4. PollInv
    BY DEF Init, PollInv
  <1> QED BY <1>3, <1>4 DEF Init, PollsInv, NotifiedOnceAtEnd

(* A meeting is sent, or cannot be started. *)
LEMMA SubmitStep ==
  ASSUME PollsInv, Rejected \/ \E m \in Meetings : Submit(m)
  PROVE  PollsInv'
  <1> USE NoMeetingAssumption DEF PollsInv
  <1>1. CASE Rejected
    BY <1>1 DEF Rejected, TypeOK, LifecycleTypeOK, PollInv, Current, Behind, NotifiedOnceAtEnd
  <1>2. ASSUME NEW m \in Meetings, Submit(m) PROVE PollsInv'
    <2>1. /\ m \notin started /\ m # session /\ notified[m] = 0
          /\ \A r \in requests : r.meeting # m
      BY <1>2 DEF Submit, TypeOK, PollInv
    <2>2. /\ started' = started \cup {m} /\ launching' = m
          /\ UNCHANGED <<status, report, open, session, polling, shown, error, notified,
                         fetching, requests, readErrors>>
      BY <1>2 DEF Submit
    <2>3. TypeOK'
      BY <2>2 DEF TypeOK, LifecycleTypeOK
    <2>4. PollInv'
      BY <2>1, <2>2 DEF PollInv, Current, Behind
    <2> QED BY <2>2, <2>3, <2>4 DEF NotifiedOnceAtEnd
  <1> QED BY <1>1, <1>2

(* A poll, by the effect of a new meeting or by the interval. *)
LEMMA PollStep ==
  ASSUME PollsInv, Tick \/ Accepted
  PROVE  PollsInv'
  <1> USE NoMeetingAssumption DEF PollsInv
  <1>1. ASSUME NEW m \in Meetings, FetchStatus(m)
        PROVE  /\ fetching' = TRUE
               /\ requests' \in SUBSET Requests
               /\ \/ requests' = requests
                  \/ requests' = {[meeting |-> m, answer |-> "unread"]}
    <2>1. CASE fetching
      BY <1>1, <2>1 DEF FetchStatus, TypeOK
    <2>2. CASE ~fetching
      <3>1. requests' = {[meeting |-> m, answer |-> "unread"]} /\ fetching' = TRUE
        BY <1>1, <2>2 DEF FetchStatus, PollInv
      <3> QED BY <3>1 DEF Requests, Answers
    <2> QED BY <2>1, <2>2
  <1>2. CASE Tick
    <2>1. session \in Meetings /\ session \in started /\ FetchStatus(session)
          /\ notified[session] = 0
          /\ UNCHANGED <<status, report, panelVars, readErrors>>
      BY <1>2 DEF Tick, TypeOK, PollInv
    <2>2. TypeOK'
      BY <1>1, <2>1 DEF TypeOK, LifecycleTypeOK, panelVars
    <2>3. PollInv'
      <3>1. CASE requests' = requests
        BY <1>1, <2>1, <3>1 DEF PollInv, Current, Behind, panelVars
      <3>2. CASE requests' = {[meeting |-> session, answer |-> "unread"]}
        <4>1. \A r \in requests' : r.meeting = session /\ r.answer = "unread"
          BY <3>2
        <4>2. \A r, q \in requests' : r = q
          BY <3>2
        <4> QED BY <1>1, <2>1, <4>1, <4>2 DEF PollInv, Current, Behind, panelVars
      <3> QED BY <1>1, <2>1, <3>1, <3>2
    <2> QED BY <2>1, <2>2, <2>3 DEF NotifiedOnceAtEnd, panelVars
  <1>3. CASE Accepted /\ ~open
    <2>1. /\ launching' = NoMeeting
          /\ UNCHANGED <<status, report, open, started, session, polling, shown, error,
                         notified, fetching, requests, readErrors>>
      BY <1>3 DEF Accepted
    <2> QED BY <2>1 DEF TypeOK, LifecycleTypeOK, PollInv, Current, Behind, NotifiedOnceAtEnd
  <1>4. CASE Accepted /\ open
    <2> DEFINE m == launching
    <2> HIDE DEF m
    <2>1. /\ m \in Meetings /\ FetchStatus(m) /\ m \in started /\ notified[m] = 0
          /\ \A r \in requests : r.meeting # m
      BY <1>4 DEF Accepted, TypeOK, PollInv, m
    <2>2. /\ launching' = NoMeeting /\ session' = m /\ polling' = TRUE
          /\ UNCHANGED <<status, report, open, started, shown, error, notified, readErrors>>
      BY <1>4 DEF Accepted, m
    <2>3. TypeOK'
      BY <1>1, <2>1, <2>2 DEF TypeOK, LifecycleTypeOK
    <2>4. PollInv'
      <3>1. \A r \in requests' :
              /\ r.meeting \in started'
              /\ Current(r)' => notified'[r.meeting] = 0
              /\ r.answer # "unread" =>
                   /\ Behind(r.answer, r.meeting)'
                   /\ r.meeting = shown'.meeting /\ r.answer # "absent"
                        => StatusStep[shown'.status] <= StatusStep[r.answer]
        <4>1. CASE requests' = requests
          BY <2>1, <2>2, <4>1 DEF PollInv, Current, Behind
        <4>2. CASE requests' = {[meeting |-> m, answer |-> "unread"]}
          BY <2>1, <2>2, <4>2 DEF Current
        <4> QED BY <1>1, <2>1, <4>1, <4>2
      <3>2. /\ fetching' = TRUE /\ \A r, q \in requests' : r = q
            /\ m # NoMeeting /\ notified'[m] = 0
        BY <1>1, <2>1, <2>2 DEF PollInv
      <3> QED BY <1>4, <2>1, <2>2, <3>1, <3>2 DEF PollInv, Behind
    <2> QED BY <2>2, <2>3, <2>4 DEF NotifiedOnceAtEnd
  <1> QED BY <1>2, <1>3, <1>4

(* The server reads the row. *)
LEMMA ReadStep ==
  ASSUME PollsInv, NEW r \in requests, ServerReads(r)
  PROVE  PollsInv'
  <1> USE NoMeetingAssumption DEF PollsInv
  <1>1. requests = {r} /\ r \in Requests /\ r.meeting \in Meetings /\ fetching
    BY DEF TypeOK, PollInv, Requests
  <1>2. PICK st \in {status[r.meeting], "absent"} :
          requests' = {[r EXCEPT !.answer = st]}
    BY <1>1 DEF ServerReads
  <1>3. /\ st \in Statuses /\ [r EXCEPT !.answer = st] \in Requests
        /\ [r EXCEPT !.answer = st].meeting = r.meeting
        /\ [r EXCEPT !.answer = st].answer = st
        /\ "absent" \in Statuses
    BY <1>1 DEF TypeOK, LifecycleTypeOK, Statuses, Requests, Answers
  <1>4. /\ UNCHANGED <<status, report, panelVars, fetching>>
        /\ readErrors' \in 0 .. MaxReadErrors
    BY ReadErrorsAssumption DEF ServerReads, TypeOK
  <1>5. TypeOK'
    BY <1>2, <1>3, <1>4 DEF TypeOK, LifecycleTypeOK, panelVars
  <1>6. StatusStep[st] <= StatusStep[status[r.meeting]]
    BY <1>1, <1>3, Steps, PendingIsFirst DEF TypeOK, LifecycleTypeOK
  <1>7. r.meeting = shown.meeting /\ st # "absent"
          => StatusStep[shown.status] <= StatusStep[st]
    BY <1>1, <1>2 DEF PollInv, Behind
  <1>8. PollInv'
    BY <1>1, <1>2, <1>3, <1>4, <1>6, <1>7 DEF PollInv, Current, Behind, panelVars
  <1> QED BY <1>4, <1>5, <1>8 DEF NotifiedOnceAtEnd, panelVars

(* The answer arrives. *)
LEMMA ReplyStep ==
  ASSUME PollsInv, NEW r \in requests, ReplyArrives(r)
  PROVE  PollsInv'
  <1> USE NoMeetingAssumption DEF PollsInv
  <1>1. requests' = {} /\ fetching' = FALSE /\ r.meeting \in Meetings /\ r.answer \in Statuses
    BY DEF ReplyArrives, Settle, TypeOK, PollInv, Requests, Answers
  <1>2. UNCHANGED <<status, report, open, launching, started, session, error, readErrors>>
    BY DEF ReplyArrives
  <1>3. /\ r.meeting \in started /\ Behind(r.answer, r.meeting)
        /\ Current(r) => notified[r.meeting] = 0
    BY DEF ReplyArrives, PollInv
  <1>4. CASE Current(r) /\ Over(r.answer)
    <2>1. /\ shown' = [meeting |-> r.meeting, status |-> r.answer]
          /\ polling' = FALSE
          /\ notified' = [notified EXCEPT ![r.meeting] = 1]
      <3>1. shown' = [meeting |-> r.meeting, status |-> r.answer]
        BY <1>4 DEF ReplyArrives
      <3>2. polling' = FALSE
        BY <1>4 DEF ReplyArrives, StopPolling
      <3>3. notified' = [notified EXCEPT ![r.meeting] = 1]
        <4>1. notified[r.meeting] = 0
          BY <1>3, <1>4
        <4>2. notified' = IF notified[r.meeting] < 2
                          THEN [notified EXCEPT ![r.meeting] = notified[r.meeting] + 1]
                          ELSE notified
          BY <1>4 DEF ReplyArrives
        <4> QED BY <4>1, <4>2
      <3> QED BY <3>1, <3>2, <3>3
    <2>2. status[r.meeting] \in Terminal
      BY <1>1, <1>3, <1>4, Steps DEF Over, Behind, TypeOK, LifecycleTypeOK
    <2>3. TypeOK'
      <3>1. shown' \in [meeting : Meetings \cup {NoMeeting}, status : Statuses]
        BY <1>1, <2>1
      <3>2. notified' \in [Meetings -> 0 .. 2]
        BY <1>1, <2>1 DEF TypeOK
      <3> QED BY <1>1, <1>2, <2>1, <3>1, <3>2 DEF TypeOK, LifecycleTypeOK
    <2>4. PollInv'
      BY <1>1, <1>2, <1>3, <2>1 DEF TypeOK, PollInv, Behind
    <2>5. NotifiedOnceAtEnd'
      BY <1>1, <1>2, <2>1, <2>2 DEF TypeOK, NotifiedOnceAtEnd
    <2> QED BY <2>3, <2>4, <2>5
  <1>5. CASE Current(r) /\ ~Over(r.answer)
    <2>1. /\ shown' = [meeting |-> r.meeting, status |-> r.answer]
          /\ polling' = polling /\ notified' = notified
      BY <1>5 DEF ReplyArrives, StopPolling, TypeOK
    <2> QED
      BY <1>1, <1>2, <1>3, <2>1
      DEF TypeOK, LifecycleTypeOK, PollInv, Behind, NotifiedOnceAtEnd
  <1>6. CASE ~Current(r)
    <2>1. shown' = shown /\ polling' = polling /\ notified' = notified
      BY <1>6 DEF ReplyArrives, StopPolling, TypeOK
    <2> QED
      BY <1>1, <1>2, <2>1
      DEF TypeOK, LifecycleTypeOK, PollInv, Behind, NotifiedOnceAtEnd
  <1> QED BY <1>4, <1>5, <1>6

(* A failed request, leaving the page. *)
LEMMA StopStep ==
  ASSUME PollsInv, Leave \/ \E r \in requests : RequestFails(r)
  PROVE  PollsInv'
  <1> USE NoMeetingAssumption DEF PollsInv
  <1>1. CASE Leave
    BY <1>1 DEF Leave, TypeOK, LifecycleTypeOK, PollInv, Current, Behind, NotifiedOnceAtEnd
  <1>2. ASSUME NEW r \in requests, RequestFails(r) PROVE PollsInv'
    <2>1. requests' = {} /\ fetching' = FALSE /\ r.meeting \in Meetings
      BY <1>2 DEF RequestFails, Settle, TypeOK, PollInv, Requests
    <2>2. /\ error' \in Meetings \cup {NoMeeting} /\ polling' \in BOOLEAN
          /\ polling' => polling
          /\ UNCHANGED <<status, report, open, launching, started, session, shown, notified,
                         readErrors>>
      BY <1>2, <2>1 DEF RequestFails, TypeOK
    <2> QED
      BY <2>1, <2>2 DEF TypeOK, LifecycleTypeOK, PollInv, Behind, NotifiedOnceAtEnd
  <1> QED BY <1>1, <1>2

(* The rows move on below what has been read of them. *)
LEMMA RowStep == ASSUME PollsInv, RowMoves PROVE PollsInv'
  <1> USE NoMeetingAssumption DEF PollsInv
  <1>1. /\ LifecycleTypeOK'
        /\ \A m \in Meetings : StatusStep[status[m]] <= StatusStep[status'[m]]
    BY RowsAdvance DEF RowMoves, TypeOK
  <1>2. UNCHANGED <<panelVars, fetching, requests, readErrors>>
    BY DEF RowMoves
  <1>3. TypeOK'
    BY <1>1, <1>2 DEF TypeOK, panelVars
  <1>4. \A st \in Statuses, m \in Meetings : Behind(st, m) => Behind(st, m)'
    <2>1. \A m \in Meetings : status[m] \in Statuses /\ status'[m] \in Statuses
      BY <1>1 DEF TypeOK, LifecycleTypeOK
    <2> QED BY <1>1, <2>1, Steps DEF Behind
  <1>5. \A r \in requests : r.meeting \in Meetings /\ (r.answer # "unread" => r.answer \in Statuses)
    BY DEF TypeOK, Requests, Answers
  <1>6. shown.status \in Statuses /\ shown.meeting \in Meetings \cup {NoMeeting}
    BY DEF TypeOK
  <1>7. PollInv'
    BY <1>2, <1>4, <1>5, <1>6 DEF PollInv, Current, panelVars
  <1>8. NotifiedOnceAtEnd'
    <2>1. \A m \in Meetings : status[m] \in Terminal => status'[m] \in Terminal
      BY <1>1, Steps DEF TypeOK, LifecycleTypeOK
    <2> QED BY <1>2, <2>1 DEF NotifiedOnceAtEnd, panelVars
  <1> QED BY <1>2, <1>3, <1>7, <1>8 DEF panelVars

LEMMA PollsStep == PollsInv /\ [Next]_vars => PollsInv'
  <1> SUFFICES ASSUME PollsInv, [Next]_vars PROVE PollsInv'
    OBVIOUS
  <1>1. CASE UNCHANGED vars
    BY <1>1 DEF vars, panelVars, PollsInv, TypeOK, LifecycleTypeOK, PollInv, Current, Behind,
                NotifiedOnceAtEnd
  <1>2. CASE Tick \/ Accepted
    BY <1>2, PollStep
  <1>6. CASE Rejected \/ \E m \in Meetings : Submit(m)
    BY <1>6, SubmitStep
  <1>3. CASE Answer
    BY <1>3, ReadStep, ReplyStep, StopStep DEF Answer
  <1>4. CASE Leave
    BY <1>4, StopStep
  <1>5. CASE RowMoves
    BY <1>5, RowStep
  <1> QED BY <1>1, <1>2, <1>3, <1>4, <1>5, <1>6 DEF Next

-----------------------------------------------------------------------------
(* What the panel says of an end is backed by the row.                     *)

(* A row that moves makes nothing untrue that could be read of it. *)
LEMMA RowsLast ==
  ASSUME LifecycleInv, LifecycleNext
  PROVE  LifecycleInv' /\ \A m \in Meetings : Lasting(m)
  <1>0. LifecycleTypeOK /\ ReportUnderEnd
    BY DEF LifecycleInv
  <1>1. LifecycleTypeOK' /\ \A m \in Meetings : StatusStep[status[m]] <= StatusStep[status'[m]]
    BY <1>0, RowsAdvance
  <1>2. PICK m \in Meetings : Create(m) \/ Advance(m) \/ Persist(m) \/ Fail(m)
    BY DEF LifecycleNext
  <1>3. /\ \A n \in Meetings : report[n] => report'[n]
        /\ \A n \in Meetings : status[n] = "failed" => status'[n] = "failed"
        /\ ReportUnderEnd'
    <2> USE <1>0 DEF LifecycleTypeOK, ReportUnderEnd, Move, Terminal
    <2>1. CASE Create(m)
      BY <2>1 DEF Create
    <2>2. CASE Advance(m)
      BY <2>2 DEF Advance, NextStage
    <2>3. CASE Persist(m)
      BY <2>3 DEF Persist
    <2>4. CASE Fail(m)
      BY <2>4 DEF Fail, Stages
    <2> QED BY <1>2, <2>1, <2>2, <2>3, <2>4
  <1> QED BY <1>1, <1>3 DEF Lasting, LifecycleInv

LEMMA RowsInit == LifecycleInit => LifecycleInv
  BY DEF LifecycleInit, LifecycleInv, LifecycleTypeOK, ReportUnderEnd, Statuses

LEMMA RowsStep ==
  LifecycleInv /\ [LifecycleNext]_lifecycleVars
    => LifecycleInv' /\ [\A m \in Meetings : Lasting(m)]_lifecycleVars
  BY RowsLast DEF lifecycleVars, LifecycleInv, LifecycleTypeOK, ReportUnderEnd

(* COMPLETED and the report go together, whoever moves the rows. *)
THEOREM RowsKeepTheirWord == LifecycleSpec => []LifecycleInv
  BY RowsInit, RowsStep, PTL DEF LifecycleSpec

(* What was read of a row once holds from then on: the progress does not   *)
(* fall back, the report stays, FAILED is final.  This is what allows a    *)
(* client to show an answer that is old.                                   *)
THEOREM RowsTakeNothingBack == LifecycleSpec => NothingTakenBack
  BY RowsStep, RowsKeepTheirWord, PTL DEF LifecycleSpec, NothingTakenBack

LEMMA InitBacked == Init => BackedInv
  BY RowsInit DEF Init, BackedInv, EndsAreBacked, LifecycleInv

LEMMA BackedStep == PollsInv /\ BackedInv /\ [Next]_vars => BackedInv'
  <1> SUFFICES ASSUME PollsInv, BackedInv, [Next]_vars PROVE BackedInv'
    OBVIOUS
  <1> USE DEF BackedInv
  <1>0. /\ TypeOK /\ LifecycleTypeOK /\ "unread" \notin {"completed", "failed"}
        /\ requests \subseteq Requests
    BY DEF PollsInv, TypeOK
  <1>1. CASE UNCHANGED <<status, report, shown>> /\ requests' \subseteq requests
    BY <1>1 DEF ReportUnderEnd, EndsAreBacked, Backed
  <1>2. ASSUME NEW m, FetchStatus(m), UNCHANGED <<status, report, shown>>
        PROVE  BackedInv'
    <2>1. \A r \in requests' : r \in requests \/ r.answer = "unread"
      BY <1>2 DEF FetchStatus
    <2> QED
      BY <1>2, <2>1 DEF ReportUnderEnd, EndsAreBacked, Backed
  <1>3. ASSUME NEW r \in requests, ServerReads(r)
        PROVE  BackedInv'
    <2>1. r \in Requests /\ r.meeting \in Meetings
      BY <1>0 DEF Requests
    <2>2. \A q \in requests' : \/ q \in requests
                               \/ /\ q.meeting = r.meeting
                                  /\ q.answer \in {status[r.meeting], "absent"}
      BY <1>3, <2>1 DEF ServerReads, Requests
    <2>3. Backed(status[r.meeting], r.meeting) /\ Backed("absent", r.meeting)
      BY <2>1 DEF ReportUnderEnd, Backed
    <2>4. \A q \in requests' : Backed(q.answer, q.meeting)
      BY <2>2, <2>3
    <2> QED
      BY <1>3, <2>4 DEF ServerReads, panelVars, ReportUnderEnd, EndsAreBacked, Backed
  <1>4. ASSUME NEW r \in requests, ReplyArrives(r)
        PROVE  BackedInv'
    <2>1. requests' \subseteq requests /\ UNCHANGED <<status, report>>
      BY <1>4 DEF ReplyArrives, Settle
    <2>2. shown' = shown \/ shown' = [meeting |-> r.meeting, status |-> r.answer]
      BY <1>4 DEF ReplyArrives
    <2> QED
      BY <2>1, <2>2 DEF ReportUnderEnd, EndsAreBacked, Backed
  <1>5. CASE RowMoves
    <2>1. LifecycleInv' /\ \A m \in Meetings : Lasting(m)
      BY <1>0, <1>5, RowsLast DEF RowMoves, LifecycleInv
    <2>2. ASSUME NEW st, NEW m \in Meetings, Backed(st, m) PROVE Backed(st, m)'
      BY <2>1, <2>2 DEF Backed, Lasting
    <2>3. requests' = requests /\ shown' = shown
      BY <1>5 DEF RowMoves, panelVars
    <2>4. \A r \in requests : r.meeting \in Meetings
      BY <1>0 DEF Requests
    <2>5. shown.meeting # NoMeeting => shown.meeting \in Meetings
      BY <1>0 DEF TypeOK
    <2> QED
      BY <2>1, <2>2, <2>3, <2>4, <2>5 DEF LifecycleInv, EndsAreBacked
  <1>6. CASE Tick \/ Accepted
    BY <1>1, <1>2, <1>6 DEF Tick, Accepted, panelVars
  <1>7. CASE UNCHANGED vars \/ Rejected \/ Leave \/ \E m \in Meetings : Submit(m)
    BY <1>1, <1>7 DEF vars, panelVars, Rejected, Leave, Submit
  <1>8. CASE Answer
    <2>1. ASSUME NEW r \in requests, RequestFails(r) PROVE BackedInv'
      BY <1>1, <2>1 DEF RequestFails, Settle
    <2> QED BY <1>3, <1>4, <1>8, <2>1 DEF Answer
  <1> QED
    BY <1>5, <1>6, <1>7, <1>8 DEF Next

LEMMA PanelStep == PInv /\ [Next]_vars => PInv'
  BY PollsStep, BackedStep DEF PInv

(* The requests under way, the screen and the rows agree in every run. *)
THEOREM PanelInvariant == Spec => []PInv
  <1>1. Init => PInv
    BY InitPolls, InitBacked DEF PInv
  <1> QED BY <1>1, PanelStep, PTL DEF Spec

(* The end of a meeting that the panel shows can be relied on: with        *)
(* "completed" the report is in the row, "failed" is final, although the   *)
(* row is read before the answer arrives and moves in between.             *)
THEOREM ShownEndsHold == Spec => []EndsAreBacked
  <1>1. PInv => EndsAreBacked
    BY DEF PInv, BackedInv
  <1> QED BY <1>1, PanelInvariant, PTL

(* A meeting is reported at most once, when it is over for good. *)
THEOREM EndsAreReportedOnce == Spec => []NotifiedOnceAtEnd
  <1>1. PInv => NotifiedOnceAtEnd
    BY DEF PInv, PollsInv
  <1> QED BY <1>1, PanelInvariant, PTL

(* Only the meeting on the page is shown, and its progress bar never goes  *)
(* back except to "pending".                                               *)
THEOREM ScreenGoesForward == Spec => ScreenKeepsUp
  <1>1. PInv /\ [Next]_vars =>
          [shown' # shown =>
             /\ open /\ shown'.meeting = session
             /\ shown'.meeting = shown.meeting /\ shown'.status # "absent"
                  => StatusStep[shown.status] <= StatusStep[shown'.status]]_vars
    <2> SUFFICES ASSUME PInv, [Next]_vars, shown' # shown
                 PROVE  /\ open /\ shown'.meeting = session
                        /\ shown'.meeting = shown.meeting /\ shown'.status # "absent"
                             => StatusStep[shown.status] <= StatusStep[shown'.status]
      OBVIOUS
    <2>1. PICK r \in requests : ReplyArrives(r)
      BY DEF Next, Submit, Accepted, Rejected, Tick, Answer, ServerReads, RequestFails, Leave,
             RowMoves, panelVars, vars
    <2>2. Current(r) /\ shown' = [meeting |-> r.meeting, status |-> r.answer]
      BY <2>1 DEF ReplyArrives
    <2>3. open /\ shown'.meeting = session
      BY <2>2 DEF Current
    <2> QED
      BY <2>1, <2>2, <2>3 DEF ReplyArrives, PInv, PollsInv, PollInv
  <1> QED BY <1>1, PanelInvariant, PTL DEF Spec, ScreenKeepsUp
=============================================================================
