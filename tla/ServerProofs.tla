---------------------------- MODULE ServerProofs ----------------------------
(***************************************************************************)
(* The safety of Server, for any number of pipelines, invitations and      *)
(* threads and any length of the grace period.                             *)
(***************************************************************************)
EXTENDS Server, FiniteSetTheorems, TLAPS

LEMMA CallCount == Last \in Nat /\ Last = 8
  BY DEF Last, Calls

(* What is at the head of a queue and behind it. *)
LEMMA QueueTail ==
  ASSUME NEW q \in Seq(Sessions), q # << >>
  PROVE  /\ Len(q) \in Nat /\ Len(q) > 0
         /\ Head(q) = q[1] /\ Head(q) \in Sessions
         /\ Tail(q) \in Seq(Sessions) /\ Len(Tail(q)) = Len(q) - 1
         /\ \A k \in 1 .. Len(Tail(q)) : Tail(q)[k] = q[k + 1]
  OBVIOUS

LEMMA QueueAppend ==
  ASSUME NEW q \in Seq(Sessions), NEW s \in Sessions
  PROVE  /\ Append(q, s) \in Seq(Sessions)
         /\ Len(q) \in Nat /\ Len(Append(q, s)) = Len(q) + 1
         /\ \A k \in 1 .. Len(q) : Append(q, s)[k] = q[k]
         /\ Append(q, s)[Len(q) + 1] = s
  OBVIOUS

LEMMA InitInv == Init => ProcessInv
  <1> SUFFICES ASSUME Init PROVE ProcessInv
    OBVIOUS
  <1> USE DEF Init
  <1>1. TypeOK
    <2>1. call \in [Sessions -> 0 .. Last] /\ clock \in 0 .. Grace
      BY PoolAssumption, CallCount
    <2>2. queue \in Seq(Sessions)
      OBVIOUS
    <2> QED
      BY <2>1, <2>2 DEF TypeOK
  <1>2. OneCallEach /\ PhasesFit /\ NothingCutEarly
    BY DEF OneCallEach, PhasesFit, NothingCutEarly, Running
  <1>3. PoolBounded
    BY PoolAssumption, FS_EmptySet DEF PoolBounded
  <1> QED
    BY <1>1, <1>2, <1>3 DEF ProcessInv

(* A step of the process as a whole, which the pool does not see. *)
LEMMA QuietKeeps ==
  ASSUME ProcessInv, UNCHANGED <<loop, pool>>
  PROVE  OneCallEach' /\ PoolBounded'
  BY DEF ProcessInv, OneCallEach, PoolBounded, Running, loop, pool

LEMMA RequestsKeep ==
  ASSUME ProcessInv, NEW t \in Tasks, Begin(t)
  PROVE  ProcessInv'
  <1> USE DEF Begin, life, pool
  <1>0. TypeOK /\ \A x \in Tasks : task'[x] = IF x = t THEN "running" ELSE task[x]
    BY DEF ProcessInv, TypeOK
  <1>1. TypeOK'
    BY <1>0 DEF TypeOK
  <1>2. OneCallEach'
    <2>1. \A k \in 1 .. Len(queue) : queue[k] \in Sessions
      BY <1>0 DEF TypeOK
    <2> QED
      BY <1>0, <2>1 DEF ProcessInv, OneCallEach, Running, Tasks
  <1>3. PoolBounded' /\ PhasesFit' /\ NothingCutEarly'
    BY <1>0 DEF ProcessInv, PoolBounded, PhasesFit, NothingCutEarly, Running, Tasks
  <1> QED
    BY <1>1, <1>2, <1>3 DEF ProcessInv

(* A task that ends: an invitation, or a pipeline at the loop. *)
LEMMA EndsKeep ==
  ASSUME ProcessInv, NEW t \in Tasks, Running(t),
         t \notin running, \A k \in 1 .. Len(queue) : queue[k] # t,
         task' = [task EXCEPT ![t] = "done"],
         UNCHANGED <<call, pool, life>>
  PROVE  ProcessInv'
  <1> USE DEF life, pool
  <1>0. TypeOK /\ \A x \in Tasks : task'[x] = IF x = t THEN "done" ELSE task[x]
    BY DEF ProcessInv, TypeOK
  <1>1. TypeOK'
    BY <1>0 DEF TypeOK
  <1>2. OneCallEach'
    <2>1. \A k \in 1 .. Len(queue) : queue[k] \in Sessions
      BY <1>0 DEF TypeOK
    <2> QED
      BY <1>0, <2>1 DEF ProcessInv, OneCallEach, Running, Tasks
  <1>3. PoolBounded' /\ PhasesFit' /\ NothingCutEarly'
    BY <1>0 DEF ProcessInv, PoolBounded, PhasesFit, NothingCutEarly, Running, Tasks
  <1> QED
    BY <1>1, <1>2, <1>3 DEF ProcessInv

(* Phases and cuts do not change while the tasks and the phase do not. *)
LEMMA PoolStepKeeps ==
  ASSUME ProcessInv, UNCHANGED <<task, life>>,
         running' \subseteq running \/ phase \notin {"starting", "gone"}
  PROVE  PhasesFit' /\ NothingCutEarly'
  BY DEF ProcessInv, PhasesFit, NothingCutEarly, Running, life

LEMMA ProceedKeeps ==
  ASSUME ProcessInv, NEW s \in Sessions, Proceed(s)
  PROVE  ProcessInv'
  <1> USE DEF Proceed, life
  <1>0. TypeOK /\ s \in Tasks
    BY DEF ProcessInv, Tasks
  <1>1. PhasesFit' /\ NothingCutEarly' /\ PoolBounded'
    BY PoolStepKeeps DEF ProcessInv, PoolBounded
  <1>2. CASE call' = [call EXCEPT ![s] = @ + 1] /\ queue' = Append(queue, s)
    <2>1. TypeOK'
      <3>1. call' \in [Sessions -> 0 .. Last]
        BY <1>0, <1>2, CallCount DEF TypeOK
      <3>2. queue' \in Seq(Sessions)
        BY <1>0, <1>2, QueueAppend DEF TypeOK
      <3> QED
        BY <1>0, <3>1, <3>2 DEF TypeOK
    <2>2. /\ Len(queue) \in Nat /\ Len(queue') = Len(queue) + 1
          /\ \A k \in 1 .. Len(queue) : queue'[k] = queue[k] /\ queue[k] # s
          /\ queue'[Len(queue) + 1] = s /\ s \notin running /\ Running(s)
      BY <1>0, <1>2, QueueAppend DEF TypeOK, AtLoop, Queued
    <2>3. \A k \in 1 .. Len(queue') : k \in 1 .. Len(queue) \/ k = Len(queue) + 1
      BY <2>2
    <2>4. \A x \in Sessions : call'[x] = IF x = s THEN call[s] + 1 ELSE call[x]
      BY <1>0, <1>2 DEF TypeOK
    <2>5. \A k \in 1 .. Len(queue) : queue[k] \in Sessions
      BY <1>0 DEF TypeOK
    <2>6. OneCallEach'
      <3>1. \A k \in 1 .. Len(queue') : task'[queue'[k]] = "running" /\ queue'[k] \notin running'
        BY <2>2, <2>3 DEF ProcessInv, OneCallEach, Running
      <3>2. \A j, k \in 1 .. Len(queue') : queue'[j] = queue'[k] => j = k
        BY <2>2, <2>3 DEF ProcessInv, OneCallEach
      <3>3. \A x \in running' : call'[x] > 0
        BY <1>0, <2>4 DEF ProcessInv, OneCallEach, TypeOK
      <3>4. \A k \in 1 .. Len(queue') : call'[queue'[k]] > 0
        BY <1>0, <2>2, <2>3, <2>4, <2>5 DEF ProcessInv, OneCallEach, TypeOK
      <3> QED
        BY <3>1, <3>2, <3>3, <3>4 DEF OneCallEach, Running
    <2> QED
      BY <1>1, <2>1, <2>6 DEF ProcessInv
  <1>3. CASE GivesUp(s) /\ UNCHANGED queue
    <2>1. TypeOK'
      BY <1>0, <1>3, CallCount DEF TypeOK, GivesUp
    <2>2. \A x \in Sessions : call'[x] = IF x = s THEN Last ELSE call[x]
      BY <1>0, <1>3 DEF TypeOK, GivesUp
    <2>3. OneCallEach'
      BY <1>0, <1>3, <2>2, CallCount DEF ProcessInv, OneCallEach, TypeOK, Running
    <2> QED
      BY <1>1, <2>1, <2>3 DEF ProcessInv
  <1> QED
    BY <1>2, <1>3

LEMMA TakeKeeps ==
  ASSUME ProcessInv, Take
  PROVE  ProcessInv'
  <1> USE DEF Take, loop, life
  <1>0. TypeOK /\ OneCallEach /\ PoolBounded
    BY DEF ProcessInv
  <1>1. /\ Len(queue) \in Nat /\ Len(queue) > 0
        /\ Head(queue) = queue[1] /\ queue[1] \in Sessions
        /\ queue' \in Seq(Sessions) /\ Len(queue') = Len(queue) - 1
        /\ \A k \in 1 .. Len(queue') : queue'[k] = queue[k + 1]
    BY <1>0, QueueTail DEF TypeOK
  <1>2. TypeOK'
    BY <1>0, <1>1 DEF TypeOK
  <1>3. OneCallEach'
    <2>1. \A k \in 1 .. Len(queue') : k + 1 \in 1 .. Len(queue) /\ k + 1 # 1
      BY <1>1
    <2>2. 1 \in 1 .. Len(queue)
      BY <1>1
    <2>3. \A k \in 1 .. Len(queue') : queue'[k] # queue[1]
      BY <1>0, <1>1, <2>1, <2>2 DEF OneCallEach
    <2>4. \A j, k \in 1 .. Len(queue') : queue'[j] = queue'[k] => j = k
      <3> SUFFICES ASSUME NEW j \in 1 .. Len(queue'), NEW k \in 1 .. Len(queue'),
                          queue'[j] = queue'[k]
                   PROVE  j = k
        OBVIOUS
      <3>1. j + 1 = k + 1
        BY <1>0, <1>1, <2>1 DEF OneCallEach
      <3> QED
        BY <3>1
    <2>5. /\ \A k \in 1 .. Len(queue') : task'[queue'[k]] = "running" /\ queue'[k] \notin running'
          /\ \A x \in running' : call'[x] > 0
          /\ \A k \in 1 .. Len(queue') : call'[queue'[k]] > 0
      BY <1>0, <1>1, <2>1, <2>2, <2>3 DEF OneCallEach, Running
    <2> QED
      BY <2>4, <2>5 DEF OneCallEach, Running
  <1>4. PoolBounded'
    <2>1. Head(queue) \notin running
      BY <1>0, <1>1 DEF OneCallEach
    <2>2. /\ IsFiniteSet(running')
          /\ Cardinality(running') = Cardinality(running) + 1
      BY <1>0, <2>1, FS_AddElement DEF PoolBounded
    <2>3. Cardinality(running) \in Nat
      BY <1>0, FS_CardinalityType DEF PoolBounded
    <2> QED
      BY <2>2, <2>3, PoolAssumption DEF PoolBounded
  <1>5. PhasesFit' /\ NothingCutEarly'
    <2>1. phase \notin {"starting", "gone"}
      <3>1. 1 \in 1 .. Len(queue) /\ queue[1] \in Tasks
        BY <1>1 DEF Tasks
      <3> QED
        BY <1>0, <3>1 DEF ProcessInv, OneCallEach, PhasesFit
    <2> QED
      BY <2>1, PoolStepKeeps
  <1> QED
    BY <1>2, <1>3, <1>4, <1>5 DEF ProcessInv

LEMMA ReturnsKeeps ==
  ASSUME ProcessInv, NEW s \in Sessions, Returns(s)
  PROVE  ProcessInv'
  <1> USE DEF Returns, life
  <1>0. TypeOK /\ OneCallEach /\ PoolBounded
    BY DEF ProcessInv
  <1>1. /\ call' = call \/ call' = [call EXCEPT ![s] = Last]
        /\ recorder' \in {recorder, s, Nobody}
    BY DEF Outcome, GivesUp
  <1>2. \A x \in Sessions : call'[x] = call[x] \/ call'[x] = Last
    BY <1>0, <1>1 DEF TypeOK
  <1>3. TypeOK'
    <2>1. call' \in [Sessions -> 0 .. Last]
      BY <1>0, <1>1, CallCount DEF TypeOK
    <2> QED
      BY <1>0, <1>1, <2>1 DEF TypeOK
  <1>4. OneCallEach'
    <2>1. \A k \in 1 .. Len(queue) : queue[k] \in Sessions
      BY <1>0 DEF TypeOK
    <2>2. \A x \in Sessions : call[x] > 0 => call'[x] > 0
      BY <1>2, CallCount
    <2> QED
      BY <1>0, <2>1, <2>2 DEF OneCallEach, Running, TypeOK
  <1>5. PoolBounded'
    <2>1. /\ IsFiniteSet(running')
          /\ Cardinality(running') = Cardinality(running) - 1
      BY <1>0, FS_RemoveElement DEF PoolBounded
    <2>2. Cardinality(running) \in Nat
      BY <1>0, FS_CardinalityType DEF PoolBounded
    <2> QED
      BY <1>0, <2>1, <2>2, PoolAssumption DEF PoolBounded
  <1>6. PhasesFit' /\ NothingCutEarly'
    BY PoolStepKeeps
  <1> QED
    BY <1>3, <1>4, <1>5, <1>6 DEF ProcessInv

(* The last of a shutdown cancels what is left, which is no pipeline unless *)
(* the waiting was ended by force.                                          *)
LEMMA CancelKeeps ==
  ASSUME ProcessInv, CancelAll, forced' \in BOOLEAN,
         phase \in {"closing", "draining"},
         forced => forced',
         \/ forced'
         \/ /\ clock = Grace \/ \A t \in Invitations : ~Running(t)
            /\ \A s \in Sessions : ~Running(s)
  PROVE  ProcessInv'
  <1> USE DEF CancelAll
  <1>0. TypeOK /\ OneCallEach /\ PoolBounded /\ PhasesFit /\ NothingCutEarly
    BY DEF ProcessInv
  <1>1. \A t \in Tasks : task'[t] = IF Running(t) THEN "cancelled" ELSE task[t]
    OBVIOUS
  <1>2. TypeOK'
    BY <1>0 DEF TypeOK
  <1>3. OneCallEach'
    BY <1>0 DEF OneCallEach
  <1>4. PoolBounded'
    BY <1>0 DEF PoolBounded
  <1>5. PhasesFit'
    BY <1>1 DEF PhasesFit, Running
  <1>6. NothingCutEarly'
    BY <1>0, <1>1 DEF NothingCutEarly, PhasesFit, Running, Tasks
  <1> QED
    BY <1>2, <1>3, <1>4, <1>5, <1>6 DEF ProcessInv

LEMMA ShutdownKeeps ==
  ASSUME ProcessInv, Shutdown
  PROVE  ProcessInv'
  <1>0. TypeOK /\ PhasesFit /\ NothingCutEarly
    BY DEF ProcessInv
  <1>1. CASE Interrupt
    <2> USE <1>1 DEF Interrupt
    <2>1. OneCallEach' /\ PoolBounded'
      BY QuietKeeps
    <2>2. TypeOK' /\ PhasesFit' /\ NothingCutEarly'
      BY <1>0 DEF TypeOK, PhasesFit, NothingCutEarly, Running, loop, pool
    <2> QED
      BY <2>1, <2>2 DEF ProcessInv
  <1>2. CASE Drain
    <2> USE <1>2 DEF Drain
    <2>1. OneCallEach' /\ PoolBounded'
      BY QuietKeeps
    <2>2. TypeOK' /\ PhasesFit' /\ NothingCutEarly'
      BY <1>0 DEF TypeOK, PhasesFit, NothingCutEarly, Running, Answered, Tasks, loop, pool
    <2> QED
      BY <2>1, <2>2 DEF ProcessInv
  <1>3. CASE Tick
    <2> USE <1>3 DEF Tick
    <2>1. OneCallEach' /\ PoolBounded'
      BY QuietKeeps
    <2>2. TypeOK' /\ PhasesFit' /\ NothingCutEarly'
      BY <1>0, PoolAssumption DEF TypeOK, PhasesFit, NothingCutEarly, Running, loop, pool
    <2> QED
      BY <2>1, <2>2 DEF ProcessInv
  <1>4. CASE EndDrain
    <2>1. \A t \in Tasks : Running(t) => t \in Invitations \cap pending
      BY <1>0, <1>4 DEF EndDrain, PhasesFit
    <2>2. \A s \in Sessions : ~Running(s)
      BY <2>1, TasksAssumption DEF Tasks
    <2>3. clock = Grace \/ \A i \in Invitations : ~Running(i)
      BY <1>4, <2>1, TasksAssumption DEF EndDrain, Waited, Finished, Tasks
    <2> QED
      BY <1>0, <1>4, <2>2, <2>3, CancelKeeps DEF EndDrain, TypeOK
  <1>5. CASE ForceExit
    <2>1. CancelAll /\ phase = "closing" /\ forced' = TRUE
      BY <1>5 DEF ForceExit
    <2>2. /\ forced' \in BOOLEAN
          /\ forced'
      BY <2>1
    <2>3. phase \in {"closing", "draining"}
      BY <2>1
    <2> QED
      BY <2>1, <2>2, <2>3, CancelKeeps
  <1>6. CASE Exit
    <2> USE <1>6 DEF Exit
    <2>1. OneCallEach' /\ PoolBounded'
      BY QuietKeeps
    <2>2. TypeOK' /\ PhasesFit' /\ NothingCutEarly'
      BY <1>0 DEF TypeOK, PhasesFit, NothingCutEarly, Running, loop, pool
    <2> QED
      BY <2>1, <2>2 DEF ProcessInv
  <1> QED
    BY <1>1, <1>2, <1>3, <1>4, <1>5, <1>6 DEF Shutdown

-----------------------------------------------------------------------------
LEMMA StepInv == ProcessInv /\ [Next]_vars => ProcessInv'
  <1> SUFFICES ASSUME ProcessInv, [Next]_vars PROVE ProcessInv'
    OBVIOUS
  <1>0. TypeOK /\ PhasesFit /\ NothingCutEarly
    BY DEF ProcessInv
  <1>1. CASE UNCHANGED vars
    <2> USE <1>1 DEF vars, life
    <2>1. OneCallEach' /\ PoolBounded'
      BY QuietKeeps
    <2>2. TypeOK' /\ PhasesFit' /\ NothingCutEarly'
      BY <1>0 DEF TypeOK, PhasesFit, NothingCutEarly, Running, loop, pool
    <2> QED
      BY <2>1, <2>2 DEF ProcessInv
  <1>2. CASE Start
    <2> USE <1>2 DEF Start
    <2>1. OneCallEach' /\ PoolBounded'
      BY QuietKeeps
    <2>2. TypeOK' /\ PhasesFit' /\ NothingCutEarly'
      BY <1>0 DEF TypeOK, PhasesFit, NothingCutEarly, Running, loop, pool
    <2> QED
      BY <2>1, <2>2 DEF ProcessInv
  <1>3. ASSUME NEW s \in Sessions, Trigger(s) \/ Proceed(s) \/ Finish(s) \/ Returns(s)
        PROVE  ProcessInv'
    <2>0. s \in Tasks
      BY DEF Tasks
    <2>1. CASE Trigger(s)
      BY <2>0, <2>1, RequestsKeep DEF Trigger
    <2>2. CASE Finish(s)
      BY <2>0, <2>2, EndsKeep DEF Finish, AtLoop, Queued
    <2> QED
      BY <1>3, <2>1, <2>2, ProceedKeeps, ReturnsKeeps
  <1>4. ASSUME NEW i \in Invitations, Invite(i) \/ InvitationsSent(i)
        PROVE  ProcessInv'
    <2>0. i \in Tasks /\ i \notin Sessions
      BY TasksAssumption DEF Tasks
    <2>1. CASE Invite(i)
      BY <2>0, <2>1, RequestsKeep DEF Invite
    <2>2. CASE InvitationsSent(i)
      <3>1. i \notin running /\ \A k \in 1 .. Len(queue) : queue[k] # i
        BY <1>0, <2>0 DEF TypeOK
      <3> QED
        BY <2>0, <2>2, <3>1, EndsKeep DEF InvitationsSent
    <2> QED
      BY <1>4, <2>1, <2>2
  <1> QED
    BY <1>1, <1>2, <1>3, <1>4, TakeKeeps, ShutdownKeeps DEF Next

(* How the variables that work is counted by change, step by step. *)
LEMMA CallsFitStep ==
  ASSUME ProcessInv, CallsFit, [Next]_vars
  PROVE  CallsFit'
  <1>0. TypeOK /\ OneCallEach
    BY DEF ProcessInv
  <1> USE <1>0 DEF CallsFit, TypeOK, Tasks
  <1>1. CASE UNCHANGED vars
    BY <1>1 DEF vars, loop, pool
  <1>2. ASSUME NEW s \in Sessions, Trigger(s) \/ Proceed(s) \/ Finish(s) \/ Returns(s)
        PROVE  CallsFit'
    BY <1>2 DEF Trigger, Begin, Proceed, Finish, Returns, Outcome, GivesUp, AtLoop, Running,
                pool
  <1>3. ASSUME NEW i \in Invitations, Invite(i) \/ InvitationsSent(i)
        PROVE  CallsFit'
    BY <1>3, TasksAssumption DEF Invite, Begin, InvitationsSent, pool
  <1>4. CASE Take
    <2>1. Running(Head(queue))
      BY <1>4, QueueTail DEF Take, OneCallEach
    <2> QED
      BY <1>4, <2>1 DEF Take, Running, loop
  <1>5. CASE EndDrain \/ ForceExit
    BY <1>5 DEF EndDrain, ForceExit, CancelAll, Running
  <1>6. CASE Start \/ Interrupt \/ Drain \/ Tick \/ Exit
    BY <1>6 DEF Start, Interrupt, Drain, Tick, Exit, loop, pool
  <1> QED
    BY <1>1, <1>2, <1>3, <1>4, <1>5, <1>6 DEF Next, Shutdown

LEMMA CallsFitInit == Init => CallsFit
  BY DEF Init, CallsFit, Tasks

(* Server keeps ServerInv: the tasks, the queue and the threads fit the    *)
(* phase of the process in every run.                                      *)
THEOREM ServerInvariant == Spec => []ServerInv
  BY InitInv, StepInv, CallsFitInit, CallsFitStep, PTL DEF Spec, ServerInv

(* No shutdown cuts off a pipeline, nor an invitation before the 30 seconds *)
(* are over, unless a second interrupt forces it.                           *)
THEOREM NothingIsCutEarly == Spec => []NothingCutEarly
  <1>1. ServerInv => NothingCutEarly
    BY DEF ServerInv, ProcessInv
  <1> QED
    BY <1>1, ServerInvariant, PTL

-----------------------------------------------------------------------------
(* The queue of the executor.                                              *)

(* The three things that happen to it. *)
LEMMA QueueSteps ==
  ASSUME ServerInv, [Next]_vars
  PROVE  \/ UNCHANGED queue
         \/ \E s \in Sessions : ~Queued(s) /\ queue' = Append(queue, s)
         \/ queue # << >> /\ queue' = Tail(queue) /\ Head(queue) \in running'
         \/ queue' = << >> /\ phase' = "exiting"
  BY DEF Next, Shutdown, vars, life, pool, Start, Trigger, Begin, Invite, InvitationsSent,
         Proceed, AtLoop, Finish, Take, Returns, Interrupt, Drain, Tick, EndDrain, ForceExit,
         CancelAll, Exit

(* A call that waits is overtaken by nobody, in any pool with any number   *)
(* of meetings: what CallsGetThreads needs besides threads that come free. *)
THEOREM CallsAreTakenInTurn == Spec => CallsTakenInTurn
  <1>1. ASSUME ServerInv, [Next]_vars, NEW s \in Sessions
        PROVE  InTurn(s)
    <2>0. /\ queue \in Seq(Sessions)
          /\ \A j, k \in 1 .. Len(queue) : queue[j] = queue[k] => j = k
      BY <1>1 DEF ServerInv, ProcessInv, TypeOK, OneCallEach
    <2> SUFFICES ASSUME Queued(s)
                 PROVE  IF Queued(s)' THEN Ahead(s)' \subseteq Ahead(s)
                        ELSE phase' = "exiting" \/ (Ahead(s) = {} /\ s \in running')
      BY DEF InTurn
    <2>1. CASE UNCHANGED queue
      BY <2>1 DEF Queued, Ahead
    <2>2. ASSUME NEW x \in Sessions, ~Queued(x), queue' = Append(queue, x)
          PROVE  Queued(s)' /\ Ahead(s)' \subseteq Ahead(s)
      <3>1. /\ Len(queue) \in Nat /\ Len(queue') = Len(queue) + 1
            /\ \A k \in 1 .. Len(queue) : queue'[k] = queue[k]
            /\ queue'[Len(queue) + 1] = x
        BY <2>0, <2>2, QueueAppend
      <3>2. x # s
        BY <2>2
      <3>3. Queued(s)'
        BY <3>1 DEF Queued
      <3>4. ASSUME NEW j \in 1 .. Len(queue'), NEW k \in j + 1 .. Len(queue'), queue'[k] = s
            PROVE  j \in 1 .. Len(queue) /\ k \in j + 1 .. Len(queue) /\ queue[k] = s
                   /\ queue'[j] = queue[j]
        BY <3>1, <3>2, <3>4
      <3> QED
        BY <3>3, <3>4 DEF Ahead
    <2>3. CASE queue # << >> /\ queue' = Tail(queue) /\ Head(queue) \in running'
      <3>1. /\ Len(queue) \in Nat /\ Len(queue) > 0 /\ Head(queue) = queue[1]
            /\ Len(queue') = Len(queue) - 1
            /\ \A k \in 1 .. Len(queue') : queue'[k] = queue[k + 1]
        BY <2>0, <2>3, QueueTail
      <3>2. CASE queue[1] = s
        <4>1. ~Queued(s)'
          BY <2>0, <3>1, <3>2 DEF Queued
        <4>2. Ahead(s) = {}
          BY <2>0, <3>1, <3>2 DEF Ahead
        <4> QED
          BY <2>3, <3>1, <3>2, <4>1, <4>2
      <3>3. CASE queue[1] # s
        <4>1. PICK k \in 1 .. Len(queue) : queue[k] = s
          BY DEF Queued
        <4>2. k - 1 \in 1 .. Len(queue') /\ queue'[k - 1] = s
          BY <3>1, <3>3, <4>1
        <4>3. ASSUME NEW j \in 1 .. Len(queue'), NEW n \in j + 1 .. Len(queue'), queue'[n] = s
              PROVE  /\ j + 1 \in 1 .. Len(queue) /\ n + 1 \in (j + 1) + 1 .. Len(queue)
                     /\ queue[n + 1] = s /\ queue'[j] = queue[j + 1]
          BY <3>1, <4>3
        <4>4. Ahead(s)' \subseteq Ahead(s)
          BY <4>3 DEF Ahead
        <4> QED
          BY <4>2, <4>4 DEF Queued
      <3> QED
        BY <3>2, <3>3
    <2>4. CASE queue' = << >> /\ phase' = "exiting"
      BY <2>4 DEF Queued
    <2> QED
      BY <1>1, <2>1, <2>2, <2>3, <2>4, QueueSteps
  <1>2. ServerInv /\ [Next]_vars => [\A s \in Sessions : InTurn(s)]_vars
    BY <1>1
  <1> QED
    BY <1>2, ServerInvariant, PTL DEF Spec, CallsTakenInTurn

-----------------------------------------------------------------------------
(* What is left to do.                                                     *)

LEMMA WorkTypes ==
  ASSUME ServerInv
  PROVE  /\ \A s \in Sessions : /\ task[s] \in {"none", "running", "done", "cancelled"}
                                /\ call[s] \in 0 .. 8
                                /\ Queued(s) => task[s] = "running" /\ s \notin running
                                                /\ call[s] > 0
                                /\ s \in running => task[s] \in {"running", "cancelled"}
                                                    /\ call[s] > 0
                                /\ task[s] = "none" => call[s] = 0
         /\ \A i \in Invitations : task[i] \in {"none", "running", "done", "cancelled"}
         /\ clock \in 0 .. Grace /\ Grace \in Nat
         /\ phase \in {"starting", "up", "closing", "draining", "exiting", "gone"}
  BY PoolAssumption, CallCount
  DEF ServerInv, ProcessInv, TypeOK, OneCallEach, CallsFit, Queued, Running, Tasks

(* WorkLeft as a table. *)
LEMMA WorkTable ==
  ASSUME NEW s \in Sessions
  PROVE  WorkLeft(s) = IF task[s] = "none" THEN 26 ELSE IF task[s] = "done" THEN 0
                       ELSE IF Queued(s) THEN 3 * (8 - call[s]) + 3
                       ELSE IF s \in running THEN 3 * (8 - call[s]) + 2
                       ELSE 3 * (8 - call[s]) + 1
  BY CallCount DEF WorkLeft

(* A pipeline that takes part in a step has less to do, the others as much *)
(* as before.                                                              *)
LEMMA PipelineMoves ==
  ASSUME ServerInv, ServerInv', NEW s \in Sessions,
         \/ Trigger(s) \/ Proceed(s) \/ Finish(s) \/ Returns(s)
         \/ Take /\ Head(queue) = s
  PROVE  /\ WorkLeft(s)' < WorkLeft(s)
         /\ \A x \in Sessions : WorkLeft(x)' <= WorkLeft(x)
         /\ UNCHANGED life /\ \A i \in Invitations : task'[i] = task[i]
  <1> DEFINE Same(x) == /\ task'[x] = task[x] /\ call'[x] = call[x]
                        /\ (x \in running' <=> x \in running)
                        /\ (Queued(x)' <=> Queued(x))
  <1>0. /\ TypeOK /\ OneCallEach
        /\ queue \in Seq(Sessions) /\ Sessions \cap Invitations = {}
        /\ \A j, k \in 1 .. Len(queue) : queue[j] = queue[k] => j = k
        /\ \A x \in Sessions : x \in Tasks
        /\ \A x \in Invitations : x \in Tasks
    BY TasksAssumption DEF ServerInv, ProcessInv, TypeOK, OneCallEach, Tasks
  <1>1. \A x \in Sessions : Same(x) => WorkLeft(x)' = WorkLeft(x)
    BY DEF WorkLeft
  <1>2. \A x \in Sessions : WorkLeft(x) \in Int
    BY WorkTypes, WorkTable
  <1>3. CASE Trigger(s)
    <2> USE <1>3 DEF Trigger, Begin, life, pool
    <2>1. \A x \in Sessions \ {s} : Same(x)
      BY <1>0 DEF TypeOK, Queued
    <2>2. task[s] = "none" /\ task'[s] = "running" /\ ~Queued(s)' /\ s \notin running' /\ call'[s] = 0
      BY <1>0, WorkTypes DEF TypeOK, Queued
    <2>3. WorkLeft(s)' = 25 /\ WorkLeft(s) = 26
      BY <2>2, CallCount DEF WorkLeft
    <2>4. UNCHANGED life /\ \A i \in Invitations : task'[i] = task[i]
      BY <1>0 DEF TypeOK
    <2> QED
      BY <1>1, <1>2, <2>1, <2>3, <2>4
  <1>4. CASE Proceed(s)
    <2> USE <1>4 DEF Proceed, AtLoop, Running
    <2>1. task'[s] = "running" /\ task[s] = "running" /\ ~Queued(s) /\ s \notin running'
          /\ s \notin running /\ call[s] \in 0 .. 7
      BY WorkTypes, CallCount
    <2>2. WorkLeft(s) = 3 * (8 - call[s]) + 1
      BY <2>1, CallCount DEF WorkLeft
    <2>3. CASE call' = [call EXCEPT ![s] = @ + 1] /\ queue' = Append(queue, s)
      <3>1. /\ Len(queue) \in Nat /\ Len(queue') = Len(queue) + 1
            /\ \A k \in 1 .. Len(queue) : queue'[k] = queue[k]
            /\ queue'[Len(queue) + 1] = s
        BY <1>0, <2>3, QueueAppend
      <3>2. Queued(s)' /\ \A x \in Sessions \ {s} : Queued(x)' <=> Queued(x)
        BY <3>1 DEF Queued
      <3>3. call'[s] = call[s] + 1 /\ \A x \in Sessions \ {s} : Same(x)
        BY <1>0, <2>3, <3>2 DEF TypeOK
      <3>4. WorkLeft(s)' = 3 * (8 - (call[s] + 1)) + 3
        BY <2>1, <3>2, <3>3, CallCount DEF WorkLeft
      <3> QED
        BY <1>1, <1>2, <2>1, <2>2, <3>3, <3>4 DEF life
    <2>4. CASE GivesUp(s) /\ UNCHANGED queue
      <3>1. call'[s] = 8 /\ ~Queued(s)' /\ \A x \in Sessions \ {s} : Same(x)
        BY <1>0, <2>1, <2>4, CallCount DEF TypeOK, GivesUp, Queued
      <3>2. WorkLeft(s)' = 1
        BY <2>1, <3>1, CallCount DEF WorkLeft
      <3> QED
        BY <1>1, <1>2, <2>1, <2>2, <3>1, <3>2 DEF life
    <2> QED
      BY <2>3, <2>4
  <1>5. CASE Finish(s)
    <2> USE <1>5 DEF Finish, AtLoop, Running, life, pool
    <2>1. \A x \in Sessions \ {s} : Same(x)
      BY <1>0 DEF TypeOK, Queued
    <2>2. WorkLeft(s)' = 0 /\ WorkLeft(s) = 1
      BY <1>0, CallCount DEF WorkLeft, TypeOK
    <2>3. UNCHANGED life /\ \A i \in Invitations : task'[i] = task[i]
      BY <1>0 DEF TypeOK
    <2> QED
      BY <1>1, <1>2, <2>1, <2>2, <2>3
  <1>6. CASE Returns(s)
    <2> USE <1>6 DEF Returns
    <2>1. /\ s \in running /\ s \notin running' /\ ~Queued(s) /\ ~Queued(s)'
          /\ task'[s] = task[s] /\ task[s] \in {"running", "cancelled"}
      BY WorkTypes DEF Queued
    <2>2. (call'[s] = call[s] \/ call'[s] = 8) /\ \A x \in Sessions \ {s} : call'[x] = call[x]
      BY <1>0, CallCount DEF Outcome, GivesUp, TypeOK
    <2>3. WorkLeft(s) = 3 * (8 - call[s]) + 2 /\ WorkLeft(s)' = 3 * (8 - call'[s]) + 1
      BY <2>1, CallCount DEF WorkLeft
    <2>4. \A x \in Sessions \ {s} : Same(x)
      BY <2>2 DEF Queued
    <2>5. call[s] \in 0 .. 8
      BY WorkTypes
    <2> QED
      BY <1>1, <1>2, <2>2, <2>3, <2>4, <2>5
  <1>7. CASE Take /\ Head(queue) = s
    <2> USE <1>7 DEF Take, loop, life
    <2>1. /\ Len(queue) \in Nat /\ Len(queue) > 0 /\ queue[1] = s
          /\ Len(queue') = Len(queue) - 1
          /\ \A k \in 1 .. Len(queue') : queue'[k] = queue[k + 1]
      BY <1>0, QueueTail
    <2>2. Queued(s) /\ ~Queued(s)' /\ s \in running'
      BY <1>0, <2>1 DEF Queued
    <2>3. ASSUME NEW x \in Sessions \ {s}
          PROVE  Queued(x)' <=> Queued(x)
      <3>1. ASSUME NEW k \in 1 .. Len(queue), queue[k] = x
            PROVE  k - 1 \in 1 .. Len(queue') /\ queue'[k - 1] = x
        BY <2>1, <2>3, <3>1
      <3>2. \A k \in 1 .. Len(queue') : k + 1 \in 1 .. Len(queue)
        BY <2>1
      <3> QED
        BY <2>1, <3>1, <3>2 DEF Queued
    <2>4. \A x \in Sessions \ {s} : Same(x)
      BY <2>3
    <2>5. task[s] = "running" /\ call[s] \in 0 .. 8
      BY <2>2, WorkTypes
    <2>6. WorkLeft(s) = 3 * (8 - call[s]) + 3 /\ WorkLeft(s)' = 3 * (8 - call[s]) + 2
      BY <2>2, <2>5, CallCount DEF WorkLeft
    <2> QED
      BY <1>1, <1>2, <2>4, <2>5, <2>6
  <1> QED
    BY <1>3, <1>4, <1>5, <1>6, <1>7

(* A process does a bounded number of steps, at most 26 for a pipeline, 2  *)
(* for an invitation and one for each phase and second of the shutdown: it *)
(* cannot go on for ever without ending, so all that ShutdownEnds and      *)
(* CallsGetThreads ask of fairness is that somebody moves.                 *)
THEOREM ServerStepsAreCounted ==
  Spec => /\ []/\ \A s \in Sessions : WorkLeft(s) \in 0 .. 26
               /\ \A i \in Invitations : MailLeft(i) \in 0 .. 2
               /\ TimeLeft \in 0 .. 5 + Grace
          /\ EveryMoveCounts
  <1> DEFINE Bounded == /\ \A s \in Sessions : WorkLeft(s) \in 0 .. 26
                        /\ \A i \in Invitations : MailLeft(i) \in 0 .. 2
                        /\ TimeLeft \in 0 .. 5 + Grace
  <1>1. ServerInv => Bounded
    <2> SUFFICES ASSUME ServerInv PROVE Bounded
      OBVIOUS
    <2>1. \A s \in Sessions : WorkLeft(s) \in 0 .. 26
      BY WorkTypes, WorkTable
    <2>2. \A i \in Invitations : MailLeft(i) \in 0 .. 2
      BY WorkTypes DEF MailLeft
    <2>3. TimeLeft \in 0 .. 5 + Grace
      BY WorkTypes DEF TimeLeft, PhasesLeft
    <2> QED
      BY <2>1, <2>2, <2>3
  <1>2. ASSUME ServerInv, ServerInv', Next
        PROVE  MoveCounts
    <2>0. /\ Bounded
          /\ clock \in 0 .. Grace /\ Grace \in Nat
          /\ TypeOK
      BY <1>1, <1>2, WorkTypes DEF ServerInv, ProcessInv
    <2>a. /\ \A s \in Sessions : WorkLeft(s) \in Int
          /\ \A i \in Invitations : MailLeft(i) \in Int
          /\ TimeLeft \in Int
      BY <2>0
    <2>1. ASSUME NEW s \in Sessions,
                 \/ Trigger(s) \/ Proceed(s) \/ Finish(s) \/ Returns(s)
                 \/ Take /\ Head(queue) = s
          PROVE  MoveCounts
      <3>1. /\ WorkLeft(s)' < WorkLeft(s)
            /\ \A x \in Sessions : WorkLeft(x)' <= WorkLeft(x)
            /\ UNCHANGED life /\ \A i \in Invitations : task'[i] = task[i]
        BY <1>2, <2>1, PipelineMoves
      <3>2. TimeLeft' = TimeLeft
        BY <3>1 DEF TimeLeft, PhasesLeft, life
      <3>3. \A i \in Invitations : MailLeft(i)' = MailLeft(i)
        BY <3>1 DEF MailLeft
      <3> QED
        BY <2>a, <3>1, <3>2, <3>3 DEF MoveCounts
    <2>2. CASE Take
      <3>1. Head(queue) \in Sessions
        BY <2>0, <2>2, QueueTail DEF Take, TypeOK
      <3> QED
        BY <2>1, <2>2, <3>1
    <2>3. ASSUME NEW i \in Invitations, Invite(i) \/ InvitationsSent(i)
          PROVE  MoveCounts
      <3>1. /\ UNCHANGED <<call, pool, life>>
            /\ \A x \in Tasks \ {i} : task'[x] = task[x]
            /\ \/ task[i] = "none" /\ task'[i] = "running"
               \/ task[i] = "running" /\ task'[i] = "done"
        BY <2>0, <2>3 DEF Invite, Begin, InvitationsSent, Running, TypeOK, Tasks
      <3>2. \A s \in Sessions : task'[s] = task[s]
        BY <3>1, TasksAssumption DEF Tasks
      <3>3. \A s \in Sessions : WorkLeft(s)' = WorkLeft(s)
        BY <3>1, <3>2 DEF WorkLeft, Queued, pool
      <3>4. TimeLeft' = TimeLeft
        BY <3>1 DEF TimeLeft, PhasesLeft, life
      <3>5. /\ MailLeft(i)' < MailLeft(i) /\ MailLeft(i)' <= MailLeft(i)
            /\ \A x \in Invitations \ {i} : MailLeft(x)' = MailLeft(x)
        BY <3>1 DEF MailLeft, Tasks
      <3> QED
        BY <2>a, <3>3, <3>4, <3>5 DEF MoveCounts
    <2>4. CASE Start \/ Interrupt \/ Drain \/ Tick \/ Exit
      <3>1. UNCHANGED <<loop, pool>>
        BY <2>4 DEF Start, Interrupt, Drain, Tick, Exit
      <3>2. /\ \A s \in Sessions : WorkLeft(s)' = WorkLeft(s)
            /\ \A i \in Invitations : MailLeft(i)' = MailLeft(i)
        BY <3>1 DEF WorkLeft, MailLeft, Queued, loop, pool
      <3>3. TimeLeft' < TimeLeft /\ TimeLeft' <= TimeLeft
        BY <2>0, <2>4 DEF TimeLeft, PhasesLeft, Start, Interrupt, Drain, Tick, Exit
      <3> QED
        BY <2>a, <3>2, <3>3 DEF MoveCounts
    <2>5. CASE EndDrain \/ ForceExit
      <3>1. CancelAll /\ phase \in {"closing", "draining"}
        BY <2>5 DEF EndDrain, ForceExit
      <3>2. \A t \in Tasks : task'[t] = IF task[t] = "running" THEN "cancelled" ELSE task[t]
        BY <3>1 DEF CancelAll, Running
      <3>3. ASSUME NEW s \in Sessions
            PROVE  WorkLeft(s)' <= WorkLeft(s)
        <4>1. ~Queued(s)' /\ call'[s] = call[s] /\ (s \in running' <=> s \in running)
          BY <3>1 DEF CancelAll, Queued
        <4>2. task'[s] = IF task[s] = "running" THEN "cancelled" ELSE task[s]
          BY <3>2 DEF Tasks
        <4>3. WorkLeft(s)' = IF task'[s] = "none" THEN 26 ELSE IF task'[s] = "done" THEN 0
                             ELSE IF s \in running THEN 3 * (8 - call[s]) + 2
                             ELSE 3 * (8 - call[s]) + 1
          BY <4>1, CallCount DEF WorkLeft
        <4> QED
          BY <1>2, <4>2, <4>3, WorkTable, WorkTypes
      <3>4. \A i \in Invitations : MailLeft(i)' <= MailLeft(i)
        BY <3>2 DEF MailLeft, Tasks
      <3>5. TimeLeft' < TimeLeft /\ TimeLeft' <= TimeLeft
        BY <2>0, <3>1 DEF TimeLeft, PhasesLeft, CancelAll
      <3> QED
        BY <3>3, <3>4, <3>5 DEF MoveCounts
    <2> QED
      BY <1>2, <2>1, <2>2, <2>3, <2>4, <2>5 DEF Next, Shutdown
  <1>3. ServerInv /\ ServerInv' /\ [Next]_vars => [MoveCounts]_vars
    BY <1>2
  <1> QED
    BY <1>1, <1>3, ServerInvariant, PTL DEF Spec, EveryMoveCounts
=============================================================================
