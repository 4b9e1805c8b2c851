------------------------------- MODULE Server -------------------------------
(***************************************************************************)
(* One server process from its start to its exit: the lifespan of          *)
(* backend/src/main.py with uvicorn around it (external), the tasks of its *)
(* event loop, and the thread pool (asyncio's default executor) to which   *)
(* every run_pipeline hands its blocking calls with asyncio.to_thread.     *)
(*                                                                         *)
(* POST /trigger leaves its pipeline to a BackgroundTask, which is a part  *)
(* of the request; the invitations are tasks of their own.  A call that    *)
(* has begun in a thread cannot be cancelled, and the process does not end *)
(* before its threads do.                                                  *)
(***************************************************************************)
EXTENDS Naturals, Sequences, FiniteSets

CONSTANTS
  Sessions,     \* pipelines, one per accepted POST /trigger
  Invitations,  \* tasks of POST .../invite
  PoolSize,     \* threads of the default executor
  Grace,        \* the 30 seconds of the lifespan, in ticks
  Serve,        \* uvicorn's own task, which awaits the lifespan
  Nobody        \* the recorder's owner when OBS is not recording

Tasks == Sessions \cup Invitations

ASSUME TasksAssumption == /\ Sessions \cap Invitations = {}
                          /\ Serve \notin Tasks /\ Nobody \notin Sessions
ASSUME PoolAssumption == PoolSize \in Nat \ {0} /\ Grace \in Nat

VARIABLES
  phase,    \* where the process is between init_db and its exit
  forced,   \* history: a second interrupt has ended the waiting
  task,     \* the state of each task
  call,     \* how many of its calls a pipeline has made
  queue,    \* calls waiting for a thread, by their pipelines
  running,  \* the pipelines a thread is working for
  recorder, \* OBS: who started the recording that is running
  pending,  \* the tasks the lifespan waits for
  clock     \* how long it has

loop == <<task, call>>
pool == <<queue, running, recorder>>
life == <<phase, forced, pending, clock>>
vars == <<loop, pool, life>>

-----------------------------------------------------------------------------
(* The blocking calls of a pipeline, in their order. *)
Calls == <<"join", "start", "wait", "stop", "leave", "extract", "transcribe", "summarise">>

Last == Len(Calls)

TypeOK ==
  /\ phase \in {"starting", "up", "closing", "draining", "exiting", "gone"}
  /\ forced \in BOOLEAN
  /\ task \in [Tasks -> {"none", "running", "done", "cancelled"}]
  /\ call \in [Sessions -> 0 .. Last]
  /\ queue \in Seq(Sessions)
  /\ running \in SUBSET Sessions
  /\ recorder \in Sessions \cup {Nobody}
  /\ pending \subseteq Tasks \cup {Serve}
  /\ clock \in 0 .. Grace

Init ==
  /\ phase = "starting"
  /\ forced = FALSE
  /\ task = [t \in Tasks |-> "none"]
  /\ call = [s \in Sessions |-> 0]
  /\ queue = << >>
  /\ running = {}
  /\ recorder = Nobody
  /\ pending = {}
  /\ clock = 0

Running(t) == task[t] = "running"

Queued(s) == \E k \in 1 .. Len(queue) : queue[k] = s

(* The coroutine of s is at the loop: none of its calls is pending. *)
AtLoop(s) == Running(s) /\ ~Queued(s) /\ s \notin running

-----------------------------------------------------------------------------
(* Start, requests *)

(* init_db connects, or raises and the process ends. *)
Start ==
  /\ phase = "starting"
  /\ phase' \in {"up", "gone"}
  /\ UNCHANGED <<loop, pool, forced, pending, clock>>

(* A request under way when the interrupt comes is still answered. *)
Begin(t) ==
  /\ phase \in {"up", "closing"}
  /\ task[t] = "none"
  /\ task' = [task EXCEPT ![t] = "running"]
  /\ UNCHANGED <<call, pool, life>>

(* trigger_pipeline *)
Trigger(s) == Begin(s)

(* send_invitations *)
Invite(i) == Begin(i)

(* send_meeting_invitation has gone through its list; each failure is      *)
(* logged.  A mail server that does not answer keeps it waiting, for each  *)
(* address as long as the SMTP library lets it.                            *)
InvitationsSent(i) ==
  /\ Running(i)
  /\ task' = [task EXCEPT ![i] = "done"]
  /\ UNCHANGED <<call, pool, life>>

-----------------------------------------------------------------------------
(* Pipelines and threads *)

(* After an exception no call of the pipeline is left. *)
GivesUp(s) == call' = [call EXCEPT ![s] = Last]

(* The coroutine goes on to its next call, or raises before it. *)
Proceed(s) ==
  /\ AtLoop(s) /\ call[s] < Last
  /\ \/ /\ call' = [call EXCEPT ![s] = @ + 1]
        /\ queue' = Append(queue, s)
     \/ /\ GivesUp(s)
        /\ UNCHANGED queue
  /\ UNCHANGED <<task, running, recorder, life>>

(* The rest of run_pipeline: the report and its mails, or the except block. *)
Finish(s) ==
  /\ AtLoop(s) /\ call[s] = Last
  /\ task' = [task EXCEPT ![s] = "done"]
  /\ UNCHANGED <<call, pool, life>>

(* A free thread takes the call that has waited longest. *)
Take ==
  /\ queue # << >> /\ Cardinality(running) < PoolSize
  /\ running' = running \cup {Head(queue)}
  /\ queue' = Tail(queue)
  /\ UNCHANGED <<loop, recorder, life>>

(* What the call of s has done to OBS when it returns, or that it raises:  *)
(* capture.start does not wait for a recording of somebody else to end,    *)
(* and a capture.stop that fails, with the search for the file after it,   *)
(* is one call that leaves OBS as it was.                                  *)
Outcome(s) ==
  \/ GivesUp(s) /\ UNCHANGED recorder
  \/ /\ Calls[call[s]] = "start" /\ recorder = Nobody
     /\ recorder' = s
     /\ UNCHANGED call
  \/ /\ Calls[call[s]] = "stop"
     /\ recorder' \in {Nobody, recorder}
     /\ UNCHANGED call
  \/ /\ Calls[call[s]] \notin {"start", "stop"}
     /\ UNCHANGED <<recorder, call>>

(* Mutant: capture.start waits until OBS is free. *)
Returns_WhenFree(s) ==
  /\ s \in running
  /\ Calls[call[s]] = "start" => recorder = Nobody
  /\ running' = running \ {s}
  /\ Outcome(s)
  /\ UNCHANGED <<task, queue, life>>

(* A call returns to its thread, whether or not its pipeline is there. *)
Returns(s) ==
  /\ s \in running
  /\ running' = running \ {s}
  /\ Outcome(s)
  /\ UNCHANGED <<task, queue, life>>

-----------------------------------------------------------------------------
(* Shutdown *)

(* The process is asked to end: it takes no more connections. *)
Interrupt ==
  /\ phase = "up"
  /\ phase' = "closing"
  /\ UNCHANGED <<loop, pool, forced, pending, clock>>

(* Mutant: the pipeline is a task of its own, which no request waits for. *)
Answered_Detached == TRUE

(* Every request is over, background tasks included. *)
Answered == \A s \in Sessions : ~Running(s)

(* The lifespan goes on after its yield: it waits for every task but its own. *)
Drain ==
  /\ phase = "closing" /\ Answered
  /\ phase' = "draining"
  /\ pending' = {t \in Tasks : Running(t)} \cup {Serve}
  /\ UNCHANGED <<loop, pool, forced, clock>>

(* uvicorn's task returns after the lifespan has. *)
Finished(t) == IF t = Serve THEN phase \in {"exiting", "gone"} ELSE ~Running(t)

Tick ==
  /\ phase = "draining" /\ clock < Grace
  /\ clock' = clock + 1
  /\ UNCHANGED <<loop, pool, phase, forced, pending>>

(* Mutants: asyncio.wait with return_when=FIRST_COMPLETED, and without its *)
(* timeout.                                                                *)
Waited_First == clock = Grace \/ \E t \in pending : Finished(t)
Waited_Untimed == \A t \in pending : Finished(t)

(* asyncio.wait(pending, timeout=30) *)
Waited == clock = Grace \/ \A t \in pending : Finished(t)

(* Every task that is left is cancelled, its call withdrawn if no thread   *)
(* has taken it.                                                           *)
CancelAll ==
  /\ task' = [t \in Tasks |-> IF Running(t) THEN "cancelled" ELSE task[t]]
  /\ queue' = << >>
  /\ phase' = "exiting"
  /\ UNCHANGED <<call, running, recorder, pending, clock>>

EndDrain ==
  /\ phase = "draining" /\ Waited
  /\ CancelAll
  /\ UNCHANGED forced

(* A second interrupt: uvicorn waits no longer, and skips the lifespan. *)
ForceExit ==
  /\ phase = "closing"
  /\ CancelAll
  /\ forced' = TRUE

(* The executor's threads are joined, then the process is over. *)
Exit ==
  /\ phase = "exiting" /\ running = {}
  /\ phase' = "gone"
  /\ UNCHANGED <<loop, pool, forced, pending, clock>>

-----------------------------------------------------------------------------
Shutdown == Interrupt \/ Drain \/ Tick \/ EndDrain \/ ForceExit \/ Exit

Next ==
  \/ Start \/ Take \/ Shutdown
  \/ \E s \in Sessions : Trigger(s) \/ Proceed(s) \/ Finish(s) \/ Returns(s)
  \/ \E i \in Invitations : Invite(i) \/ InvitationsSent(i)

(* The loop runs what is ready, a free thread takes what is queued, every  *)
(* blocking call returns in the end (the meetings included), time passes.  *)
(* Nothing makes a mail server answer, or the operator interrupt.          *)
Fairness ==
  /\ WF_vars(Take) /\ WF_vars(Drain \/ Tick \/ EndDrain \/ Exit)
  /\ \A s \in Sessions : WF_vars(Proceed(s) \/ Finish(s)) /\ WF_vars(Returns(s))

Spec == Init /\ [][Next]_vars /\ Fairness
-----------------------------------------------------------------------------
(* What a process promises *)

(* Unless a second interrupt comes, the shutdown cuts off no pipeline,     *)
(* however long its meeting goes on (the 30 seconds of the lifespan begin  *)
(* when the last pipeline has ended), and an invitation only after all of  *)
(* those 30 seconds.                                                       *)
NothingCutEarly ==
  \A t \in Tasks : task[t] = "cancelled" => forced \/ (t \in Invitations /\ clock = Grace)

(* A call that waits for a thread gets one, or its pipeline is cancelled:  *)
(* the threads that meetings hold are never all held by calls that wait    *)
(* for one another, because OBS refuses a second recording.                *)
CallsGetThreads == \A s \in Sessions : Queued(s) ~> ~Queued(s)

(* A shutdown ends, although the lifespan waits for the task that waits    *)
(* for the lifespan.                                                       *)
ShutdownEnds == phase = "closing" ~> phase = "gone"

-----------------------------------------------------------------------------
(* The inductive invariant.                                                *)

(* A pipeline has one call at a time, and nobody's call is queued who is   *)
(* not waiting for it.                                                     *)
OneCallEach ==
  /\ \A k \in 1 .. Len(queue) : Running(queue[k]) /\ queue[k] \notin running
  /\ \A j, k \in 1 .. Len(queue) : queue[j] = queue[k] => j = k
  /\ \A s \in running : call[s] > 0
  /\ \A k \in 1 .. Len(queue) : call[queue[k]] > 0

PoolBounded == IsFiniteSet(running) /\ Cardinality(running) <= PoolSize

(* Whose tasks there can be, in the order of the phases. *)
PhasesFit ==
  /\ phase \in {"starting", "up", "closing"} => clock = 0 /\ ~forced
  /\ phase = "draining" => /\ ~forced
                           /\ \A t \in Tasks : Running(t) => t \in Invitations \cap pending
  /\ phase \in {"starting", "exiting", "gone"} => \A t \in Tasks : ~Running(t)
  /\ phase \in {"starting", "gone"} => running = {}
  /\ \A t \in Tasks : task[t] = "cancelled" => phase \in {"exiting", "gone"}

ProcessInv == TypeOK /\ OneCallEach /\ PoolBounded /\ PhasesFit /\ NothingCutEarly

(* A thread works for nobody who has not begun, or has returned. *)
CallsFit == \A s \in Sessions : /\ task[s] = "none" => call[s] = 0
                                /\ s \in running => task[s] \in {"running", "cancelled"}

ServerInv == ProcessInv /\ CallsFit

-----------------------------------------------------------------------------
(* Why everything ends: what fairness has to bring to an end is finite.    *)

(* The steps that a pipeline has left, its calls and the thread that a     *)
(* cancelled one leaves behind included, ...                               *)
WorkLeft(s) ==
  CASE task[s] = "none" -> 3 * Last + 2
    [] task[s] = "done" -> 0
    [] OTHER -> 3 * (Last - call[s])
                + (IF Queued(s) THEN 3 ELSE IF s \in running THEN 2 ELSE 1)

(* ... that an invitation has, ...                                         *)
MailLeft(i) == CASE task[i] = "none" -> 2 [] task[i] = "running" -> 1 [] OTHER -> 0

(* ... and the phases and seconds that the process has.                    *)
PhasesLeft == CASE phase = "starting" -> 5 [] phase = "up" -> 4 [] phase = "closing" -> 3
                [] phase = "draining" -> 2 [] phase = "exiting" -> 1 [] phase = "gone" -> 0

TimeLeft == PhasesLeft + (Grace - clock)

MoveCounts ==
  /\ \A s \in Sessions : WorkLeft(s)' <= WorkLeft(s)
  /\ \A i \in Invitations : MailLeft(i)' <= MailLeft(i)
  /\ TimeLeft' <= TimeLeft
  /\ \/ \E s \in Sessions : WorkLeft(s)' < WorkLeft(s)
     \/ \E i \in Invitations : MailLeft(i)' < MailLeft(i)
     \/ TimeLeft' < TimeLeft

(* Nobody is given work back: each step of the process brings a pipeline,  *)
(* an invitation or the shutdown closer to its end and none away from it.  *)
EveryMoveCounts == [][MoveCounts]_vars

(* The pipelines whose calls a thread takes before that of s. *)
Ahead(s) == {queue[j] : j \in {j \in 1 .. Len(queue) :
                                 \E k \in j + 1 .. Len(queue) : queue[k] = s}}

(* Calls that wait for a thread are served in their order, over a whole    *)
(* pool of meetings: nobody gets ahead of a call that waits, which is      *)
(* taken, or withdrawn by the end of the process, and nothing else.        *)
InTurn(s) ==
  Queued(s) => IF Queued(s)' THEN Ahead(s)' \subseteq Ahead(s)
               ELSE phase' = "exiting" \/ (Ahead(s) = {} /\ s \in running')

CallsTakenInTurn == [][\A s \in Sessions : InTurn(s)]_vars
=============================================================================
