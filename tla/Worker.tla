------------------------------- MODULE Worker -------------------------------
(***************************************************************************)
(* The thread every service is built on (sonja/worker.py): an asyncio loop *)
(* of its own which runs one task, the endless loop of __work.  Other      *)
(* threads reach it only through the queue of callbacks of the loop, and   *)
(* through a semaphore by which a test or a shutdown pauses it.            *)
(*                                                                         *)
(* One action is one callback of the loop, or one step of the task between *)
(* two points where it may give up the thread.  While the task waits for   *)
(* the semaphore the whole thread blocks and no callback runs; while it    *)
(* executes work(), callbacks run whenever work() awaits something.        *)
(***************************************************************************)
EXTENDS Integers, Sequences, FiniteSets

CONSTANTS
    Payload,     \* what trigger() may carry
    NoPayload,   \* the payload of the first iteration
    MaxTriggers, \* how many calls of trigger() there are
    MaxPauses    \* how many calls of try_pause() succeed

ASSUME BoundsAssumption == MaxTriggers \in Nat /\ MaxPauses \in Nat

VARIABLES
    ready,      \* the callbacks the loop will run, in order
    timers,     \* how many timers reschedule_internally() has set
    task,       \* where the task of __work is
    payload,    \* its local variable payload
    future,     \* __future
    result,     \* the payload __future was completed with
    cancelled,  \* __cancelled
    semaphore,  \* the value of __semaphore
    isPaused,   \* __is_paused
    control,    \* where the controlling thread is in try_pause and resume
    cancelCall, \* cancel() was called
    triggers,   \* how many triggers there were
    pauses      \* how many times the worker was paused

loopVars == <<ready, timers>>
taskVars == <<task, payload, future, result, cancelled>>
controlVars == <<control, cancelCall, pauses>>
vars == <<loopVars, taskVars, semaphore, isPaused, controlVars, triggers>>

(* A callback in the queue of the loop:                                    *)
(*   main     the first step of __main   step  the first step of __work    *)
(*   trigger  __trigger(payload)         wake  __work goes on after await  *)
(*   cancel   __cancel                                                     *)
Callback == [kind : {"main", "step", "wake", "cancel"}]
            \cup [kind : {"trigger"}, payload : Payload]

Call(kind) == [kind |-> kind]
TriggerCall(p) == [kind |-> "trigger", payload |-> p]

(* Where the task is:                                                      *)
(*   none       start() not called  starting   run() has not begun yet     *)
(*   main       __main is queued    scheduled  created, has not run yet    *)
(*   working    in work()           waiting    awaits __future             *)
(*   woken      will go on soon     acquire    blocks on the semaphore     *)
(*   finished   over, cleanup() was called      skipped  never created     *)
Task == {"none", "starting", "main", "scheduled", "working", "waiting",
         "woken", "acquire", "finished", "skipped"}

Init ==
    /\ ready = <<>>
    /\ timers = [p \in Payload |-> 0]
    /\ task = "none"
    /\ payload = NoPayload
    /\ future = "none"
    /\ result = NoPayload
    /\ cancelled = FALSE
    /\ semaphore = 0
    /\ isPaused = FALSE
    /\ control = "created"
    /\ cancelCall = FALSE
    /\ triggers = 0
    /\ pauses = 0

-----------------------------------------------------------------------------
(* The loop runs its next callback. *)

LoopRuns == task \notin {"none", "starting", "acquire", "finished", "skipped"}

(* run(): what was called before stands in front of __main. *)
RunLoop ==
    /\ task = "starting"
    /\ task' = "main"
    /\ ready' = Append(ready, Call("main"))
    /\ UNCHANGED <<timers, payload, future, result, cancelled, semaphore,
                   isPaused, controlVars, triggers>>

Next1(kind) == LoopRuns /\ ready # <<>> /\ Head(ready).kind = kind

(* __main: nothing at all happens when cancel() came first. *)
RunMain ==
    /\ Next1("main")
    /\ IF cancelled
       THEN task' = "skipped" /\ ready' = Tail(ready)
       ELSE task' = "scheduled" /\ ready' = Append(Tail(ready), Call("step"))
    /\ UNCHANGED <<timers, payload, future, result, cancelled, semaphore,
                   isPaused, controlVars, triggers>>

(* The task ends with CancelledError and __main cleans up.  The semaphore  *)
(* keeps its value.                                                        *)
Finish ==
    /\ task' = "finished"
    /\ UNCHANGED <<payload, future, result>>

(* Mutant: no future exists before work() is over. *)
BeginWithoutFuture == task' = "working" /\ future' = "none" /\ UNCHANGED result

(* A fresh future, then work(payload) begins. *)
Begin ==
    /\ task' = "working"
    /\ future' = "pending"
    /\ UNCHANGED result

(* The first iteration owns the semaphore since the constructor. *)
RunStep ==
    /\ Next1("step")
    /\ ready' = Tail(ready)
    /\ IF cancelled THEN Finish ELSE Begin /\ UNCHANGED payload
    /\ UNCHANGED <<timers, cancelled, semaphore, isPaused, controlVars,
                   triggers>>

(* Mutant: whoever completes the future queues a wake-up. *)
TriggerAlwaysWakes ==
    /\ Next1("trigger") /\ future = "pending"
    /\ future' = "done"
    /\ result' = Head(ready).payload
    /\ ready' = Append(Tail(ready), Call("wake"))
    /\ UNCHANGED <<timers, task, payload, cancelled, semaphore, isPaused,
                   controlVars, triggers>>

(* __trigger: completes the future, unless it does not exist yet or is     *)
(* already done; the callback then dies with an exception.                 *)
RunTrigger ==
    /\ Next1("trigger")
    /\ IF future = "pending"
       THEN /\ future' = "done"
            /\ result' = Head(ready).payload
            /\ IF task = "waiting"
               THEN /\ task' = "woken"
                    /\ ready' = Append(Tail(ready), Call("wake"))
               ELSE ready' = Tail(ready) /\ UNCHANGED task
       ELSE ready' = Tail(ready) /\ UNCHANGED <<task, future, result>>
    /\ UNCHANGED <<timers, payload, cancelled, semaphore, isPaused,
                   controlVars, triggers>>

(* Mutant: the flag is set, the task is not cancelled. *)
CancelFlagOnly ==
    /\ Next1("cancel")
    /\ cancelled' = TRUE
    /\ ready' = Tail(ready)
    /\ UNCHANGED <<timers, task, payload, future, result, semaphore, isPaused,
                   controlVars, triggers>>

(* __cancel: a task which awaits the future is woken by cancelling the     *)
(* future, one which awaits something in work() is interrupted there.      *)
RunCancel ==
    /\ Next1("cancel")
    /\ cancelled' = TRUE
    /\ IF task = "waiting"
       THEN /\ future' = "done" /\ task' = "woken"
            /\ ready' = Append(Tail(ready), Call("wake"))
       ELSE ready' = Tail(ready) /\ UNCHANGED <<future, task>>
    /\ UNCHANGED <<timers, payload, result, semaphore, isPaused, controlVars,
                   triggers>>

(* __work goes on after `await self.__future`. *)
RunWake ==
    /\ Next1("wake")
    /\ ready' = Tail(ready)
    /\ IF cancelled THEN Finish
       ELSE /\ task' = "acquire" /\ payload' = result
            /\ UNCHANGED <<future, result>>
    /\ UNCHANGED <<timers, cancelled, semaphore, isPaused, controlVars,
                   triggers>>

-----------------------------------------------------------------------------
(* The task of __work. *)

Acquire ==
    /\ task = "acquire" /\ semaphore > 0
    /\ semaphore' = semaphore - 1
    /\ Begin
    /\ UNCHANGED <<loopVars, payload, cancelled, isPaused, controlVars,
                   triggers>>

(* work() returns, after it has scheduled the timers.  Awaiting a future   *)
(* which is done does not wait.                                            *)
Return(scheduled) ==
    /\ task = "working" /\ ~cancelled
    /\ semaphore' = semaphore + 1
    /\ timers' = scheduled
    /\ IF future = "done" THEN task' = "acquire" /\ payload' = result
       ELSE task' = "waiting" /\ UNCHANGED payload
    /\ UNCHANGED <<ready, future, result, cancelled, isPaused, controlVars,
                   triggers>>

(* reschedule_internally(delay, p), as the work() of a service calls it:   *)
(* at most once in an iteration.                                           *)
Rescheduled(p) == [timers EXCEPT ![p] = @ + 1]

EndWork == Return(timers) \/ \E p \in Payload : Return(Rescheduled(p))

(* CancelledError is raised in work() where it awaits something. *)
InterruptWork ==
    /\ task = "working" /\ cancelled
    /\ Finish
    /\ UNCHANGED <<loopVars, cancelled, semaphore, isPaused, controlVars,
                   triggers>>

-----------------------------------------------------------------------------
(* Everybody else. *)

(* The delay of a timer is over and the loop takes up its callback. *)
TimerExpires(p) ==
    /\ timers[p] > 0 /\ LoopRuns
    /\ timers' = [timers EXCEPT ![p] = @ - 1]
    /\ ready' = Append(ready, TriggerCall(p))
    /\ UNCHANGED <<taskVars, semaphore, isPaused, controlVars, triggers>>

(* trigger(), called by any thread at any time. *)
Trigger(p) ==
    /\ triggers < MaxTriggers
    /\ triggers' = triggers + 1
    /\ ready' = Append(ready, TriggerCall(p))
    /\ UNCHANGED <<timers, taskVars, semaphore, isPaused, controlVars>>

(* start() *)
Start ==
    /\ control = "created"
    /\ control' = "idle"
    /\ task' = "starting"
    /\ UNCHANGED <<loopVars, payload, future, result, cancelled, semaphore,
                   isPaused, cancelCall, triggers, pauses>>

(* try_pause(): the semaphore is taken first and the flag set later.       *)
(* Nobody pauses a worker which was cancelled.                             *)
TryPause ==
    /\ control = "idle" /\ ~cancelCall /\ pauses < MaxPauses
    /\ semaphore > 0
    /\ semaphore' = semaphore - 1
    /\ pauses' = pauses + 1
    /\ control' = "acquired"
    /\ UNCHANGED <<loopVars, taskVars, isPaused, cancelCall, triggers>>

SetPaused ==
    /\ control = "acquired"
    /\ isPaused' = TRUE
    /\ control' = "idle"
    /\ UNCHANGED <<loopVars, taskVars, semaphore, cancelCall, triggers,
                   pauses>>

(* Mutant: resume() does not look at __is_paused. *)
ResumeAnyway ==
    /\ control = "idle"
    /\ control' = "release"
    /\ UNCHANGED <<loopVars, taskVars, semaphore, isPaused, cancelCall,
                   triggers, pauses>>

(* resume() does nothing unless the worker is paused. *)
Resume ==
    /\ control = "idle" /\ isPaused
    /\ control' = "release"
    /\ UNCHANGED <<loopVars, taskVars, semaphore, isPaused, cancelCall,
                   triggers, pauses>>

(* cancel(): __cancel is queued, then resume() is called. *)
CallCancel ==
    /\ control = "idle" /\ ~cancelCall
    /\ cancelCall' = TRUE
    /\ ready' = Append(ready, Call("cancel"))
    /\ control' = IF isPaused THEN "release" ELSE "idle"
    /\ UNCHANGED <<timers, taskVars, semaphore, isPaused, triggers, pauses>>

Release ==
    /\ control = "release"
    /\ semaphore' = semaphore + 1
    /\ control' = "clear"
    /\ UNCHANGED <<loopVars, taskVars, isPaused, cancelCall, triggers, pauses>>

ClearPaused ==
    /\ control = "clear"
    /\ isPaused' = FALSE
    /\ control' = "idle"
    /\ UNCHANGED <<loopVars, taskVars, semaphore, cancelCall, triggers, pauses>>

-----------------------------------------------------------------------------

LoopNext == RunLoop \/ RunMain \/ RunStep \/ RunTrigger \/ RunCancel \/ RunWake

TaskNext == Acquire \/ EndWork \/ InterruptWork

ControlNext == \/ Start \/ TryPause \/ SetPaused \/ Resume \/ CallCancel
               \/ Release \/ ClearPaused

Next ==
    \/ LoopNext \/ TaskNext \/ ControlNext
    \/ \E p \in Payload : TimerExpires(p) \/ Trigger(p)

(* The loop runs its callbacks and the task goes on where it can.  work()  *)
(* is assumed to return or to be interrupted, and a thread which paused    *)
(* the worker to resume it; nobody needs to cancel the worker.             *)
Fairness ==
    /\ WF_vars(Start) /\ WF_vars(LoopNext)
    /\ WF_vars(EndWork) /\ WF_vars(InterruptWork) /\ SF_vars(Acquire)
    /\ \A p \in Payload : WF_vars(TimerExpires(p))
    /\ WF_vars(SetPaused) /\ WF_vars(Resume)
    /\ WF_vars(Release) /\ WF_vars(ClearPaused)

Spec == Init /\ [][Next]_vars /\ Fairness

-----------------------------------------------------------------------------
(* Properties *)

TypeOK ==
    /\ ready \in Seq(Callback)
    /\ timers \in [Payload -> Nat]
    /\ task \in Task
    /\ payload \in Payload \cup {NoPayload}
    /\ future \in {"none", "pending", "done"}
    /\ result \in Payload \cup {NoPayload}
    /\ cancelled \in BOOLEAN
    /\ semaphore \in Nat
    /\ isPaused \in BOOLEAN
    /\ control \in {"created", "idle", "acquired", "release", "clear"}
    /\ cancelCall \in BOOLEAN
    /\ triggers \in 0..MaxTriggers
    /\ pauses \in 0..MaxPauses

(* The task is never resumed twice: the queue holds at most one callback   *)
(* which moves the task, and that one fits what the task waits for.        *)
Moves(i) == ready[i].kind \in {"main", "step", "wake"}

OneStepQueued ==
    /\ \A i, j \in DOMAIN ready : Moves(i) /\ Moves(j) => i = j
    /\ \A i \in DOMAIN ready :
           /\ ready[i].kind = "main" => task = "main"
           /\ ready[i].kind = "step" => task = "scheduled"
           /\ ready[i].kind = "wake" => task = "woken"

(* The task is in possession of the semaphore: from the constructor to the *)
(* end of the first work(), then from acquire() to the end of work().  A   *)
(* task which is cancelled in work() never gives it back.                  *)
TaskHolds == \/ task \in {"none", "starting", "main", "scheduled", "working",
                         "skipped"}
             \/ task = "finished" /\ semaphore = 0

(* The controlling thread has taken the semaphore and not given it back.   *)
ControlHolds == control = "acquired" \/ (isPaused /\ control # "clear")

(* Pausing excludes working, through every interleaving of work, pause,    *)
(* resume and cancel: the semaphore is free, or exactly one of the two has *)
(* it.  In particular resume() never releases twice.                       *)
PauseExcludesWork ==
    /\ semaphore \in {0, 1}
    /\ ControlHolds => semaphore = 0 /\ task # "working"
    /\ ~ControlHolds => (semaphore = 0 <=> TaskHolds)

(* A worker that is paused stands still: no iteration begins until resume. *)
NoBeginWhilePaused ==
    [][task' = "working" /\ task # "working" => ~ControlHolds]_vars

(* cancel() ends the thread, also while it is paused, before it starts,    *)
(* and in the middle of work().                                            *)
CancelEnds == cancelCall ~> task \in {"finished", "skipped"}

TriggersIn(queue) == {i \in DOMAIN queue : queue[i].kind = "trigger"}

Mode == IF cancelled THEN "stopped" ELSE IF task = "working" THEN "busy" ELSE "idle"
Wanted == ~cancelled /\ (task \in {"none", "starting", "main", "scheduled"}
                         \/ future = "done")
InFlight == Cardinality(TriggersIn(ready))

Abstract == INSTANCE Wakeup WITH
    mode <- Mode, wanted <- Wanted, inflight <- InFlight

(* The worker implements Wakeup: no trigger is lost, however many threads  *)
(* trigger it at whatever moment, every trigger which arrives too late for *)
(* an iteration causes another one, and no iteration begins without one.   *)
ImplementsWakeup == Abstract!Spec

=============================================================================
