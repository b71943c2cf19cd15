---------------------------- MODULE WorkerProofs ----------------------------
(***************************************************************************)
(* Proofs about Worker for any payloads and any number of triggers and     *)
(* pauses.                                                                 *)
(***************************************************************************)
EXTENDS Worker, FiniteSetTheorems, TLAPS

-----------------------------------------------------------------------------
(* The queue of callbacks. *)

(* What callbacks look like. *)
LEMMA CallbackTypes ==
    /\ \A k \in {"main", "step", "wake", "cancel"} :
           Call(k) \in Callback /\ Call(k).kind = k
    /\ \A p \in Payload :
           TriggerCall(p) \in Callback /\ TriggerCall(p).kind = "trigger"
    /\ \A c \in Callback : c.kind = "trigger" => c.payload \in Payload
  BY DEF Callback, Call, TriggerCall

(* What call_soon does to a queue. *)
LEMMA AppendAt ==
    ASSUME NEW s \in Seq(Callback), NEW c \in Callback
    PROVE  /\ Append(s, c) \in Seq(Callback)
           /\ DOMAIN Append(s, c) = 1..(Len(s) + 1)
           /\ DOMAIN s = 1..Len(s) /\ Len(s) \in Nat
           /\ \A i \in 1..Len(s) : Append(s, c)[i] = s[i]
           /\ Append(s, c)[Len(s) + 1] = c
  OBVIOUS

(* What running the first callback does to a queue. *)
LEMMA TailAt ==
    ASSUME NEW s \in Seq(Callback), s # <<>>
    PROVE  /\ Tail(s) \in Seq(Callback)
           /\ DOMAIN s = 1..Len(s) /\ Len(s) \in Nat /\ Len(s) > 0
           /\ DOMAIN Tail(s) = 1..(Len(s) - 1)
           /\ \A i \in 1..(Len(s) - 1) : Tail(s)[i] = s[i + 1]
           /\ Head(s) = s[1] /\ Head(s) \in Callback
  OBVIOUS

-----------------------------------------------------------------------------
(* The first state and the steps, type by type. *)
LEMMA TypeInit == Init => TypeOK
<1> SUFFICES ASSUME Init PROVE TypeOK
  OBVIOUS
<1>1. cancelled \in BOOLEAN /\ isPaused \in BOOLEAN /\ cancelCall \in BOOLEAN
  BY DEF Init
<1>2. triggers \in 0..MaxTriggers /\ pauses \in 0..MaxPauses
  BY BoundsAssumption DEF Init
<1>3. QED
  BY <1>1, <1>2 DEF Init, TypeOK, Task

(* Every step keeps the types. *)
LEMMA TypeStep == TypeOK /\ [Next]_vars => TypeOK'
<1> SUFFICES ASSUME TypeOK, [Next]_vars PROVE TypeOK'
  OBVIOUS
<1>a. /\ Call("step") \in Callback /\ Call("wake") \in Callback
      /\ Call("main") \in Callback /\ Call("cancel") \in Callback
      /\ \A p \in Payload : TriggerCall(p) \in Callback
  BY CallbackTypes
<1>b. /\ ready # <<>> => Tail(ready) \in Seq(Callback)
      /\ \A c \in Callback : Append(ready, c) \in Seq(Callback)
      /\ \A c \in Callback :
             ready # <<>> => Append(Tail(ready), c) \in Seq(Callback)
  BY TailAt, AppendAt DEF TypeOK
<1>1. ASSUME RunMain PROVE TypeOK'
  <2>1. ready' \in Seq(Callback) /\ task' \in Task
    BY <1>1, <1>a, <1>b DEF RunMain, Next1, Task
  <2>2. QED
    BY <1>1, <2>1 DEF RunMain, controlVars, TypeOK
<1>2. ASSUME RunStep PROVE TypeOK'
  BY <1>2, <1>b DEF RunStep, Next1, Finish, Begin, controlVars, TypeOK, Task
<1>3. ASSUME RunTrigger PROVE TypeOK'
  <2>1. Head(ready) \in Callback /\ Head(ready).kind = "trigger"
    BY <1>3, TailAt DEF RunTrigger, Next1, TypeOK
  <2>2. Head(ready).payload \in Payload
    BY <2>1, CallbackTypes
  <2>3. ready' \in Seq(Callback)
    BY <1>3, <1>a, <1>b DEF RunTrigger, Next1
  <2>4. /\ task' \in Task
        /\ future' \in {"none", "pending", "done"}
        /\ result' \in Payload \cup {NoPayload}
    BY <1>3, <2>2 DEF RunTrigger, TypeOK, Task
  <2>5. QED
    BY <1>3, <2>3, <2>4 DEF RunTrigger, controlVars, TypeOK
<1>4. ASSUME RunCancel PROVE TypeOK'
  <2>1. /\ ready' \in Seq(Callback) /\ task' \in Task
        /\ future' \in {"none", "pending", "done"}
    BY <1>4, <1>a, <1>b DEF RunCancel, Next1, TypeOK, Task
  <2>2. QED
    BY <1>4, <2>1 DEF RunCancel, controlVars, TypeOK
<1>5. ASSUME RunWake PROVE TypeOK'
  BY <1>5, <1>b DEF RunWake, Next1, Finish, controlVars, TypeOK, Task
<1>6. ASSUME Acquire PROVE TypeOK'
  BY <1>6 DEF Acquire, Begin, loopVars, controlVars, TypeOK, Task
<1>7. ASSUME EndWork PROVE TypeOK'
  BY <1>7 DEF EndWork, Return, Rescheduled, controlVars, TypeOK, Task
<1>8. ASSUME InterruptWork PROVE TypeOK'
  BY <1>8 DEF InterruptWork, Finish, loopVars, controlVars, TypeOK, Task
<1>0. ASSUME RunLoop PROVE TypeOK'
  <2>1. ready' \in Seq(Callback) /\ task' \in Task
    BY <1>0, <1>a, <1>b DEF RunLoop, Task
  <2>2. QED
    BY <1>0, <2>1 DEF RunLoop, controlVars, TypeOK
<1>9. ASSUME Start PROVE TypeOK'
  BY <1>9 DEF Start, loopVars, TypeOK, Task
<1>10. ASSUME TryPause PROVE TypeOK'
  BY <1>10, BoundsAssumption DEF TryPause, loopVars, taskVars, TypeOK, Task
<1>11. ASSUME SetPaused PROVE TypeOK'
  BY <1>11 DEF SetPaused, loopVars, taskVars, TypeOK, Task
<1>12. ASSUME Resume PROVE TypeOK'
  BY <1>12 DEF Resume, loopVars, taskVars, TypeOK, Task
<1>13. ASSUME CallCancel PROVE TypeOK'
  <2>1. ready' \in Seq(Callback)
    BY <1>13, <1>a, <1>b DEF CallCancel
  <2>2. QED
    BY <1>13, <2>1, BoundsAssumption DEF CallCancel, taskVars, TypeOK
<1>14. ASSUME Release PROVE TypeOK'
  BY <1>14 DEF Release, loopVars, taskVars, TypeOK, Task
<1>15. ASSUME ClearPaused PROVE TypeOK'
  BY <1>15 DEF ClearPaused, loopVars, taskVars, TypeOK, Task
<1>16. ASSUME NEW p \in Payload, TimerExpires(p) PROVE TypeOK'
  <2>1. ready' \in Seq(Callback)
    BY <1>16, <1>a, <1>b DEF TimerExpires
  <2>2. QED
    BY <1>16, <2>1 DEF TimerExpires, taskVars, controlVars, TypeOK
<1>17. ASSUME NEW p \in Payload, Trigger(p) PROVE TypeOK'
  <2>1. ready' \in Seq(Callback)
    BY <1>17, <1>a, <1>b DEF Trigger
  <2>2. QED
    BY <1>17, <2>1, BoundsAssumption DEF Trigger, taskVars, controlVars, TypeOK
<1>18. CASE UNCHANGED vars
  BY <1>18 DEF vars, loopVars, taskVars, controlVars, TypeOK, Task
<1>19. QED
  BY <1>0, <1>1, <1>2, <1>3, <1>4, <1>5, <1>6, <1>7, <1>8, <1>9, <1>10, <1>11,
     <1>12, <1>13, <1>14, <1>15, <1>16, <1>17, <1>18
  DEF Next, LoopNext, TaskNext, ControlNext

(* Safety needs no fairness: the proofs are about the steps alone, and so  *)
(* apply to every service whose steps are steps of a worker.               *)
Steps == Init /\ [][Next]_vars

(* The types, from the first state on. *)
LEMMA TypeKept == Steps => []TypeOK
  BY TypeInit, TypeStep, PTL DEF Steps

(* Type correctness: the queue of the loop holds callbacks only, and every *)
(* payload is one that somebody triggered the worker with.                 *)
THEOREM TypeCorrect == Spec => []TypeOK
  BY TypeKept, PTL DEF Spec, Steps

-----------------------------------------------------------------------------
(* No callback which moves the task is left when one of them is run. *)
LEMMA TailHasNoMover ==
    ASSUME TypeOK, OneStepQueued, ready # <<>>,
           Head(ready).kind \in {"main", "step", "wake"}
    PROVE  \A i \in DOMAIN Tail(ready) :
               Tail(ready)[i].kind \notin {"main", "step", "wake"}
  BY TailAt DEF TypeOK, OneStepQueued, Moves

(* A callback which does not move the task may be run or queued. *)
LEMMA QueueOthers ==
    ASSUME TypeOK, OneStepQueued, task' = task,
           \/ ready' = ready
           \/ ready # <<>> /\ ready' = Tail(ready)
           \/ \E c \in Callback : /\ c.kind \in {"trigger", "cancel"}
                                  /\ ready' = Append(ready, c)
    PROVE  OneStepQueued'
<1>1. CASE ready' = ready
  BY <1>1 DEF OneStepQueued, Moves
<1>2. CASE ready # <<>> /\ ready' = Tail(ready)
  BY <1>2, TailAt DEF TypeOK, OneStepQueued, Moves
<1>3. ASSUME NEW c \in Callback, c.kind \in {"trigger", "cancel"},
             ready' = Append(ready, c)
      PROVE  OneStepQueued'
  BY <1>3, AppendAt DEF TypeOK, OneStepQueued, Moves
<1>4. QED
  BY <1>1, <1>2, <1>3

(* The task is never resumed twice: at most one callback that moves it is  *)
(* queued, and it is the one the task waits for.  The control state of the *)
(* creator says that the first of them is queued once.                     *)
StepInv ==
    /\ OneStepQueued
    /\ control = "created" => task = "none"

(* The strengthened invariant is inductive. *)
LEMMA StepInit == Init => StepInv
  BY DEF Init, StepInv, OneStepQueued, Moves

(* ... and every step keeps it. *)
LEMMA StepStep == TypeOK /\ StepInv /\ [Next]_vars => StepInv'
<1> SUFFICES ASSUME TypeOK, StepInv, [Next]_vars PROVE StepInv'
  OBVIOUS
<1> USE DEF StepInv
<1>0. ASSUME RunLoop PROVE StepInv'
  <2>1. /\ task = "starting" /\ task' = "main" /\ control' = control
        /\ ready' = Append(ready, Call("main"))
    BY <1>0 DEF RunLoop, controlVars
  <2>2. QED
    BY <2>1, AppendAt, CallbackTypes DEF TypeOK, OneStepQueued, Moves
<1>1. ASSUME RunMain PROVE StepInv'
  <2>1. /\ ready # <<>> /\ Head(ready).kind = "main"
        /\ control' = control /\ control # "created"
    BY <1>1 DEF RunMain, Next1, LoopRuns, controlVars
  <2>2. CASE cancelled
    BY <1>1, <2>1, <2>2, TailHasNoMover DEF RunMain, OneStepQueued, Moves
  <2>3. CASE ~cancelled
    <3>1. task' = "scheduled" /\ ready' = Append(Tail(ready), Call("step"))
      BY <1>1, <2>3 DEF RunMain
    <3>2. QED
      BY <2>1, <3>1, TailHasNoMover, TailAt, AppendAt, CallbackTypes
      DEF TypeOK, OneStepQueued, Moves
  <2>4. QED
    BY <2>2, <2>3
<1>2. ASSUME RunStep PROVE StepInv'
  BY <1>2, TailHasNoMover
  DEF RunStep, Next1, LoopRuns, controlVars, OneStepQueued, Moves
<1>3. ASSUME RunTrigger PROVE StepInv'
  <2>1. /\ ready # <<>>
        /\ control' = control /\ control # "created"
    BY <1>3 DEF RunTrigger, Next1, LoopRuns, controlVars
  <2>2. CASE future = "pending" /\ task = "waiting"
    <3>1. task' = "woken" /\ ready' = Append(Tail(ready), Call("wake"))
      BY <1>3, <2>2 DEF RunTrigger
    <3>2. QED
      BY <2>1, <2>2, <3>1, TailAt, AppendAt, CallbackTypes
      DEF TypeOK, OneStepQueued, Moves
  <2>3. CASE ~(future = "pending" /\ task = "waiting")
    BY <1>3, <2>1, <2>3, QueueOthers DEF RunTrigger
  <2>4. QED
    BY <2>2, <2>3
<1>4. ASSUME RunCancel PROVE StepInv'
  <2>1. /\ ready # <<>>
        /\ control' = control /\ control # "created"
    BY <1>4 DEF RunCancel, Next1, LoopRuns, controlVars
  <2>2. CASE task = "waiting"
    <3>1. task' = "woken" /\ ready' = Append(Tail(ready), Call("wake"))
      BY <1>4, <2>2 DEF RunCancel
    <3>2. QED
      BY <2>1, <2>2, <3>1, TailAt, AppendAt, CallbackTypes
      DEF TypeOK, OneStepQueued, Moves
  <2>3. CASE task # "waiting"
    BY <1>4, <2>1, <2>3, QueueOthers DEF RunCancel
  <2>4. QED
    BY <2>2, <2>3
<1>5. ASSUME RunWake PROVE StepInv'
  BY <1>5, TailHasNoMover
  DEF RunWake, Next1, LoopRuns, controlVars, OneStepQueued, Moves
<1>6. ASSUME Acquire PROVE StepInv'
  BY <1>6 DEF Acquire, Begin, loopVars, controlVars, OneStepQueued, Moves
<1>7. ASSUME EndWork PROVE StepInv'
  BY <1>7 DEF EndWork, Return, controlVars, OneStepQueued, Moves
<1>8. ASSUME InterruptWork PROVE StepInv'
  BY <1>8
  DEF InterruptWork, Finish, loopVars, controlVars, OneStepQueued, Moves
<1>9. ASSUME Start PROVE StepInv'
  BY <1>9 DEF Start, loopVars, OneStepQueued, Moves
<1>10. ASSUME TryPause PROVE StepInv'
  BY <1>10, QueueOthers DEF TryPause, loopVars, taskVars
<1>11. ASSUME SetPaused PROVE StepInv'
  BY <1>11, QueueOthers DEF SetPaused, loopVars, taskVars
<1>12. ASSUME Resume PROVE StepInv'
  BY <1>12, QueueOthers DEF Resume, loopVars, taskVars
<1>13. ASSUME CallCancel PROVE StepInv'
  <2>1. /\ task' = task /\ control # "created" /\ control' # "created"
        /\ ready' = Append(ready, Call("cancel"))
    BY <1>13 DEF CallCancel, taskVars
  <2>2. QED
    BY <2>1, CallbackTypes, QueueOthers
<1>14. ASSUME Release PROVE StepInv'
  BY <1>14, QueueOthers DEF Release, loopVars, taskVars
<1>15. ASSUME ClearPaused PROVE StepInv'
  BY <1>15, QueueOthers DEF ClearPaused, loopVars, taskVars
<1>16. ASSUME NEW p \in Payload, TimerExpires(p) PROVE StepInv'
  <2>1. /\ task' = task /\ control' = control
        /\ ready' = Append(ready, TriggerCall(p))
    BY <1>16 DEF TimerExpires, taskVars, controlVars
  <2>2. QED
    BY <2>1, CallbackTypes, QueueOthers
<1>17. ASSUME NEW p \in Payload, Trigger(p) PROVE StepInv'
  <2>1. /\ task' = task /\ control' = control
        /\ ready' = Append(ready, TriggerCall(p))
    BY <1>17 DEF Trigger, taskVars, controlVars
  <2>2. QED
    BY <2>1, CallbackTypes, QueueOthers
<1>18. CASE UNCHANGED vars
  BY <1>18
  DEF vars, loopVars, taskVars, controlVars, OneStepQueued, Moves
<1>19. QED
  BY <1>0, <1>1, <1>2, <1>3, <1>4, <1>5, <1>6, <1>7, <1>8, <1>9, <1>10, <1>11,
     <1>12, <1>13, <1>14, <1>15, <1>16, <1>17, <1>18
  DEF Next, LoopNext, TaskNext, ControlNext

(* Both together. *)
LEMMA StepKept == Steps => []StepInv
  BY StepInit, StepStep, TypeKept, PTL DEF Steps

(* Through triggers, timers and cancellations in any order the loop never  *)
(* resumes the task twice, or where it does not wait.                      *)
THEOREM SingleResumption == Spec => []OneStepQueued
<1>1. StepInv => OneStepQueued
  BY DEF StepInv
<1>2. QED
  BY <1>1, StepKept, PTL DEF Spec, Steps

-----------------------------------------------------------------------------
(* Before its first iteration ends the task is in possession of the        *)
(* semaphore since the constructor.                                        *)
NeverReleased ==
    task \in {"none", "starting", "main", "scheduled", "working", "skipped"}

(* What makes PauseExcludesWork inductive: nobody can pause a worker which *)
(* has not released the semaphore, and the flag __is_paused is set exactly *)
(* between the end of try_pause() and the end of resume().                 *)
SemaphoreInv ==
    /\ PauseExcludesWork
    /\ ControlHolds => ~NeverReleased
    /\ control \in {"created", "acquired"} => ~isPaused
    /\ control \in {"release", "clear"} => isPaused

(* Nothing that leaves semaphore and control thread alone matters, unless  *)
(* the task changes sides.                                                 *)
LEMMA SidesKept ==
    ASSUME SemaphoreInv, UNCHANGED <<semaphore, isPaused, control>>,
           NeverReleased' <=> NeverReleased,
           task = "finished" => task' = "finished"
    PROVE  SemaphoreInv'
<1>1. ControlHolds' <=> ControlHolds
  BY DEF ControlHolds
<1>2. ~ControlHolds => (semaphore' = 0 <=> TaskHolds')
  BY DEF SemaphoreInv, PauseExcludesWork, TaskHolds, NeverReleased
<1>3. ControlHolds => semaphore' = 0 /\ task' # "working"
  BY DEF SemaphoreInv, PauseExcludesWork, NeverReleased
<1>4. QED
  BY <1>1, <1>2, <1>3 DEF SemaphoreInv, PauseExcludesWork

(* The strengthened invariant is inductive. *)
LEMMA SemaphoreKept == Steps => []SemaphoreInv
<1>1. Init => SemaphoreInv
  BY DEF Init, SemaphoreInv, PauseExcludesWork, ControlHolds, TaskHolds,
         NeverReleased
<1>2. TypeOK /\ StepInv /\ SemaphoreInv /\ [Next]_vars => SemaphoreInv'
  <2> SUFFICES ASSUME TypeOK, StepInv, OneStepQueued, SemaphoreInv,
                      [Next]_vars
               PROVE  SemaphoreInv'
    BY DEF StepInv
  <2>a. \A k : Next1(k) => 1 \in DOMAIN ready /\ ready[1].kind = k
    BY TailAt DEF Next1, TypeOK
  <2>0. ASSUME RunLoop PROVE SemaphoreInv'
    BY <2>0, SidesKept DEF RunLoop, controlVars, NeverReleased
  <2>1. ASSUME RunMain PROVE SemaphoreInv'
    <3>1. task = "main"
      BY <2>1, <2>a DEF RunMain, OneStepQueued
    <3>2. QED
      BY <2>1, <3>1, SidesKept DEF RunMain, controlVars, NeverReleased
  <2>2. ASSUME RunStep PROVE SemaphoreInv'
    <3>1. /\ task = "scheduled" /\ task' \in {"finished", "working"}
          /\ UNCHANGED <<semaphore, isPaused, control>>
      BY <2>2, <2>a DEF RunStep, OneStepQueued, Finish, Begin, controlVars
    <3>2. ~ControlHolds /\ ~ControlHolds' /\ semaphore = 0
      BY <3>1 DEF SemaphoreInv, PauseExcludesWork, ControlHolds, TaskHolds,
                  NeverReleased
    <3>3. TaskHolds'
      BY <3>1, <3>2 DEF TaskHolds
    <3>4. QED
      BY <3>1, <3>2, <3>3 DEF SemaphoreInv, PauseExcludesWork
  <2>3. ASSUME RunTrigger PROVE SemaphoreInv'
    BY <2>3, SidesKept DEF RunTrigger, controlVars, NeverReleased
  <2>4. ASSUME RunCancel PROVE SemaphoreInv'
    BY <2>4, SidesKept DEF RunCancel, controlVars, NeverReleased
  <2>5. ASSUME RunWake PROVE SemaphoreInv'
    <3>1. task = "woken"
      BY <2>5, <2>a DEF RunWake, OneStepQueued
    <3>2. QED
      BY <2>5, <3>1, SidesKept DEF RunWake, Finish, controlVars, NeverReleased
  <2>6. ASSUME Acquire PROVE SemaphoreInv'
    <3>1. /\ semaphore = 1 /\ semaphore' = 0 /\ task' = "working"
          /\ UNCHANGED <<isPaused, control>>
      BY <2>6 DEF Acquire, Begin, controlVars, SemaphoreInv, PauseExcludesWork
    <3>2. ~ControlHolds /\ ~ControlHolds'
      BY <3>1 DEF SemaphoreInv, PauseExcludesWork, ControlHolds
    <3>3. QED
      BY <3>1, <3>2 DEF SemaphoreInv, PauseExcludesWork, TaskHolds
  <2>7. ASSUME EndWork PROVE SemaphoreInv'
    <3>1. /\ task = "working" /\ task' \in {"acquire", "waiting"}
          /\ semaphore' = semaphore + 1 /\ UNCHANGED <<isPaused, control>>
      BY <2>7 DEF EndWork, Return, controlVars
    <3>2. ~ControlHolds /\ ~ControlHolds' /\ semaphore = 0
      BY <3>1 DEF SemaphoreInv, PauseExcludesWork, ControlHolds, TaskHolds
    <3>3. QED
      BY <3>1, <3>2 DEF SemaphoreInv, PauseExcludesWork, TaskHolds
  <2>8. ASSUME InterruptWork PROVE SemaphoreInv'
    <3>1. /\ task = "working" /\ task' = "finished"
          /\ UNCHANGED <<semaphore, isPaused, control>>
      BY <2>8 DEF InterruptWork, Finish, controlVars
    <3>2. ~ControlHolds /\ ~ControlHolds' /\ semaphore = 0
      BY <3>1 DEF SemaphoreInv, PauseExcludesWork, ControlHolds, TaskHolds
    <3>3. QED
      BY <3>1, <3>2 DEF SemaphoreInv, PauseExcludesWork, TaskHolds
  <2>9. ASSUME Start PROVE SemaphoreInv'
    <3>1. ~ControlHolds /\ ~ControlHolds' /\ ~isPaused /\ control' = "idle"
      BY <2>9 DEF Start, SemaphoreInv, ControlHolds
    <3>2. /\ UNCHANGED <<semaphore, isPaused>>
          /\ task = "none" /\ task' = "starting"
      BY <2>9 DEF Start, StepInv
    <3>3. QED
      BY <3>1, <3>2 DEF SemaphoreInv, PauseExcludesWork, TaskHolds
  <2>10. ASSUME TryPause PROVE SemaphoreInv'
    <3>1. /\ semaphore = 1 /\ semaphore' = 0 /\ control = "idle"
          /\ control' = "acquired" /\ UNCHANGED <<task, isPaused>>
      BY <2>10 DEF TryPause, taskVars, SemaphoreInv, PauseExcludesWork
    <3>2. ~ControlHolds /\ ~isPaused /\ ControlHolds'
      BY <3>1 DEF SemaphoreInv, PauseExcludesWork, ControlHolds
    <3>3. ~NeverReleased /\ task # "working"
      BY <3>1, <3>2 DEF SemaphoreInv, PauseExcludesWork, TaskHolds,
                        NeverReleased
    <3>4. QED
      BY <3>1, <3>2, <3>3 DEF SemaphoreInv, PauseExcludesWork, NeverReleased
  <2>11. ASSUME SetPaused PROVE SemaphoreInv'
    <3>1. /\ control = "acquired" /\ control' = "idle" /\ isPaused'
          /\ UNCHANGED <<semaphore, task>>
      BY <2>11 DEF SetPaused, taskVars
    <3>2. ControlHolds /\ ControlHolds'
      BY <3>1 DEF ControlHolds
    <3>3. QED
      BY <3>1, <3>2 DEF SemaphoreInv, PauseExcludesWork, NeverReleased
  <2>12. ASSUME Resume PROVE SemaphoreInv'
    <3>1. /\ control = "idle" /\ isPaused /\ control' = "release"
          /\ UNCHANGED <<semaphore, task, isPaused>>
      BY <2>12 DEF Resume, taskVars
    <3>2. ControlHolds /\ ControlHolds'
      BY <3>1 DEF ControlHolds
    <3>3. QED
      BY <3>1, <3>2 DEF SemaphoreInv, PauseExcludesWork, NeverReleased
  <2>13. ASSUME CallCancel PROVE SemaphoreInv'
    <3>1. /\ control = "idle" /\ UNCHANGED <<semaphore, task, isPaused>>
          /\ \/ isPaused /\ control' = "release"
             \/ ~isPaused /\ control' = "idle"
      BY <2>13 DEF CallCancel, taskVars
    <3>2. ControlHolds' <=> ControlHolds
      BY <3>1 DEF ControlHolds
    <3>3. QED
      BY <3>1, <3>2 DEF SemaphoreInv, PauseExcludesWork, TaskHolds,
                        NeverReleased
  <2>14. ASSUME Release PROVE SemaphoreInv'
    <3>1. /\ control = "release" /\ control' = "clear" /\ isPaused
          /\ semaphore' = semaphore + 1 /\ UNCHANGED <<task, isPaused>>
      BY <2>14 DEF Release, taskVars, SemaphoreInv
    <3>2. ControlHolds /\ ~ControlHolds' /\ semaphore = 0 /\ semaphore' = 1
      BY <3>1 DEF ControlHolds, SemaphoreInv, PauseExcludesWork
    <3>3. ~TaskHolds'
      BY <3>1, <3>2 DEF SemaphoreInv, TaskHolds, NeverReleased
    <3>4. QED
      BY <3>1, <3>2, <3>3 DEF SemaphoreInv, PauseExcludesWork
  <2>15. ASSUME ClearPaused PROVE SemaphoreInv'
    <3>1. /\ control = "clear" /\ control' = "idle" /\ ~isPaused'
          /\ UNCHANGED <<semaphore, task>>
      BY <2>15 DEF ClearPaused, taskVars
    <3>2. ~ControlHolds /\ ~ControlHolds'
      BY <3>1 DEF ControlHolds
    <3>3. QED
      BY <3>1, <3>2 DEF SemaphoreInv, PauseExcludesWork, TaskHolds
  <2>16. ASSUME NEW p \in Payload, TimerExpires(p) \/ Trigger(p)
         PROVE  SemaphoreInv'
    BY <2>16, SidesKept DEF TimerExpires, Trigger, taskVars, controlVars,
                            NeverReleased
  <2>17. CASE UNCHANGED vars
    BY <2>17, SidesKept DEF vars, taskVars, controlVars, NeverReleased
  <2>18. QED
    BY <2>0, <2>1, <2>2, <2>3, <2>4, <2>5, <2>6, <2>7, <2>8, <2>9, <2>10, <2>11,
       <2>12, <2>13, <2>14, <2>15, <2>16, <2>17
    DEF Next, LoopNext, TaskNext, ControlNext
<1>3. QED
  BY <1>1, <1>2, TypeKept, StepKept, PTL DEF Steps

(* Pausing excludes working: semaphore and flag together keep the task and *)
(* the thread that pauses it apart, through cancel() at any moment.        *)
THEOREM PauseExclusion == Spec => []PauseExcludesWork
<1>1. SemaphoreInv => PauseExcludesWork
  BY DEF SemaphoreInv
<1>2. QED
  BY <1>1, SemaphoreKept, PTL DEF Spec, Steps

(* A paused worker stands still: only the first step of the task and the   *)
(* acquisition of the semaphore begin an iteration, and neither is         *)
(* possible while somebody else has the semaphore.                         *)
THEOREM PausedStandsStill == Spec => NoBeginWhilePaused
<1> DEFINE BeginsFree ==
        task' = "working" /\ task # "working" => ~ControlHolds
<1>1. ASSUME TypeOK, OneStepQueued, SemaphoreInv, [Next]_vars
      PROVE  [BeginsFree]_vars
  <2> SUFFICES ASSUME task' = "working", task # "working"
               PROVE  ~ControlHolds
    OBVIOUS
  <2>1. \A k : Next1(k) => 1 \in DOMAIN ready /\ ready[1].kind = k
    BY <1>1, TailAt DEF Next1, TypeOK
  <2>2. CASE RunStep
    <3>1. task = "scheduled"
      BY <1>1, <2>1, <2>2 DEF RunStep, OneStepQueued
    <3>2. QED
      BY <1>1, <3>1 DEF SemaphoreInv, NeverReleased
  <2>3. CASE Acquire
    BY <1>1, <2>3 DEF Acquire, SemaphoreInv, PauseExcludesWork
  <2>4. RunStep \/ Acquire
    BY <1>1 DEF Next, LoopNext, TaskNext, ControlNext, RunLoop, RunMain,
        RunTrigger, RunCancel, RunWake, Finish, EndWork, Return, InterruptWork, Start,
        TryPause, SetPaused, Resume, CallCancel, Release, ClearPaused,
        TimerExpires, Trigger, vars, taskVars
  <2>5. QED
    BY <2>2, <2>3, <2>4
<1>2. QED
  BY <1>1, TypeCorrect, SingleResumption, SemaphoreKept, PTL
  DEF Spec, Steps, NoBeginWhilePaused

-----------------------------------------------------------------------------
(* What cancel() can rely on. *)

Kinds(s) == {s[i].kind : i \in DOMAIN s}

(* A queue keeps its callbacks until they are run. *)
LEMMA QueueKeeps ==
    /\ \A s \in Seq(Callback), c \in Callback :
           Kinds(Append(s, c)) = Kinds(s) \cup {c.kind}
    /\ \A s \in Seq(Callback) :
           s # <<>> => Kinds(s) = {Head(s).kind} \cup Kinds(Tail(s))
<1>1. ASSUME NEW s \in Seq(Callback), NEW c \in Callback
      PROVE  Kinds(Append(s, c)) = Kinds(s) \cup {c.kind}
  <2>1. /\ DOMAIN Append(s, c) = 1..(Len(s) + 1)
        /\ DOMAIN s = 1..Len(s) /\ Len(s) \in Nat
        /\ \A i \in 1..Len(s) : Append(s, c)[i] = s[i]
        /\ Append(s, c)[Len(s) + 1] = c
    BY AppendAt
  <2>2. 1..(Len(s) + 1) = (1..Len(s)) \cup {Len(s) + 1}
    BY <2>1
  <2>3. QED
    BY <2>1, <2>2 DEF Kinds
<1>2. ASSUME NEW s \in Seq(Callback), s # <<>>
      PROVE  Kinds(s) = {Head(s).kind} \cup Kinds(Tail(s))
  <2>1. /\ DOMAIN s = 1..Len(s) /\ Len(s) \in Nat /\ Len(s) > 0
        /\ DOMAIN Tail(s) = 1..(Len(s) - 1)
        /\ \A i \in 1..(Len(s) - 1) : Tail(s)[i] = s[i + 1]
        /\ Head(s) = s[1]
    BY <1>2, TailAt
  <2>2. ASSUME NEW i \in DOMAIN s
        PROVE  s[i].kind \in {Head(s).kind} \cup Kinds(Tail(s))
    <3>1. CASE i = 1
      BY <2>1, <3>1
    <3>2. CASE i # 1
      <4>1. i - 1 \in DOMAIN Tail(s) /\ Tail(s)[i - 1] = s[i]
        BY <2>1, <3>2
      <4>2. QED
        BY <4>1 DEF Kinds
    <3>3. QED
      BY <3>1, <3>2
  <2>3. ASSUME NEW i \in DOMAIN Tail(s) PROVE Tail(s)[i].kind \in Kinds(s)
    <3>1. i + 1 \in DOMAIN s /\ Tail(s)[i] = s[i + 1]
      BY <2>1
    <3>2. QED
      BY <3>1 DEF Kinds
  <2>4. Head(s).kind \in Kinds(s)
    BY <2>1 DEF Kinds
  <2>5. QED
    BY <2>2, <2>3, <2>4 DEF Kinds
<1>3. QED
  BY <1>1, <1>2

(* The callback a task waits for is queued: the loop will go on with it. *)
TaskQueued ==
    /\ task = "main" => "main" \in Kinds(ready)
    /\ task = "scheduled" => "step" \in Kinds(ready)
    /\ task = "woken" => "wake" \in Kinds(ready)

(* cancel() is never lost.  Until the loop has run __cancel, this callback *)
(* is queued; afterwards the task neither awaits the future, which nobody  *)
(* might complete any more, nor blocks on the semaphore: it is executing   *)
(* work() or about to go on.  A task which blocks on the semaphore before  *)
(* that waits for nothing but the release that cancel() makes itself.      *)
CancelNotLost ==
    cancelCall =>
        /\ cancelled \/ "cancel" \in Kinds(ready)
        /\ cancelled => task \in {"main", "scheduled", "woken", "working",
                                  "finished", "skipped"}
        /\ task = "acquire" => semaphore = 1 \/ control = "release"

(* What makes them inductive: who cancels the worker has not begun to      *)
(* pause it, and releases the semaphore if it did earlier.                 *)
CancelInv ==
    /\ TaskQueued
    /\ cancelled \/ "cancel" \in Kinds(ready) => cancelCall
    /\ cancelCall => /\ cancelled \/ "cancel" \in Kinds(ready)
                     /\ control \notin {"created", "acquired"}
                     /\ isPaused => control # "idle"
    /\ cancelled => task \in {"main", "scheduled", "woken", "working",
                              "finished", "skipped"}

(* Steps of the control thread, and whoever queues a callback. *)
LEMMA CancelOutside ==
    ASSUME TypeOK, CancelInv, UNCHANGED <<task, cancelled>>,
           \/ ready' = ready
           \/ \E c \in Callback : ready' = Append(ready, c),
           cancelled' \/ "cancel" \in Kinds(ready') => cancelCall',
           cancelCall' => /\ cancelled' \/ "cancel" \in Kinds(ready')
                          /\ control' \notin {"created", "acquired"}
                          /\ isPaused' => control' # "idle"
    PROVE  CancelInv'
<1>1. Kinds(ready) \subseteq Kinds(ready')
  <2>1. ASSUME NEW c \in Callback, ready' = Append(ready, c)
        PROVE  Kinds(ready') = Kinds(ready) \cup {c.kind}
    BY <2>1, QueueKeeps DEF TypeOK
  <2>2. QED
    BY <2>1
<1>2. TaskQueued'
  BY <1>1 DEF CancelInv, TaskQueued
<1>3. QED
  BY <1>2 DEF CancelInv

LEMMA CancelStep ==
    TypeOK /\ StepInv /\ SemaphoreInv /\ CancelInv /\ [Next]_vars => CancelInv'
<1> SUFFICES ASSUME TypeOK, StepInv, SemaphoreInv, CancelInv, [Next]_vars
             PROVE  CancelInv'
  OBVIOUS
<1>a. \A k : Next1(k) => /\ ready # <<>> /\ Head(ready).kind = k
                         /\ 1 \in DOMAIN ready /\ ready[1].kind = k
  BY TailAt DEF Next1, TypeOK
<1>b. ready # <<>> =>
          /\ Kinds(ready) = {Head(ready).kind} \cup Kinds(Tail(ready))
          /\ \A k \in {"step", "wake"} :
                 Kinds(Append(Tail(ready), Call(k))) = Kinds(Tail(ready)) \cup {k}
  <2> SUFFICES ASSUME ready # <<>>
               PROVE  /\ Kinds(ready) = {Head(ready).kind} \cup Kinds(Tail(ready))
                      /\ \A k \in {"step", "wake"} :
                             Kinds(Append(Tail(ready), Call(k)))
                             = Kinds(Tail(ready)) \cup {k}
    OBVIOUS
  <2>1. ready \in Seq(Callback) /\ Tail(ready) \in Seq(Callback)
    BY TailAt DEF TypeOK
  <2>2. \A k \in {"step", "wake"} : Call(k) \in Callback /\ Call(k).kind = k
    BY CallbackTypes
  <2>3. \A c \in Callback :
            Kinds(Append(Tail(ready), c)) = Kinds(Tail(ready)) \cup {c.kind}
    BY <2>1, QueueKeeps
  <2>4. QED
    BY <2>1, <2>2, <2>3, QueueKeeps
<1>c. \A c \in Callback : Kinds(Append(ready, c)) = Kinds(ready) \cup {c.kind}
  BY QueueKeeps DEF TypeOK
<1>0. ASSUME RunLoop PROVE CancelInv'
  <2>1. /\ "main" \in Kinds(ready')
        /\ "cancel" \in Kinds(ready) <=> "cancel" \in Kinds(ready')
    BY <1>0, <1>c, CallbackTypes DEF RunLoop
  <2>2. QED
    BY <1>0, <2>1 DEF RunLoop, controlVars, CancelInv, TaskQueued
<1>1. ASSUME RunMain PROVE CancelInv'
  <2>a. ready' \in {Tail(ready), Append(Tail(ready), Call("step"))}
    BY <1>1 DEF RunMain
  <2>b. Kinds(ready) = {"main"} \cup Kinds(Tail(ready))
    BY <1>1, <1>a, <1>b DEF RunMain
  <2>1. "cancel" \in Kinds(ready) <=> "cancel" \in Kinds(ready')
    <3>1. CASE ready' = Tail(ready)
      BY <2>b, <3>1
    <3>2. CASE ready' = Append(Tail(ready), Call("step"))
      <4>1. Kinds(ready') = Kinds(Tail(ready)) \cup {"step"}
        BY <1>1, <1>a, <1>b, <3>2 DEF RunMain
      <4>2. QED
        BY <2>b, <4>1
    <3>3. QED
      BY <2>a, <3>1, <3>2
  <2>2. ~cancelled => "step" \in Kinds(ready')
    BY <1>1, <1>a, <1>b DEF RunMain
  <2>3. QED
    BY <1>1, <2>1, <2>2 DEF RunMain, controlVars, CancelInv, TaskQueued
<1>2. ASSUME RunStep PROVE CancelInv'
  <2>1. "cancel" \in Kinds(ready) <=> "cancel" \in Kinds(ready')
    BY <1>2, <1>a, <1>b DEF RunStep
  <2>2. QED
    BY <1>2, <2>1
    DEF RunStep, Finish, Begin, controlVars, CancelInv, TaskQueued
<1>3. ASSUME RunTrigger PROVE CancelInv'
  <2>1. \A k \in {"main", "step", "wake", "cancel"} :
            /\ k \in Kinds(ready) => k \in Kinds(ready')
            /\ k # "wake" => (k \in Kinds(ready) <=> k \in Kinds(ready'))
    BY <1>3, <1>a, <1>b DEF RunTrigger
  <2>2. task' # task => task = "waiting" /\ task' = "woken"
                        /\ "wake" \in Kinds(ready')
    BY <1>3, <1>a, <1>b DEF RunTrigger
  <2>3. QED
    BY <1>3, <2>1, <2>2 DEF RunTrigger, controlVars, CancelInv, TaskQueued
<1>4. ASSUME RunCancel PROVE CancelInv'
  <2>1. \A k \in {"main", "step", "wake"} :
            k \in Kinds(ready) => k \in Kinds(ready')
    BY <1>4, <1>a, <1>b DEF RunCancel
  <2>2. task = "waiting" => "wake" \in Kinds(ready')
    BY <1>4, <1>a, <1>b DEF RunCancel
  <2>3. "cancel" \in Kinds(ready)
    BY <1>4, <1>a DEF RunCancel, Kinds
  <2>4. task' \in {"main", "scheduled", "woken", "working"}
    BY <1>4 DEF RunCancel, Next1, LoopRuns, TypeOK, Task
  <2>5. TaskQueued'
    BY <1>4, <2>1, <2>2 DEF RunCancel, CancelInv, TaskQueued
  <2>6. cancelCall
    BY <2>3 DEF CancelInv
  <2>7. QED
    BY <1>4, <2>4, <2>5, <2>6 DEF RunCancel, controlVars, CancelInv
<1>5. ASSUME RunWake PROVE CancelInv'
  <2>1. "cancel" \in Kinds(ready) <=> "cancel" \in Kinds(ready')
    BY <1>5, <1>a, <1>b DEF RunWake
  <2>2. QED
    BY <1>5, <2>1 DEF RunWake, Finish, controlVars, CancelInv, TaskQueued
<1>6. ASSUME Acquire PROVE CancelInv'
  BY <1>6 DEF Acquire, Begin, loopVars, controlVars, CancelInv, TaskQueued
<1>7. ASSUME EndWork PROVE CancelInv'
  BY <1>7 DEF EndWork, Return, controlVars, CancelInv, TaskQueued
<1>8. ASSUME InterruptWork PROVE CancelInv'
  BY <1>8 DEF InterruptWork, Finish, loopVars, controlVars, CancelInv, TaskQueued
<1>9. ASSUME Start PROVE CancelInv'
  BY <1>9 DEF Start, loopVars, CancelInv, TaskQueued, StepInv
<1>10. ASSUME TryPause PROVE CancelInv'
  BY <1>10, CancelOutside DEF TryPause, loopVars, taskVars, CancelInv
<1>11. ASSUME SetPaused PROVE CancelInv'
  BY <1>11, CancelOutside DEF SetPaused, loopVars, taskVars, CancelInv
<1>12. ASSUME Resume PROVE CancelInv'
  BY <1>12, CancelOutside DEF Resume, loopVars, taskVars, CancelInv
<1>13. ASSUME CallCancel PROVE CancelInv'
  <2>1. "cancel" \in Kinds(ready') /\ Call("cancel") \in Callback
    BY <1>13, <1>c, CallbackTypes DEF CallCancel
  <2>2. QED
    BY <1>13, <2>1, CancelOutside DEF CallCancel, taskVars, CancelInv
<1>14. ASSUME Release PROVE CancelInv'
  BY <1>14, CancelOutside DEF Release, loopVars, taskVars, CancelInv
<1>15. ASSUME ClearPaused PROVE CancelInv'
  BY <1>15, CancelOutside DEF ClearPaused, loopVars, taskVars, CancelInv
<1>16. ASSUME NEW p \in Payload, TimerExpires(p) \/ Trigger(p) PROVE CancelInv'
  <2>1. /\ TriggerCall(p) \in Callback /\ ready' = Append(ready, TriggerCall(p))
        /\ "cancel" \in Kinds(ready) <=> "cancel" \in Kinds(ready')
    BY <1>16, <1>c, CallbackTypes DEF TimerExpires, Trigger
  <2>2. QED
    BY <1>16, <2>1, CancelOutside
    DEF TimerExpires, Trigger, taskVars, controlVars, CancelInv
<1>17. CASE UNCHANGED vars
  BY <1>17 DEF vars, loopVars, taskVars, controlVars, CancelInv, TaskQueued
<1>18. QED
  BY <1>0, <1>1, <1>2, <1>3, <1>4, <1>5, <1>6, <1>7, <1>8, <1>9, <1>10, <1>11,
     <1>12, <1>13, <1>14, <1>15, <1>16, <1>17
  DEF Next, LoopNext, TaskNext, ControlNext

(* Through triggers, timers, pauses and work in any order, a call of       *)
(* cancel() stays on its way to the task until the task has ended: what    *)
(* CancelEnds needs besides the fairness of the loop.                      *)
THEOREM CancelsKept == Spec => [](TaskQueued /\ CancelNotLost)
<1>1. Init => CancelInv
  BY DEF Init, CancelInv, TaskQueued, Kinds
<1>2. TypeOK /\ SemaphoreInv /\ CancelInv => TaskQueued /\ CancelNotLost
  BY DEF TypeOK, CancelInv, CancelNotLost, SemaphoreInv, PauseExcludesWork,
         ControlHolds, TaskHolds
<1>3. QED
  BY <1>1, <1>2, TypeKept, StepKept, SemaphoreKept, CancelStep, PTL
  DEF Spec, Steps

-----------------------------------------------------------------------------
(* The worker implements Wakeup.                                           *)

(* Triggers in a queue are counted one by one. *)
LEMMA CountAppend ==
    ASSUME NEW s \in Seq(Callback), NEW c \in Callback
    PROVE  /\ IsFiniteSet(TriggersIn(s)) /\ Cardinality(TriggersIn(s)) \in Nat
           /\ Cardinality(TriggersIn(Append(s, c))) =
                  IF c.kind = "trigger" THEN Cardinality(TriggersIn(s)) + 1
                                        ELSE Cardinality(TriggersIn(s))
<1>1. /\ DOMAIN Append(s, c) = 1..(Len(s) + 1)
      /\ DOMAIN s = 1..Len(s) /\ Len(s) \in Nat
      /\ \A i \in 1..Len(s) : Append(s, c)[i] = s[i]
      /\ Append(s, c)[Len(s) + 1] = c
  BY AppendAt
<1>2. TriggersIn(s) \in SUBSET (1..Len(s))
  BY <1>1 DEF TriggersIn
<1>3. IsFiniteSet(TriggersIn(s))
  <2>1. 0 \in Int /\ 1 \in Int /\ Len(s) \in Int
    BY <1>1
  <2>2. IsFiniteSet(1..Len(s))
    BY <2>1, FS_Interval
  <2>3. QED
    BY <1>2, <2>2, FS_Subset
<1>4. CASE c.kind = "trigger"
  <2>1. TriggersIn(Append(s, c)) = TriggersIn(s) \cup {Len(s) + 1}
    BY <1>1, <1>4 DEF TriggersIn
  <2>2. Len(s) + 1 \notin TriggersIn(s)
    BY <1>1, <1>2
  <2>3. QED
    BY <1>3, <1>4, <2>1, <2>2, FS_AddElement, FS_CardinalityType
<1>5. CASE c.kind # "trigger"
  <2>1. TriggersIn(Append(s, c)) = TriggersIn(s)
    BY <1>1, <1>5 DEF TriggersIn
  <2>2. QED
    BY <1>3, <1>5, <2>1, FS_CardinalityType
<1>6. QED
  BY <1>4, <1>5

(* The one which is run is counted no more. *)
LEMMA CountTail ==
    ASSUME NEW s \in Seq(Callback), s # <<>>
    PROVE  Cardinality(TriggersIn(s)) =
               IF Head(s).kind = "trigger" THEN Cardinality(TriggersIn(Tail(s))) + 1
                                           ELSE Cardinality(TriggersIn(Tail(s)))
<1> DEFINE rest == TriggersIn(s) \ {1}
           shift == [i \in TriggersIn(Tail(s)) |-> i + 1]
<1>1. /\ Tail(s) \in Seq(Callback)
      /\ DOMAIN s = 1..Len(s) /\ Len(s) \in Nat /\ Len(s) > 0
      /\ DOMAIN Tail(s) = 1..(Len(s) - 1)
      /\ \A i \in 1..(Len(s) - 1) : Tail(s)[i] = s[i + 1]
      /\ Head(s) = s[1]
  BY TailAt
<1>2. /\ \A i \in TriggersIn(Tail(s)) : i \in 1..(Len(s) - 1) /\ i + 1 \in rest
      /\ \A i \in rest : i - 1 \in TriggersIn(Tail(s)) /\ i \in 1..Len(s)
  BY <1>1 DEF TriggersIn
<1>3. shift \in [TriggersIn(Tail(s)) -> rest]
  BY <1>2
<1>4. \A i, j \in TriggersIn(Tail(s)) : shift[i] = shift[j] => i = j
  BY <1>1, <1>2
<1>5. \A i \in rest : \E j \in TriggersIn(Tail(s)) : shift[j] = i
  <2> TAKE i \in rest
  <2>1. i - 1 \in TriggersIn(Tail(s)) /\ (i - 1) + 1 = i
    BY <1>1, <1>2
  <2>2. shift[i - 1] = i
    BY <2>1
  <2>3. QED
    BY <2>1, <2>2
<1> HIDE DEF shift, rest
<1>6. shift \in Bijection(TriggersIn(Tail(s)), rest)
  BY <1>3, <1>4, <1>5
  DEF Bijection, Injection, Surjection, IsInjective
<1>7. /\ IsFiniteSet(TriggersIn(Tail(s))) /\ IsFiniteSet(TriggersIn(s))
      /\ Cardinality(TriggersIn(Tail(s))) \in Nat
      /\ Cardinality(TriggersIn(s)) \in Nat
  <2>1. PICK c \in Callback : TRUE
    BY CallbackTypes
  <2>2. QED
    BY <1>1, <2>1, CountAppend
<1>8. Cardinality(rest) = Cardinality(TriggersIn(Tail(s)))
  BY <1>6, <1>7, FS_Bijection DEF ExistsBijection
<1>9. Cardinality(rest) = IF 1 \in TriggersIn(s)
                          THEN Cardinality(TriggersIn(s)) - 1
                          ELSE Cardinality(TriggersIn(s))
  BY <1>7, FS_RemoveElement DEF rest
<1>10. 1 \in TriggersIn(s) <=> Head(s).kind = "trigger"
  BY <1>1 DEF TriggersIn
<1>11. QED
  BY <1>7, <1>8, <1>9, <1>10

(* What relates the future to the task: it exists from the first iteration *)
(* on, and a task which goes on or blocks on the semaphore has seen it     *)
(* done.                                                                   *)
FutureInv ==
    /\ future = "none" => task \notin {"working", "waiting", "woken", "acquire"}
    /\ task \in {"woken", "acquire"} => future = "done"
    /\ task = "acquire" => ~cancelled

(* Every step keeps it. *)
LEMMA FutureStep == TypeOK /\ StepInv /\ FutureInv /\ [Next]_vars => FutureInv'
<1> SUFFICES ASSUME TypeOK, StepInv, FutureInv, [Next]_vars
             PROVE  FutureInv'
  OBVIOUS
<1> USE DEF FutureInv
<1>1. CASE LoopNext
  <2>1. ready # <<>> => Head(ready) = ready[1] /\ 1 \in DOMAIN ready
    BY TailAt DEF TypeOK
  <2>2. /\ Next1("main") => task = "main"
        /\ Next1("step") => task = "scheduled"
        /\ Next1("wake") => task = "woken"
    BY <2>1 DEF StepInv, OneStepQueued, Next1
  <2>3. CASE RunLoop
    BY <2>3 DEF RunLoop
  <2>4. CASE RunMain
    BY <2>2, <2>4 DEF RunMain
  <2>5. CASE RunStep
    BY <2>2, <2>5 DEF RunStep, Finish, Begin
  <2>6. CASE RunTrigger
    BY <2>6 DEF RunTrigger, Next1, LoopRuns
  <2>7. CASE RunCancel
    BY <2>7 DEF RunCancel, Next1, LoopRuns
  <2>8. CASE RunWake
    BY <2>2, <2>8 DEF RunWake, Finish
  <2>9. QED
    BY <1>1, <2>3, <2>4, <2>5, <2>6, <2>7, <2>8 DEF LoopNext
<1>2. CASE TaskNext
  BY <1>2 DEF TaskNext, Acquire, Begin, EndWork, Return, InterruptWork, Finish
<1>3. CASE ControlNext
  BY <1>3 DEF StepInv, ControlNext, Start, TryPause, SetPaused, Resume, CallCancel,
     Release, ClearPaused, taskVars
<1>4. ASSUME NEW p \in Payload, TimerExpires(p) \/ Trigger(p)
      PROVE  FutureInv'
  BY <1>4 DEF TimerExpires, Trigger, taskVars
<1>5. CASE UNCHANGED vars
  BY <1>5 DEF vars, taskVars
<1>6. QED
  BY <1>1, <1>2, <1>3, <1>4, <1>5 DEF Next

(* Every step of the worker is a step of Wakeup, or one it does not see.   *)
LEMMA AbstractStep ==
    ASSUME TypeOK, StepInv, FutureInv, [Next]_vars
    PROVE  [Abstract!Next]_(Abstract!vars)
<1> USE DEF Mode, Wanted
<1>s. ASSUME UNCHANGED <<Mode, Wanted, InFlight>>
      PROVE  UNCHANGED Abstract!vars
  BY <1>s DEF Abstract!vars
<1>t. ready # <<>> =>
        /\ Tail(ready) \in Seq(Callback)
        /\ Head(ready).kind # "trigger"
              => InFlight = Cardinality(TriggersIn(Tail(ready)))
        /\ Head(ready).kind = "trigger"
              => InFlight = Cardinality(TriggersIn(Tail(ready))) + 1
        /\ Cardinality(TriggersIn(Tail(ready))) \in Nat
  <2> SUFFICES ASSUME ready # <<>>
               PROVE  /\ Tail(ready) \in Seq(Callback)
                      /\ Head(ready).kind # "trigger"
                            => InFlight = Cardinality(TriggersIn(Tail(ready)))
                      /\ Head(ready).kind = "trigger"
                            => InFlight = Cardinality(TriggersIn(Tail(ready))) + 1
                      /\ Cardinality(TriggersIn(Tail(ready))) \in Nat
    OBVIOUS
  <2>1. Tail(ready) \in Seq(Callback) /\ Head(ready) \in Callback
    BY TailAt DEF TypeOK
  <2>2. Cardinality(TriggersIn(Tail(ready))) \in Nat
    BY <2>1, CountAppend
  <2>3. QED
    BY <2>1, <2>2, CountTail DEF InFlight, TypeOK
<1>a. \A q \in Seq(Callback), c \in Callback :
         Cardinality(TriggersIn(Append(q, c))) =
             IF c.kind = "trigger" THEN Cardinality(TriggersIn(q)) + 1
                                   ELSE Cardinality(TriggersIn(q))
  BY CountAppend
<1>n. InFlight \in Nat
  <2>1. PICK c \in Callback : TRUE
    BY CallbackTypes
  <2>2. QED
    BY <2>1, CountAppend DEF InFlight, TypeOK
<1>c. /\ Call("step") \in Callback /\ Call("step").kind = "step"
      /\ Call("main") \in Callback /\ Call("main").kind = "main"
      /\ Call("wake") \in Callback /\ Call("wake").kind = "wake"
      /\ Call("cancel") \in Callback /\ Call("cancel").kind = "cancel"
      /\ \A p \in Payload :
            TriggerCall(p) \in Callback /\ TriggerCall(p).kind = "trigger"
  BY CallbackTypes
<1>h. \A kind \in {"main", "step", "wake"} : Next1(kind) =>
          task = IF kind = "main" THEN "main"
                 ELSE IF kind = "step" THEN "scheduled" ELSE "woken"
  <2>1. ready # <<>> => Head(ready) = ready[1] /\ 1 \in DOMAIN ready
    BY TailAt DEF TypeOK
  <2>2. QED
    BY <2>1 DEF StepInv, OneStepQueued, Next1
<1>1. CASE RunLoop
  <2>1. InFlight' = InFlight
    BY <1>1, <1>a, <1>c DEF RunLoop, InFlight, TypeOK
  <2>2. Mode' = Mode /\ (Wanted' <=> Wanted)
    BY <1>1 DEF RunLoop
  <2>3. QED
    BY <2>1, <2>2, <1>s
<1>2. CASE RunMain
  <2>1. ready # <<>> /\ Head(ready).kind = "main" /\ task = "main"
    BY <1>2, <1>h DEF RunMain, Next1
  <2>2. InFlight' = InFlight
    BY <1>2, <2>1, <1>t, <1>a, <1>c DEF RunMain, InFlight
  <2>3. Mode' = Mode /\ (Wanted' <=> Wanted)
    BY <1>2, <2>1 DEF RunMain
  <2>4. QED
    BY <2>2, <2>3, <1>s
<1>3. CASE RunStep
  <2>1. ready # <<>> /\ Head(ready).kind = "step" /\ task = "scheduled"
    BY <1>3, <1>h DEF RunStep, Next1
  <2>2. InFlight' = InFlight
    BY <1>3, <2>1, <1>t DEF RunStep, InFlight
  <2>3. CASE cancelled
    BY <1>3, <2>2, <2>3, <1>s DEF RunStep, Finish
  <2>4. CASE ~cancelled
    <3>1. Mode = "idle" /\ Mode' = "busy" /\ Wanted /\ ~Wanted'
      BY <1>3, <2>1, <2>4 DEF RunStep, Begin
    <3>2. QED
      BY <2>2, <3>1 DEF Abstract!Next, Abstract!Begin
  <2>5. QED
    BY <2>3, <2>4
<1>4. CASE RunTrigger
  <2>1. ready # <<>> /\ Head(ready).kind = "trigger" /\ LoopRuns
    BY <1>4 DEF RunTrigger, Next1
  <2>2. InFlight > 0 /\ InFlight' = InFlight - 1
    <3>1. ready' = Tail(ready) \/ ready' = Append(Tail(ready), Call("wake"))
      BY <1>4 DEF RunTrigger
    <3>2. InFlight' = Cardinality(TriggersIn(Tail(ready)))
      BY <2>1, <3>1, <1>t, <1>a, <1>c DEF InFlight
    <3>3. QED
      BY <2>1, <3>2, <1>t
  <2>3. Mode' = Mode
    BY <1>4 DEF RunTrigger
  <2>4. Wanted' <=> Mode # "stopped"
    <3>1. cancelled' <=> cancelled
      BY <1>4 DEF RunTrigger
    <3>2. future' = "done" \/ task' \in {"main", "scheduled"}
      BY <1>4, <2>1 DEF RunTrigger, FutureInv, TypeOK, LoopRuns, Task
    <3>3. QED
      BY <3>1, <3>2
  <2>5. Abstract!Arrive
    BY <2>2, <2>3, <2>4 DEF Abstract!Arrive
  <2>6. QED
    BY <2>5 DEF Abstract!Next
<1>5. CASE RunCancel
  <2>1. ready # <<>> /\ Head(ready).kind = "cancel" /\ cancelled'
    BY <1>5 DEF RunCancel, Next1
  <2>2. InFlight' = InFlight
    <3>1. ready' = Tail(ready) \/ ready' = Append(Tail(ready), Call("wake"))
      BY <1>5 DEF RunCancel
    <3>2. QED
      BY <2>1, <3>1, <1>t, <1>a, <1>c DEF InFlight
  <2>3. Mode' = "stopped" /\ ~Wanted'
    BY <2>1
  <2>4. CASE cancelled
    BY <2>2, <2>3, <2>4, <1>s
  <2>5. CASE ~cancelled
    BY <2>2, <2>3, <2>5 DEF Abstract!Next, Abstract!Stop
  <2>6. QED
    BY <2>4, <2>5
<1>6. CASE RunWake
  <2>1. ready # <<>> /\ Head(ready).kind = "wake" /\ task = "woken"
    BY <1>6, <1>h DEF RunWake, Next1
  <2>2. InFlight' = InFlight
    BY <1>6, <2>1, <1>t DEF RunWake, InFlight
  <2>3. Mode' = Mode /\ (Wanted' <=> Wanted)
    BY <1>6, <2>1 DEF RunWake, Finish
  <2>4. QED
    BY <2>2, <2>3, <1>s
<1>7. CASE Acquire
  <2>1. InFlight' = InFlight
    BY <1>7 DEF Acquire, loopVars, InFlight
  <2>2. Mode = "idle" /\ Mode' = "busy" /\ Wanted /\ ~Wanted'
    BY <1>7 DEF Acquire, Begin, FutureInv
  <2>3. QED
    BY <2>1, <2>2 DEF Abstract!Next, Abstract!Begin
<1>8. CASE EndWork
  <2>1. InFlight' = InFlight
    BY <1>8 DEF EndWork, Return, InFlight
  <2>2. Mode = "busy" /\ Mode' = "idle" /\ (Wanted' <=> Wanted)
    BY <1>8 DEF EndWork, Return
  <2>3. QED
    BY <2>1, <2>2 DEF Abstract!Next, Abstract!End
<1>9. CASE InterruptWork
  <2>1. InFlight' = InFlight
    BY <1>9 DEF InterruptWork, loopVars, InFlight
  <2>2. Mode' = Mode /\ (Wanted' <=> Wanted)
    BY <1>9 DEF InterruptWork, Finish
  <2>3. QED
    BY <2>1, <2>2, <1>s
<1>10. CASE ControlNext
  <2>1. InFlight' = InFlight
    BY <1>10, <1>a, <1>c DEF ControlNext, Start, TryPause, SetPaused, Resume,
       CallCancel, Release, ClearPaused, loopVars, InFlight, TypeOK
  <2>2. Mode' = Mode /\ (Wanted' <=> Wanted)
    BY <1>10 DEF StepInv, ControlNext, Start, TryPause, SetPaused, Resume, CallCancel,
       Release, ClearPaused, taskVars
  <2>3. QED
    BY <2>1, <2>2, <1>s
<1>11. ASSUME NEW p \in Payload, TimerExpires(p) \/ Trigger(p)
       PROVE  [Abstract!Next]_(Abstract!vars)
  <2>1. ready' = Append(ready, TriggerCall(p))
    BY <1>11 DEF TimerExpires, Trigger
  <2>2. InFlight' = InFlight + 1
    BY <2>1, <1>a, <1>c DEF InFlight, TypeOK
  <2>3. Mode' = Mode /\ (Wanted' <=> Wanted)
    BY <1>11 DEF TimerExpires, Trigger, taskVars
  <2>4. QED
    BY <2>2, <2>3 DEF Abstract!Next, Abstract!Trigger
<1>12. CASE UNCHANGED vars
  <2>1. InFlight' = InFlight /\ Mode' = Mode /\ (Wanted' <=> Wanted)
    BY <1>12 DEF vars, loopVars, taskVars, InFlight
  <2>2. QED
    BY <2>1, <1>s
<1>13. QED
  BY <1>1, <1>2, <1>3, <1>4, <1>5, <1>6, <1>7, <1>8, <1>9, <1>10, <1>11, <1>12
  DEF Next, LoopNext, TaskNext

(* The first state of the worker is one of Wakeup, its steps are steps of  *)
(* Wakeup.                                                                 *)
LEMMA StepsImplement == Steps => Abstract!Init /\ [][Abstract!Next]_(Abstract!vars)
<1>1. Init => Abstract!Init
  <2> SUFFICES ASSUME Init PROVE Abstract!Init
    OBVIOUS
  <2>1. TriggersIn(ready) = {}
    BY DEF Init, TriggersIn
  <2>2. InFlight = 0
    BY <2>1, FS_EmptySet DEF InFlight
  <2>3. Mode = "idle" /\ Wanted
    BY DEF Init, Mode, Wanted
  <2>4. QED
    BY <2>2, <2>3 DEF Abstract!Init
<1>2. Init => FutureInv
  BY DEF Init, FutureInv
<1>3. TypeOK /\ StepInv /\ FutureInv /\ [Next]_vars
          => [Abstract!Next]_(Abstract!vars)
  BY AbstractStep
<1>4. QED
  BY <1>1, <1>2, <1>3, FutureStep, TypeKept, StepKept, PTL DEF Steps

(* The worker implements Wakeup as far as safety goes: no iteration begins *)
(* without a trigger, and a trigger that arrives makes an iteration due.   *)
THEOREM WorkerImplements == Spec => Abstract!Init /\ [][Abstract!Next]_(Abstract!vars)
  BY StepsImplement, PTL DEF Spec, Steps

=============================================================================
