-------------------------- MODULE CrawlerLoopProofs --------------------------
(***************************************************************************)
(* Proofs of the safety properties of CrawlerLoop, for any updates and any *)
(* number of triggers, pauses and failures.                                *)
(***************************************************************************)
EXTENDS CrawlerLoop, WorkerProofs

(* The steps outside of work() are steps of the worker; they begin work()  *)
(* or, when it is cancelled, end it, and otherwise leave it as it is.      *)
LEMMA WorkerSteps ==
    ASSUME TypeOK, StepInv, WorkerStep
    PROVE  /\ Next
           /\ task' = "working" <=> (\/ task' = "working" /\ task # "working"
                                     \/ task = "working" /\ task' # "finished")
           /\ UNCHANGED <<periodic, repos, announced, unserved, errors>>
<1>1. Next
  BY DEF WorkerStep, Next, TaskNext
<1>2. task = "working" => task' = "working" \/ task' = "finished"
  <2>1. CASE LoopNext
    <3>1. ready # <<>> => /\ Head(ready) = ready[1] /\ 1 \in DOMAIN ready
      BY TailAt DEF TypeOK
    <3>2. task = "working" /\ ready # <<>> =>
              Head(ready).kind \notin {"main", "step", "wake"}
      BY <3>1 DEF StepInv, OneStepQueued
    <3>3. task = "working" => ~RunMain /\ ~RunStep /\ ~RunWake
      BY <3>2 DEF RunMain, RunStep, RunWake, Next1
    <3>4. QED
      BY <2>1, <3>3 DEF LoopNext, RunLoop, RunTrigger, RunCancel
  <2>2. CASE Acquire
    BY <2>2 DEF Acquire, Begin
  <2>3. CASE InterruptWork
    BY <2>3 DEF InterruptWork, Finish
  <2>4. CASE ControlNext
    BY <2>4 DEF StepInv, ControlNext, Start, TryPause, SetPaused, Resume, CallCancel,
       Release, ClearPaused, taskVars
  <2>5. ASSUME NEW p \in Payload, TimerExpires(p)
        PROVE  task = "working" => task' = "working" \/ task' = "finished"
    BY <2>5 DEF TimerExpires, taskVars
  <2>6. QED
    BY <2>1, <2>2, <2>3, <2>4, <2>5 DEF WorkerStep
<1>3. QED
  BY <1>1, <1>2 DEF WorkerStep

(* Every step keeps the types, and work() of the crawler runs exactly      *)
(* while the task of the worker is in work().                              *)
LEMMA CrawlerTypeStep ==
    CrawlerTypeOK /\ StepInv /\ [CrawlerNext]_allVars => CrawlerTypeOK'
<1> SUFFICES ASSUME CrawlerTypeOK, TypeOK, StepInv, [CrawlerNext]_allVars
             PROVE  CrawlerTypeOK'
  BY DEF CrawlerTypeOK
<1> USE MaxErrorsAssumption
<1>0. ASSUME Next \/ UNCHANGED vars PROVE TypeOK'
  BY <1>0, TypeStep DEF CrawlerTypeOK
<1>r. \A p \in {AllRepos, NoPayload} : p \in Payload
  BY AllReposAssumption
<1>1. CASE WorkerStep
  <2>1. crawl' \in Crawl /\ (crawl' # "off" <=> task' = "working")
    BY <1>1, WorkerSteps DEF WorkerStep, CrawlerTypeOK, Crawl, TypeOK
  <2>2. periodic' \in BOOLEAN
    BY <1>1, WorkerSteps DEF CrawlerTypeOK
  <2>3. QED
    BY <1>0, <1>1, <2>1, <2>2, WorkerSteps DEF CrawlerTypeOK
<1>2. CASE EnterAll \/ EnterUpdates
  <2>1. periodic' \in BOOLEAN
    BY <1>2 DEF EnterAll, EnterUpdates, CrawlerTypeOK
  <2>2. TypeOK' /\ task' = task
    BY <1>0, <1>2 DEF EnterAll, EnterUpdates, vars, taskVars
  <2>3. QED
    BY <1>2, <2>1, <2>2 DEF EnterAll, EnterUpdates, CrawlerTypeOK, Crawl
<1>3. CASE TakeUpdate \/ UpdateDone \/ CrawlFails
  <2>1. periodic' \in BOOLEAN
    BY <1>3 DEF TakeUpdate, UpdateDone, CrawlFails, CrawlerTypeOK
  <2>2. TypeOK' /\ task' = task
    BY <1>0, <1>3 DEF TakeUpdate, UpdateDone, CrawlFails, vars, taskVars
  <2>3. repos # <<>> => Tail(repos) \in Seq(Update)
    BY DEF CrawlerTypeOK
  <2>4. QED
    BY <1>3, <2>1, <2>2, <2>3
    DEF TakeUpdate, UpdateDone, CrawlFails, CrawlerTypeOK, Crawl
<1>4. CASE ReturnFromAll \/ ReturnFromUpdates \/ ReturnFromFailure
  <2>1. EndWork /\ task' # "working"
    BY <1>4, <1>r DEF ReturnFromAll, ReturnFromUpdates, ReturnFromFailure,
       EndWork, Return
  <2>2. TypeOK'
    BY <1>0, <2>1 DEF Next, TaskNext
  <2>3. periodic' \in BOOLEAN
    BY <1>4 DEF ReturnFromAll, ReturnFromUpdates, ReturnFromFailure,
       CrawlerTypeOK
  <2>4. QED
    BY <1>4, <2>1, <2>2, <2>3 DEF ReturnFromAll, ReturnFromUpdates,
       ReturnFromFailure, CrawlerTypeOK, Crawl
<1>5. ASSUME NEW u \in Update, PutUpdate(u) PROVE CrawlerTypeOK'
  <2>1. periodic' \in BOOLEAN
    BY <1>5 DEF PutUpdate, CrawlerTypeOK
  <2>2. TypeOK' /\ task' = task
    BY <1>0, <1>5 DEF PutUpdate, vars, taskVars
  <2>3. Append(repos, u) \in Seq(Update)
    BY DEF CrawlerTypeOK
  <2>4. QED
    BY <1>5, <2>1, <2>2, <2>3 DEF PutUpdate, CrawlerTypeOK
<1>6. ASSUME NEW u \in Update, AnnounceUpdate(u) PROVE CrawlerTypeOK'
  <2>1. periodic' \in BOOLEAN
    BY <1>6 DEF AnnounceUpdate, CrawlerTypeOK
  <2>2. TypeOK' /\ task' = task
    BY <1>0, <1>6, <1>r DEF AnnounceUpdate, Next, Trigger, taskVars
  <2>3. QED
    BY <1>6, <2>1, <2>2 DEF AnnounceUpdate, CrawlerTypeOK
<1>7. CASE UNCHANGED allVars
  <2>1. periodic' \in BOOLEAN
    BY <1>7 DEF allVars, crawlerVars, CrawlerTypeOK
  <2>2. TypeOK' /\ task' = task
    BY <1>0, <1>7 DEF allVars, vars, taskVars
  <2>3. QED
    BY <1>7, <2>1, <2>2 DEF allVars, crawlerVars, CrawlerTypeOK
<1>8. QED
  BY <1>1, <1>2, <1>3, <1>4, <1>5, <1>6, <1>7 DEF CrawlerNext, Working

(* The first state has the right types. *)
LEMMA CrawlerTypeInit == CrawlerInit => CrawlerTypeOK
<1> SUFFICES ASSUME CrawlerInit PROVE CrawlerTypeOK
  OBVIOUS
<1>1. TypeOK
  BY TypeInit DEF CrawlerInit
<1>2. periodic \in BOOLEAN
  BY DEF CrawlerInit
<1>3. QED
  BY <1>1, <1>2, MaxErrorsAssumption DEF CrawlerInit, Init, CrawlerTypeOK,
     Crawl

(* The steps of the crawler are steps of the worker, or it stands still.   *)
LEMMA StepsOfWorker ==
    ASSUME TypeOK, StepInv, [CrawlerNext]_allVars
    PROVE  [Next]_vars
<1> USE AllReposAssumption
<1>1. CASE WorkerStep
  BY <1>1, WorkerSteps
<1>2. CASE Working
  BY <1>2 DEF Working, EnterAll, EnterUpdates, TakeUpdate, UpdateDone,
     ReturnFromAll, ReturnFromUpdates, ReturnFromFailure, Next, TaskNext,
     EndWork
<1>3. QED
  BY <1>1, <1>2 DEF CrawlerNext, CrawlFails, PutUpdate, AnnounceUpdate, Next,
     allVars

(* Both from the first state on. *)
LEMMA CrawlerStepKept == CrawlerSpec => [](CrawlerTypeOK /\ StepInv)
<1>1. CrawlerInit => StepInv
  BY StepInit DEF CrawlerInit
<1>2. CrawlerTypeOK /\ StepInv /\ [CrawlerNext]_allVars => StepInv'
  BY StepsOfWorker, StepStep DEF CrawlerTypeOK
<1>3. QED
  BY <1>1, <1>2, CrawlerTypeInit, CrawlerTypeStep, PTL DEF CrawlerSpec

(* Type correctness of the crawler and its worker together.                *)
THEOREM CrawlerTypeCorrect == CrawlerSpec => []CrawlerTypeOK
  BY CrawlerStepKept, PTL

(* The crawler is a worker: whatever its work() does, every step is one of *)
(* the worker's steps or leaves the worker alone.                          *)
THEOREM CrawlerIsWorker == CrawlerSpec => Init /\ [][Next]_vars
<1>1. CrawlerInit => Init
  BY DEF CrawlerInit
<1>2. CrawlerTypeOK /\ StepInv /\ [CrawlerNext]_allVars => [Next]_vars
  BY StepsOfWorker DEF CrawlerTypeOK
<1>3. QED
  BY <1>1, <1>2, CrawlerStepKept, PTL DEF CrawlerSpec

(* So the crawler stands still while it is paused, and its task is never   *)
(* resumed twice.                                                          *)
THEOREM CrawlerPausesSafely ==
    CrawlerSpec => [](OneStepQueued /\ PauseExcludesWork)
<1>1. StepInv /\ SemaphoreInv => OneStepQueued /\ PauseExcludesWork
  BY DEF StepInv, SemaphoreInv
<1>2. QED
  BY <1>1, CrawlerIsWorker, StepKept, SemaphoreKept, PTL DEF Steps

(* And it implements Wakeup as far as safety goes: no iteration begins     *)
(* without a trigger, and a trigger that arrives makes an iteration due.   *)
THEOREM CrawlerImplements ==
    CrawlerSpec => Abstract!Init /\ [][Abstract!Next]_(Abstract!vars)
  BY CrawlerIsWorker, StepsImplement, PTL DEF Steps

-----------------------------------------------------------------------------
(* A callback of one of these kinds is in a queue. *)
Queued(s, kinds) == \E i \in DOMAIN s : s[i].kind \in kinds

(* What is appended is queued with what was queued before. *)
LEMMA QueuedAppend ==
    ASSUME NEW s \in Seq(Callback), NEW c \in Callback, NEW kinds
    PROVE  Queued(Append(s, c), kinds) <=> Queued(s, kinds) \/ c.kind \in kinds
<1>1. /\ DOMAIN s = 1..Len(s) /\ Len(s) \in Nat
      /\ DOMAIN Append(s, c) = 1..(Len(s) + 1)
      /\ \A i \in 1..Len(s) : Append(s, c)[i] = s[i]
      /\ Append(s, c)[Len(s) + 1] = c
  BY AppendAt
<1>2. QED
  BY <1>1 DEF Queued

(* The callback which is run leaves the queue, the others stay. *)
LEMMA QueuedTail ==
    ASSUME NEW s \in Seq(Callback), s # <<>>, NEW kinds
    PROVE  Queued(s, kinds) <=> Head(s).kind \in kinds \/ Queued(Tail(s), kinds)
<1>1. /\ DOMAIN s = 1..Len(s) /\ Len(s) \in Nat /\ Len(s) > 0
      /\ DOMAIN Tail(s) = 1..(Len(s) - 1)
      /\ \A i \in 1..(Len(s) - 1) : Tail(s)[i] = s[i + 1]
      /\ Head(s) = s[1]
  BY TailAt
<1>2. ASSUME NEW i \in DOMAIN s, s[i].kind \in kinds, i # 1
      PROVE  Queued(Tail(s), kinds)
  <2>1. i - 1 \in DOMAIN Tail(s) /\ Tail(s)[i - 1] = s[i]
    BY <1>1, <1>2
  <2>2. QED
    BY <1>2, <2>1 DEF Queued
<1>3. ASSUME NEW i \in DOMAIN Tail(s), Tail(s)[i].kind \in kinds
      PROVE  Queued(s, kinds)
  <2>1. i + 1 \in DOMAIN s /\ s[i + 1] = Tail(s)[i]
    BY <1>1, <1>3
  <2>2. QED
    BY <1>3, <2>1 DEF Queued
<1>4. QED
  BY <1>1, <1>2, <1>3 DEF Queued

(* What keeps a worker going.  A task which waits can be woken, one which  *)
(* was woken has its callback queued, one which works has a future which   *)
(* keeps a trigger; only cancel() ends it.                                 *)
Awake ==
    /\ cancelled \/ task \in {"finished", "skipped"} => cancelCall
    /\ Queued(ready, {"cancel"}) => cancelCall
    /\ ~cancelCall =>
          /\ task = "waiting" => future = "pending"
          /\ task = "working" => future \in {"pending", "done"}
          /\ task = "woken" => Queued(ready, {"wake"})

(* Every step of the worker keeps it so. *)
LEMMA AwakeStep ==
    ASSUME TypeOK, StepInv, Awake, [Next]_vars
    PROVE  Awake'
<1> USE DEF Awake
<1>q. /\ \A c \in Callback :
           /\ Queued(Append(ready, c), {"cancel"})
                 <=> Queued(ready, {"cancel"}) \/ c.kind = "cancel"
           /\ Queued(Append(ready, c), {"wake"})
                 <=> Queued(ready, {"wake"}) \/ c.kind = "wake"
  BY QueuedAppend DEF TypeOK
<1>t. ready # <<>> =>
         /\ Queued(ready, {"cancel"})
               <=> Head(ready).kind = "cancel" \/ Queued(Tail(ready), {"cancel"})
         /\ Queued(ready, {"wake"})
               <=> Head(ready).kind = "wake" \/ Queued(Tail(ready), {"wake"})
  BY QueuedTail DEF TypeOK
<1>u. ready # <<>> => \A c \in Callback :
         /\ Queued(Append(Tail(ready), c), {"cancel"})
               <=> Queued(Tail(ready), {"cancel"}) \/ c.kind = "cancel"
         /\ Queued(Append(Tail(ready), c), {"wake"})
               <=> Queued(Tail(ready), {"wake"}) \/ c.kind = "wake"
  BY QueuedAppend, TailAt DEF TypeOK
<1>c. /\ Call("step") \in Callback /\ Call("step").kind = "step"
      /\ Call("main") \in Callback /\ Call("main").kind = "main"
      /\ Call("wake") \in Callback /\ Call("wake").kind = "wake"
      /\ Call("cancel") \in Callback /\ Call("cancel").kind = "cancel"
      /\ \A p \in Payload :
            TriggerCall(p) \in Callback /\ TriggerCall(p).kind = "trigger"
  BY CallbackTypes
<1>1. ASSUME RunLoop PROVE Awake'
  BY <1>1, <1>q, <1>c DEF RunLoop, controlVars
<1>2. ASSUME RunMain PROVE Awake'
  BY <1>2, <1>t, <1>u, <1>c DEF RunMain, Next1, controlVars
<1>3. ASSUME RunStep PROVE Awake'
  BY <1>3, <1>t DEF RunStep, Next1, Finish, Begin, controlVars
<1>4. ASSUME RunTrigger PROVE Awake'
  <2>1. /\ ready # <<>> /\ Head(ready).kind = "trigger"
        /\ cancelled' = cancelled /\ cancelCall' = cancelCall
    BY <1>4 DEF RunTrigger, Next1, controlVars
  <2>2. CASE future = "pending" /\ task = "waiting"
    <3>1. /\ task' = "woken" /\ ready' = Append(Tail(ready), Call("wake"))
          /\ ~cancelled \/ cancelCall
      BY <1>4, <2>2 DEF RunTrigger
    <3>2. /\ Queued(ready', {"wake"})
          /\ Queued(ready', {"cancel"}) => Queued(ready, {"cancel"})
      BY <2>1, <3>1, <1>t, <1>u, <1>c
    <3>3. QED
      BY <2>1, <3>1, <3>2
  <2>3. CASE ~(future = "pending" /\ task = "waiting")
    <3>1. /\ ready' = Tail(ready) /\ task' = task
          /\ \/ future' = future
             \/ future = "pending" /\ task # "waiting" /\ future' = "done"
      BY <1>4, <2>3 DEF RunTrigger
    <3>2. /\ Queued(ready', {"wake"}) <=> Queued(ready, {"wake"})
          /\ Queued(ready', {"cancel"}) <=> Queued(ready, {"cancel"})
      BY <2>1, <3>1, <1>t
    <3>3. QED
      BY <2>1, <3>1, <3>2
  <2>4. QED
    BY <2>2, <2>3
<1>5. ASSUME RunCancel PROVE Awake'
  BY <1>5, <1>t DEF RunCancel, Next1, controlVars
<1>6. ASSUME RunWake PROVE Awake'
  BY <1>6, <1>t DEF RunWake, Next1, Finish, controlVars
<1>7. ASSUME Acquire PROVE Awake'
  BY <1>7 DEF Acquire, Begin, loopVars, controlVars
<1>8. ASSUME EndWork PROVE Awake'
  BY <1>8 DEF EndWork, Return, controlVars
<1>9. ASSUME InterruptWork PROVE Awake'
  BY <1>9 DEF InterruptWork, Finish, loopVars, controlVars
<1>10. ASSUME ControlNext PROVE Awake'
  <2>1. CASE CallCancel
    BY <2>1, <1>q, <1>c DEF CallCancel, taskVars
  <2>2. CASE Start
    BY <2>2 DEF Start, loopVars
  <2>3. CASE TryPause \/ SetPaused \/ Resume \/ Release \/ ClearPaused
    <3>1. /\ UNCHANGED <<ready, task, future>>
          /\ UNCHANGED <<cancelled, cancelCall>>
      BY <2>3 DEF TryPause, SetPaused, Resume, Release, ClearPaused, loopVars,
         taskVars
    <3>2. QED
      BY <3>1
  <2>4. QED
    BY <1>10, <2>1, <2>2, <2>3 DEF ControlNext
<1>11. ASSUME NEW p \in Payload, TimerExpires(p) \/ Trigger(p) PROVE Awake'
  <2>1. /\ ready' = Append(ready, TriggerCall(p))
        /\ UNCHANGED <<task, future>> /\ UNCHANGED <<cancelled, cancelCall>>
    BY <1>11 DEF TimerExpires, Trigger, taskVars, controlVars
  <2>2. /\ Queued(ready', {"wake"}) <=> Queued(ready, {"wake"})
        /\ Queued(ready', {"cancel"}) <=> Queued(ready, {"cancel"})
    BY <2>1, <1>q, <1>c
  <2>3. QED
    BY <2>1, <2>2
<1>12. CASE UNCHANGED vars
  BY <1>12 DEF vars, loopVars, taskVars, controlVars
<1>13. QED
  BY <1>1, <1>2, <1>3, <1>4, <1>5, <1>6, <1>7, <1>8, <1>9, <1>10, <1>11, <1>12
  DEF Next, LoopNext, TaskNext

(* Moreover an update no crawl has begun for is still in the queue, and a  *)
(* crawl which failed is counted.                                          *)
Kept ==
    /\ Awake
    /\ crawl = "failed" => errors > 0
    /\ \A u \in unserved : \E i \in DOMAIN repos : repos[i] = u

Stranding == Kept /\ NotStranded

(* Every step keeps what Kept says. *)
LEMMA KeptStep ==
    ASSUME CrawlerTypeOK, StepInv, Kept, [CrawlerNext]_allVars
    PROVE  Kept'
<1> USE MaxErrorsAssumption
<1>1. Awake'
  BY StepsOfWorker, AwakeStep DEF CrawlerTypeOK, Kept
<1>2. (crawl = "failed" => errors > 0)'
  <2>1. CASE WorkerStep
    BY <2>1, WorkerSteps DEF WorkerStep, Kept, CrawlerTypeOK
  <2>2. CASE ~WorkerStep
    BY <2>2 DEF CrawlerNext, Working, EnterAll, EnterUpdates, TakeUpdate,
       UpdateDone, ReturnFromAll, ReturnFromUpdates, ReturnFromFailure,
       CrawlFails, PutUpdate, AnnounceUpdate, allVars, crawlerVars, Kept,
       CrawlerTypeOK
  <2>3. QED
    BY <2>1, <2>2
<1>3. (\A u \in unserved : \E i \in DOMAIN repos : repos[i] = u)'
  <2>1. CASE TakeUpdate
    <3>1. /\ repos \in Seq(Update) /\ repos # <<>>
          /\ repos' = Tail(repos) /\ unserved' = unserved \ {Head(repos)}
      BY <2>1 DEF TakeUpdate, CrawlerTypeOK
    <3>2. /\ DOMAIN repos = 1..Len(repos) /\ Len(repos) \in Nat
          /\ DOMAIN Tail(repos) = 1..(Len(repos) - 1)
          /\ \A i \in 1..(Len(repos) - 1) : Tail(repos)[i] = repos[i + 1]
          /\ Head(repos) = repos[1]
      BY <3>1
    <3>3. ASSUME NEW u \in unserved, u # Head(repos)
          PROVE  \E i \in DOMAIN Tail(repos) : Tail(repos)[i] = u
      <4>1. PICK i \in DOMAIN repos : repos[i] = u
        BY <3>3 DEF Kept
      <4>2. i - 1 \in DOMAIN Tail(repos) /\ Tail(repos)[i - 1] = u
        BY <3>2, <3>3, <4>1
      <4>3. QED
        BY <4>2
    <3>4. QED
      BY <3>1, <3>3
  <2>2. ASSUME NEW u \in Update, PutUpdate(u)
        PROVE  (\A x \in unserved : \E i \in DOMAIN repos : repos[i] = x)'
    <3>1. /\ repos \in Seq(Update)
          /\ repos' = Append(repos, u) /\ unserved' = unserved \cup {u}
      BY <2>2 DEF PutUpdate, CrawlerTypeOK
    <3>2. /\ DOMAIN repos = 1..Len(repos) /\ Len(repos) \in Nat
          /\ DOMAIN Append(repos, u) = 1..(Len(repos) + 1)
          /\ \A i \in 1..Len(repos) : Append(repos, u)[i] = repos[i]
          /\ Append(repos, u)[Len(repos) + 1] = u
      BY <3>1
    <3>3. QED
      BY <3>1, <3>2 DEF Kept
  <2>3. CASE WorkerStep
    BY <2>3, WorkerSteps DEF CrawlerTypeOK, Kept
  <2>4. CASE ~WorkerStep /\ ~TakeUpdate /\ ~\E u \in Update : PutUpdate(u)
    <3>1. repos' = repos /\ unserved' \in {unserved, {}}
      BY <2>4 DEF CrawlerNext, Working, EnterAll, EnterUpdates, UpdateDone,
         ReturnFromAll, ReturnFromUpdates, ReturnFromFailure, CrawlFails,
         AnnounceUpdate, allVars, crawlerVars
    <3>2. QED
      BY <3>1 DEF Kept
  <2>5. QED
    BY <2>1, <2>2, <2>3, <2>4
<1>4. QED
  BY <1>1, <1>2, <1>3 DEF Kept

(* The steps of the worker outside of work() strand no update. *)
LEMMA WorkerStrandsNone ==
    ASSUME CrawlerTypeOK, StepInv, Kept, NotStranded, WorkerStep,
           unserved # {}, errors = 0, ~cancelCall'
    PROVE  NotStranded'
<1> DEFINE Going == Queued(ready, {"trigger", "wake"})
<1>k. /\ unserved' = unserved /\ errors' = errors /\ announced' = announced
  BY WorkerSteps DEF CrawlerTypeOK
<1>g. /\ Going <=> \E i \in DOMAIN ready : ready[i].kind \in {"trigger", "wake"}
      /\ Going' <=> \E i \in DOMAIN ready' : ready'[i].kind \in {"trigger", "wake"}
  BY DEF Queued
<1>a. Awake /\ TypeOK
  BY DEF Kept, CrawlerTypeOK
<1>w. crawl' = IF task' = "working" /\ task # "working" THEN "entry"
               ELSE IF task' = "finished" THEN "off" ELSE crawl
  BY DEF WorkerStep
<1> SUFFICES \/ announced # {} \/ Going'
             \/ task' \in {"none", "starting", "main", "scheduled", "acquire"}
             \/ task' = "working" /\ (crawl' \in {"entry", "drain", "one"}
                                      \/ future' = "done")
  BY <1>k, <1>g DEF NotStranded
<1>o. ASSUME ~cancelCall
      PROVE  \/ announced # {} \/ Going
             \/ task \in {"none", "starting", "main", "scheduled", "acquire"}
             \/ task = "working" /\ (crawl \in {"entry", "drain", "one"}
                                     \/ future = "done")
  BY <1>o, <1>g DEF NotStranded
<1>q. \A c \in Callback : Queued(Append(ready, c), {"trigger", "wake"})
          <=> Going \/ c.kind \in {"trigger", "wake"}
  BY <1>a, QueuedAppend DEF TypeOK
<1>t. ready # <<>> =>
         Going <=> Head(ready).kind \in {"trigger", "wake"}
                   \/ Queued(Tail(ready), {"trigger", "wake"})
  BY <1>a, QueuedTail DEF TypeOK
<1>v. ready # <<>> => \A c \in Callback :
         Queued(Append(Tail(ready), c), {"trigger", "wake"})
            <=> Queued(Tail(ready), {"trigger", "wake"})
                \/ c.kind \in {"trigger", "wake"}
  BY <1>a, QueuedAppend, TailAt DEF TypeOK
<1>c. /\ Call("wake") \in Callback /\ Call("wake").kind = "wake"
      /\ \A p \in Payload :
            TriggerCall(p) \in Callback /\ TriggerCall(p).kind = "trigger"
  BY CallbackTypes
<1>x. ready # <<>> /\ Queued(Tail(ready), {"wake"})
          => Queued(Tail(ready), {"trigger", "wake"})
  BY DEF Queued
<1>1. CASE RunLoop
  BY <1>1 DEF RunLoop
<1>2. CASE RunMain
  BY <1>2, <1>a DEF RunMain, Next1, Awake, controlVars
<1>3. CASE RunStep
  <2>1. ~cancelled /\ task = "scheduled"
    <3>1. ~cancelled
      BY <1>3, <1>a DEF RunStep, Awake, controlVars
    <3>2. 1 \in DOMAIN ready /\ ready[1].kind = "step"
      BY <1>3, <1>a, TailAt DEF RunStep, Next1, TypeOK
    <3>3. QED
      BY <3>1, <3>2 DEF StepInv, OneStepQueued
  <2>2. QED
    BY <1>3, <1>w, <2>1 DEF RunStep, Begin
<1>4. CASE RunTrigger
  <2>1. /\ ready # <<>> /\ Head(ready).kind = "trigger" /\ LoopRuns
        /\ ~cancelCall
    BY <1>4 DEF RunTrigger, Next1, controlVars
  <2>2. CASE future = "pending" /\ task = "waiting"
    BY <1>4, <2>1, <2>2, <1>v, <1>c DEF RunTrigger
  <2>3. CASE ~(future = "pending" /\ task = "waiting")
    <3>1. /\ ready' = Tail(ready) /\ task' = task
          /\ future = "pending" => future' = "done"
          /\ future # "pending" => future' = future
      BY <1>4, <2>3 DEF RunTrigger
    <3>2. task \in {"main", "scheduled", "working", "woken"}
      BY <2>1, <2>3, <1>a DEF LoopRuns, TypeOK, Task, Awake
    <3>3. task = "working" => future' = "done"
      BY <2>1, <3>1, <1>a DEF Awake
    <3>4. task = "woken" => Going'
      <4>1. task = "woken" => Queued(ready, {"wake"})
        BY <2>1, <1>a DEF Awake
      <4>2. Queued(ready, {"wake"}) => Queued(Tail(ready), {"wake"})
        BY <2>1, <1>a, QueuedTail DEF TypeOK
      <4>3. QED
        BY <2>1, <3>1, <4>1, <4>2, <1>x
    <3>5. QED
      BY <3>1, <3>2, <3>3, <3>4
  <2>4. QED
    BY <2>2, <2>3
<1>5. CASE RunCancel
  <2>1. Head(ready).kind = "cancel" /\ ready # <<>> /\ cancelCall' = cancelCall
    BY <1>5 DEF RunCancel, Next1, controlVars
  <2>2. Queued(ready, {"cancel"})
    BY <2>1, <1>a, QueuedTail DEF TypeOK
  <2>3. QED
    BY <2>1, <2>2, <1>a DEF Awake
<1>6. CASE RunWake
  BY <1>6, <1>a DEF RunWake, Awake, controlVars
<1>7. CASE Acquire
  BY <1>7, <1>w DEF Acquire, Begin
<1>8. CASE InterruptWork
  BY <1>8, <1>a DEF InterruptWork, Awake, controlVars
<1>9. CASE ControlNext
  <2>1. ~CallCancel
    BY DEF CallCancel
  <2>2. CASE Start
    BY <2>2 DEF Start
  <2>3. CASE TryPause \/ SetPaused \/ Resume \/ Release \/ ClearPaused
    <3>1. /\ UNCHANGED <<ready, task, future>>
          /\ UNCHANGED cancelCall
      BY <2>3 DEF TryPause, SetPaused, Resume, Release, ClearPaused, loopVars,
         taskVars
    <3>2. task # "finished" /\ ~cancelCall
      BY <3>1, <1>a DEF Awake
    <3>3. crawl' = crawl
      BY <3>1, <3>2, <1>w
    <3>4. QED
      BY <3>1, <3>2, <3>3, <1>o
  <2>4. QED
    BY <1>9, <2>1, <2>2, <2>3 DEF ControlNext
<1>10. CASE \E p \in Payload : TimerExpires(p)
  BY <1>10, <1>q, <1>c DEF TimerExpires
<1>11. QED
  BY <1>1, <1>2, <1>3, <1>4, <1>5, <1>6, <1>7, <1>8, <1>9, <1>10
  DEF WorkerStep, LoopNext

(* No step strands an update. *)
LEMMA StrandingStep ==
    ASSUME CrawlerTypeOK, StepInv, Stranding, [CrawlerNext]_allVars
    PROVE  Stranding'
<1>k. Kept'
  BY KeptStep DEF Stranding
<1>a. Awake /\ Kept /\ NotStranded /\ TypeOK
  BY DEF Stranding, Kept, CrawlerTypeOK
<1>r. \A p \in {AllRepos, NoPayload} : p \in Payload
  BY AllReposAssumption
<1> SUFFICES ASSUME unserved' # {}, errors' = 0, ~cancelCall'
             PROVE  NotStranded'
  BY <1>k DEF Stranding, NotStranded
<1>1. CASE WorkerStep
  <2>1. unserved # {} /\ errors = 0
    BY <1>1, <1>a, WorkerSteps
  <2>2. QED
    BY <1>1, <1>a, <2>1, WorkerStrandsNone
<1>2. CASE EnterAll
  BY <1>2 DEF EnterAll
<1>3. CASE EnterUpdates \/ TakeUpdate \/ UpdateDone
  <2>1. task' = "working" /\ crawl' \in {"drain", "one"}
    BY <1>3 DEF EnterUpdates, TakeUpdate, UpdateDone, vars, taskVars,
       CrawlerTypeOK
  <2>2. QED
    BY <2>1 DEF NotStranded
<1>4. CASE ReturnFromAll
  <2>1. PICK t : Return(t)
    BY <1>4 DEF ReturnFromAll
  <2>2. /\ ready' = ready /\ announced' = announced
        /\ unserved # {} /\ errors = 0 /\ ~cancelCall
        /\ crawl = "all"
    BY <1>4, <2>1 DEF ReturnFromAll, Return, controlVars
  <2>3. \/ announced # {}
        \/ \E i \in DOMAIN ready : ready[i].kind \in {"trigger", "wake"}
        \/ future = "done"
    BY <2>1, <2>2, <1>a DEF NotStranded, Return
  <2>4. future = "done" => task' = "acquire"
    BY <2>1 DEF Return
  <2>5. QED
    BY <2>2, <2>3, <2>4 DEF NotStranded
<1>5. CASE ReturnFromUpdates
  BY <1>5, <1>a DEF ReturnFromUpdates, Kept
<1>6. CASE ReturnFromFailure \/ CrawlFails
  <2>1. errors' > 0 /\ errors' \in Nat
    BY <1>6, <1>a, MaxErrorsAssumption DEF ReturnFromFailure, CrawlFails, Kept,
       CrawlerTypeOK
  <2>2. QED
    BY <2>1
<1>7. ASSUME NEW u \in Update, PutUpdate(u) PROVE NotStranded'
  BY <1>7 DEF PutUpdate, NotStranded
<1>8. ASSUME NEW u \in Update, AnnounceUpdate(u) PROVE NotStranded'
  <2>1. TriggerCall(NoPayload) \in Callback
        /\ TriggerCall(NoPayload).kind = "trigger"
    BY CallbackTypes, <1>r
  <2>2. Queued(Append(ready, TriggerCall(NoPayload)), {"trigger", "wake"})
    BY <1>a, <2>1, QueuedAppend DEF TypeOK
  <2>3. ready' = Append(ready, TriggerCall(NoPayload))
    BY <1>8 DEF AnnounceUpdate, Trigger
  <2>4. QED
    BY <2>2, <2>3 DEF NotStranded, Queued
<1>9. CASE UNCHANGED allVars
  BY <1>9, <1>a DEF allVars, vars, loopVars, taskVars, controlVars,
     crawlerVars, NotStranded
<1>10. QED
  BY <1>1, <1>2, <1>3, <1>4, <1>5, <1>6, <1>7, <1>8, <1>9
  DEF CrawlerNext, Working

(* No update is left in the queue with nobody under way to take it.        *)
THEOREM UpdatesNotStranded == CrawlerSpec => []NotStranded
<1>1. CrawlerInit => Stranding
  BY DEF CrawlerInit, Init, Stranding, Kept, Awake, Queued, NotStranded
<1>2. CrawlerTypeOK /\ StepInv /\ Stranding /\ [CrawlerNext]_allVars
          => Stranding'
  BY StrandingStep
<1>3. Stranding => NotStranded
  BY DEF Stranding
<1>4. QED
  BY <1>1, <1>2, <1>3, CrawlerStepKept, PTL DEF CrawlerSpec

=============================================================================
