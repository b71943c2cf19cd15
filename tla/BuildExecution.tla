--------------------------- MODULE BuildExecution ---------------------------
(***************************************************************************)
(* One build on one agent, from the start of the docker task to the        *)
(* removal of its container: the coroutine of the agent, the executor      *)
(* thread which runs the methods of Builder one after the other, the       *)
(* docker daemon, the user who stops the build, the operator who shuts the *)
(* agent down, and a browser which follows the log lines and the status.   *)
(*                                                                         *)
(* The thread and the agent share the flag __cancelled and the log stream  *)
(* under __cancel_lock; log lines go through a queue, from there into the  *)
(* table log_line, and as events to the browser, which reads the row an    *)
(* event names.                                                            *)
(***************************************************************************)
EXTENDS Naturals, Sequences, FiniteSets

CONSTANTS
    MaxLines,  \* how many lines the container prints at most
    MaxFaults  \* how many calls of docker, MySQL or Redis may fail

ASSUME MaxLinesAssumption == MaxLines \in Nat
ASSUME MaxFaultsAssumption == MaxFaults \in Nat

VARIABLES
    thread,    \* where the docker task is
    lock,      \* the owner of __cancel_lock
    cancelled, \* __cancelled
    stream,    \* __container_logs
    queue,     \* __logs: the lines which were not collected yet
    got,       \* how many lines the thread has read from the stream
    output,    \* TRUE: build_output was fetched
    container, \* the container in the docker daemon
    printed,   \* how many lines the container has printed
    pc,        \* where the agent is in __process_builds
    why,       \* why the agent leaves the `with Builder` block
    loopRuns,  \* the event loop of the agent runs
    batch,     \* the lines the agent has collected and not stored yet
    counter,   \* __log_line_counter
    stored,    \* table log_line: numbers and contents, in order of insertion
    outcome,   \* what the agent has recorded for the build
    buildId,   \* __build_id, which a stop clears: nothing is recorded then
    stopping,  \* the user has set the build to stopping
    announce,  \* the row which is committed and not published yet
    feed,      \* the rows named by events on their way to the browser
    joined,    \* the lines stored before the browser subscribed, or NotJoined
    shown,     \* the log lines the browser was sent
    shownStatus, \* the status of the build the browser shows
    faults     \* how many faults occurred

threadVars == <<thread, stream, queue, got, output>>
dockerVars == <<container, printed>>
agentVars == <<pc, why, batch, counter, stored, outcome, buildId>>
feedVars == <<announce, feed, joined, shown, shownStatus>>
vars == <<threadVars, lock, cancelled, dockerVars, agentVars, loopRuns,
          stopping, feedVars, faults>>

(* The jobs of _run_build, with the points between them at which the       *)
(* coroutine has to submit the next one to the executor.                   *)
Between == {"pulled", "prepared", "filled"}
InDocker == {"pull", "files", "create", "put", "run", "start", "logs",
             "stream", "streamed", "wait", "fetch"}
Ended == {"returned", "failed", "raised"}

(* `leave` and `remove` are the two halves of __exit__, `record` is what   *)
(* the exception handlers around the `with` block do.                      *)
Pc == {"wait", "store", "storeLast", "check", "cancel", "recordStop",
       "success", "message", "failure", "recordError", "recordSuccess",
       "leave", "remove", "record", "left"}
Why == {"none", "ended", "stop", "shutdown", "error"}

(* The content of the line that says why a build failed, the event that    *)
(* names the build, and the value of `joined` before the subscription.     *)
Message == MaxLines + 1
BuildRow == 0
NotJoined == MaxLines + 2

-----------------------------------------------------------------------------

Fault == faults < MaxFaults /\ faults' = faults + 1

At(t) == thread = t

ThreadGoes(t) == thread' = t

(* A call of docker: it returns, raises the APIError which Builder turns   *)
(* into BuildFailed, or raises something else.                             *)
DockerCall(next) ==
    \/ ThreadGoes(next) /\ UNCHANGED faults
    \/ Fault /\ thread' \in {"failed", "raised"}

(* The agent is at an await, so other callbacks of its loop may run. *)
LoopFree == loopRuns /\ pc \in {"wait", "left"}

Init ==
    /\ thread = "pull" /\ lock = "free" /\ cancelled = FALSE
    /\ stream = "none" /\ queue = <<>> /\ got = 0 /\ output = FALSE
    /\ container = "none" /\ printed = 0
    /\ pc = "wait" /\ why = "none" /\ loopRuns = TRUE
    /\ batch = <<>> /\ counter = 1 /\ stored = <<>> /\ outcome = "none"
    /\ buildId = "set"
    /\ stopping = FALSE
    /\ announce = {} /\ feed = {} /\ joined = NotJoined
    /\ shown = {} /\ shownStatus = "none"
    /\ faults = 0

-----------------------------------------------------------------------------
(* The executor thread. *)

(* pull_image: a local image is not pulled; a name docker cannot parse, or  *)
(* a pull that fails, fails the build.                                     *)
PullImage ==
    /\ At("pull")
    /\ \/ DockerCall("pulled")
       \/ ThreadGoes("failed") /\ UNCHANGED faults
    /\ UNCHANGED <<stream, queue, got, output, container, lock>>

(* create_build_files: no call of docker, but templates and parameters may *)
(* not match.                                                              *)
CreateBuildFiles ==
    /\ At("files")
    /\ \/ ThreadGoes("prepared") /\ UNCHANGED faults
       \/ Fault /\ ThreadGoes("raised")
    /\ UNCHANGED <<stream, queue, got, output, container, lock>>

(* setup_container, first call. *)
CreateContainer ==
    /\ At("create")
    /\ DockerCall("put")
    /\ container' = IF thread' = "put" THEN "created" ELSE container
    /\ UNCHANGED <<stream, queue, got, output, lock>>

(* setup_container, second call: not on a container which __exit__ removed *)
(* in between.                                                             *)
PutArchive ==
    /\ At("put")
    /\ IF container = "removed" THEN ThreadGoes("failed") /\ UNCHANGED faults
                                ELSE DockerCall("filled")
    /\ UNCHANGED <<stream, queue, got, output, container, lock>>

(* Mutant: the flag is read before the lock is taken. *)
EnterRunBuildUnlocked ==
    /\ At("run")
    /\ ThreadGoes(IF cancelled THEN "returned" ELSE "start")
    /\ UNCHANGED <<stream, queue, got, output, container, lock, faults>>

(* run_build takes the lock and looks at the flag. *)
EnterRunBuild ==
    /\ At("run") /\ lock = "free"
    /\ IF cancelled THEN ThreadGoes("returned") /\ UNCHANGED lock
                    ELSE ThreadGoes("start") /\ lock' = "thread"
    /\ UNCHANGED <<stream, queue, got, output, container, faults>>

(* container.start(), with the lock held. *)
StartContainer ==
    /\ At("start")
    /\ IF container = "removed" THEN ThreadGoes("failed") /\ UNCHANGED faults
                                ELSE DockerCall("logs")
    /\ container' = IF thread' = "logs" THEN "running" ELSE container
    /\ lock' = IF thread' = "logs" THEN lock ELSE "free"
    /\ UNCHANGED <<stream, queue, got, output>>

(* container.logs(), then the lock is released. *)
OpenLogs ==
    /\ At("logs")
    /\ IF container = "removed" THEN ThreadGoes("failed") /\ UNCHANGED faults
                                ELSE DockerCall("stream")
    /\ stream' = IF thread' = "stream" THEN "open" ELSE stream
    /\ lock' = "free"
    /\ UNCHANGED <<queue, got, output, container>>

(* Mutant: a line is read although the container has printed no more. *)
StreamLineUnguarded ==
    /\ At("stream") /\ stream = "open" /\ got <= printed
    /\ got' = got + 1
    /\ queue' = Append(queue, got + 1)
    /\ UNCHANGED <<thread, stream, output, container, lock, faults>>

(* One line of the stream goes into the queue. *)
StreamLine ==
    /\ At("stream") /\ stream = "open" /\ got < printed
    /\ got' = got + 1
    /\ queue' = Append(queue, got + 1)
    /\ UNCHANGED <<thread, stream, output, container, lock, faults>>

(* The stream ends when cancel() closed it or the container has exited, or *)
(* because the connection to docker breaks.                                *)
StreamEnds ==
    /\ At("stream")
    /\ \/ /\ \/ stream = "closed"
             \/ container = "removed"
             \/ container = "exited" /\ got = printed
          /\ ThreadGoes("streamed") /\ UNCHANGED faults
       \/ Fault /\ thread' \in {"streamed", "raised"}
    /\ UNCHANGED <<stream, queue, got, output, container, lock>>

(* The stream is given up under the lock; a cancelled build is over. *)
CloseLogs ==
    /\ At("streamed") /\ lock = "free"
    /\ stream' = "none"
    /\ ThreadGoes(IF cancelled THEN "returned" ELSE "wait")
    /\ UNCHANGED <<queue, got, output, container, lock, faults>>

(* container.wait() blocks while the container runs, whoever cancels the   *)
(* build; its errors are not turned into BuildFailed.                      *)
WaitForExit ==
    /\ At("wait")
    /\ \/ Fault /\ ThreadGoes("raised")
       \/ /\ container # "running"
          /\ ThreadGoes(IF container = "removed" THEN "raised" ELSE "fetch")
          /\ UNCHANGED faults
    /\ UNCHANGED <<stream, queue, got, output, container, lock>>

(* get_archive() fetches the output whatever the status code is. *)
FetchOutput ==
    /\ At("fetch")
    /\ \/ /\ container # "removed"
          /\ output' = TRUE
          /\ thread' \in {"returned", "failed"}
          /\ UNCHANGED faults
       \/ /\ container = "removed" /\ ThreadGoes("failed")
          /\ UNCHANGED <<output, faults>>
       \/ /\ Fault
          /\ thread' \in {"failed", "raised"}
          /\ UNCHANGED output
    /\ UNCHANGED <<stream, queue, got, container, lock>>

ThreadStep ==
    /\ \/ PullImage \/ CreateBuildFiles \/ CreateContainer \/ PutArchive
       \/ EnterRunBuild \/ StartContainer \/ OpenLogs
       \/ StreamLine \/ StreamEnds \/ CloseLogs
       \/ WaitForExit \/ FetchOutput
    /\ UNCHANGED <<cancelled, printed, agentVars, loopRuns, stopping, feedVars>>

(* _run_build submits the next job.  Nobody cancels this coroutine: it goes *)
(* on while the loop runs, even after the agent has left the build.        *)
Submit ==
    /\ LoopFree /\ thread \in Between
    /\ ThreadGoes(CASE thread = "pulled" -> "files"
                    [] thread = "prepared" -> "create"
                    [] thread = "filled" -> "run")
    /\ UNCHANGED <<stream, queue, got, output, lock, cancelled, dockerVars,
                   agentVars, loopRuns, stopping, feedVars, faults>>

-----------------------------------------------------------------------------
(* The container. *)

ContainerPrints ==
    /\ container = "running" /\ printed < MaxLines
    /\ printed' = printed + 1
    /\ UNCHANGED container

ContainerExits ==
    /\ container = "running"
    /\ container' = "exited"
    /\ UNCHANGED printed

ContainerStep ==
    /\ ContainerPrints \/ ContainerExits
    /\ UNCHANGED <<threadVars, lock, cancelled, agentVars, loopRuns, stopping,
                   feedVars, faults>>
-----------------------------------------------------------------------------
(* The coroutine of the agent. *)

Goto(label) == pc' = label

(* The `with` block is left for a reason; __exit__ follows. *)
LeaveBlock(reason) == Goto("leave") /\ why' = reason

(* Mutant: when the task has ended the lines are not collected any more. *)
CollectLinesUnlessDone ==
    /\ pc = "wait" /\ loopRuns
    /\ IF thread \in Ended
         THEN Goto("storeLast") /\ UNCHANGED <<batch, queue>>
         ELSE Goto("store") /\ batch' = queue /\ queue' = <<>>
    /\ UNCHANGED <<why, counter, stored, outcome, buildId, announce, faults>>

(* asyncio.wait returns and the lines printed so far are collected: after  *)
(* the 10 seconds, or because the task has ended.                          *)
CollectLines ==
    /\ pc = "wait" /\ loopRuns
    /\ batch' = queue
    /\ queue' = <<>>
    /\ Goto(IF thread \in Ended THEN "storeLast" ELSE "store")
    /\ UNCHANGED <<why, counter, stored, outcome, buildId, announce, faults>>

(* Where the agent goes once its lines are stored, or given up. *)
AfterStoring == CASE pc = "store" -> "check"
                  [] pc = "message" -> "failure"
                  [] pc = "storeLast" /\ thread = "returned" -> "success"
                  [] pc = "storeLast" /\ thread = "failed" -> "message"
                  [] pc = "storeLast" /\ thread = "raised" -> "leave"

(* An exception other than OperationalError leaves the block.              *)
GiveUpStoring == LeaveBlock("error") /\ batch' = <<>>

(* builder_task.result() raises what the task raised: BuildFailed is one   *)
(* more line, anything else leaves the block.                              *)
DoneStoring ==
    /\ Goto(AfterStoring)
    /\ batch' = IF pc' = "message" THEN <<Message>> ELSE <<>>
    /\ why' = IF pc' = "leave" THEN "error" ELSE why

(* Mutant: a line is published before it is committed. *)
StoreLinePublishedFirst ==
    /\ pc \in {"store", "storeLast", "message"}
    /\ batch # <<>> /\ announce = {}
    /\ IF counter = Len(stored) + 1
         THEN /\ counter' = counter + 1 /\ announce' = {counter}
              /\ UNCHANGED <<stored, batch>>
         ELSE /\ stored' = Append(stored, [number |-> counter - 1,
                                          content |-> Head(batch)])
              /\ batch' = Tail(batch)
              /\ UNCHANGED <<counter, announce>>
    /\ UNCHANGED <<pc, why, faults, queue, outcome, buildId>>

(* __append_to_logs: every line is a transaction of its own and gets the   *)
(* next number before its commit.  When the database fails, this line and  *)
(* the rest of the batch are lost; any other error leaves the block.       *)
StoreLine ==
    /\ pc \in {"store", "storeLast", "message"}
    /\ batch # <<>> /\ announce = {}
    /\ counter' = counter + 1
    /\ \/ /\ stored' = Append(stored, [number |-> counter,
                                       content |-> Head(batch)])
          /\ announce' = {Len(stored) + 1}
          /\ batch' = Tail(batch)
          /\ UNCHANGED <<pc, why, faults>>
       \/ /\ Fault /\ (DoneStoring \/ GiveUpStoring)
          /\ UNCHANGED <<stored, announce>>
    /\ UNCHANGED <<queue, outcome, buildId>>

(* The batch is stored; __update_run follows. *)
StoredAll ==
    /\ pc \in {"store", "storeLast", "message"}
    /\ batch = <<>> /\ announce = {}
    /\ \/ DoneStoring /\ UNCHANGED faults
       \/ Fault /\ GiveUpStoring
    /\ UNCHANGED <<queue, counter, stored, outcome, buildId, announce>>

(* __cancel_stopping_build looks for a build the user stops, which it is   *)
(* not any more when the stop was recorded.                                *)
CheckStopping ==
    /\ pc = "check"
    /\ \/ Goto(IF stopping /\ outcome = "none" THEN "cancel" ELSE "wait")
          /\ UNCHANGED <<why, faults>>
       \/ Fault /\ Goto("wait") /\ UNCHANGED why
       \/ Fault /\ LeaveBlock("error")
    /\ UNCHANGED <<queue, batch, counter, stored, outcome, buildId, announce>>

(* A commit, after which build and run are published. *)
Commit(status) == outcome' = status /\ announce' = {BuildRow}

(* __set_build_status, which does nothing without the id of a build.       *)
Record(status) ==
    /\ IF buildId = "none" THEN UNCHANGED <<outcome, announce>>
                           ELSE Commit(status)
    /\ UNCHANGED faults

(* The stop is recorded and the id cleared; when that fails the agent goes *)
(* on waiting, or gives the build back.                                    *)
RecordStop ==
    /\ pc = "recordStop"
    /\ \/ /\ Commit("stopped") /\ LeaveBlock("stop") /\ buildId' = "none"
          /\ UNCHANGED faults
       \/ /\ Fault
          /\ \/ Goto("wait") /\ UNCHANGED why
             \/ LeaveBlock("error")
          /\ UNCHANGED <<outcome, buildId, announce>>
    /\ UNCHANGED <<queue, batch, counter, stored>>

(* Manager.process_success and process_failure; what they do to the        *)
(* database is modelled in Dependencies.                                   *)
ProcessOutput ==
    /\ pc \in {"success", "failure"}
    /\ \/ /\ Goto(IF pc = "success" THEN "recordSuccess" ELSE "recordError")
          /\ UNCHANGED <<why, faults>>
       \/ Fault /\ LeaveBlock("error")
    /\ UNCHANGED <<queue, batch, counter, stored, outcome, buildId, announce>>

(* __set_build_status swallows an error of the database, and no other. *)
RecordEnd ==
    /\ pc \in {"recordSuccess", "recordError"}
    /\ \/ /\ Record(IF pc = "recordSuccess" THEN "success" ELSE "error")
          /\ LeaveBlock("ended")
       \/ /\ Fault
          /\ LeaveBlock("ended") \/ LeaveBlock("error")
          /\ UNCHANGED <<outcome, announce>>
    /\ UNCHANGED <<queue, batch, counter, stored, buildId>>

(* The build is given back: `except CancelledError` and `except Exception`. *)
RecordNew ==
    /\ pc = "record" /\ announce = {}
    /\ \/ Record("new")
       \/ Fault /\ UNCHANGED <<outcome, announce>>
    /\ Goto("left")
    /\ UNCHANGED <<queue, why, batch, counter, stored, buildId>>

AgentStep ==
    /\ \/ CollectLines \/ StoreLine \/ StoredAll \/ CheckStopping
       \/ RecordStop \/ ProcessOutput \/ RecordEnd \/ RecordNew
    /\ UNCHANGED <<thread, stream, got, output, lock, cancelled, dockerVars,
                   loopRuns, stopping, feed, joined, shown, shownStatus>>

(* Mutant: the logs stay open. *)
CancelWithoutClosing ==
    /\ pc = "cancel" /\ lock = "free"
    /\ cancelled' = TRUE
    /\ Goto("recordStop")
    /\ UNCHANGED <<stream, container, why, faults>>

(* Builder.cancel(): blocks, with the whole event loop, until the thread   *)
(* releases the lock, sets the flag and closes an open stream.  When that  *)
(* raises the stop is not recorded.                                        *)
Cancel ==
    /\ pc = "cancel" /\ lock = "free"
    /\ cancelled' = TRUE
    /\ \/ /\ stream' = IF stream = "open" THEN "closed" ELSE stream
          /\ Goto("recordStop") /\ UNCHANGED <<why, faults>>
       \/ /\ stream = "open" /\ Fault
          /\ stream' \in {"open", "closed"}
          /\ LeaveBlock("error")
    /\ UNCHANGED container

(* Where the agent goes when __exit__ returns. *)
AfterExit == IF why \in {"ended", "stop"} THEN "left" ELSE "record"

(* A call of docker in __exit__ raises something else than APIError: the   *)
(* agent falls into `except Exception`, with a shutdown on its way.        *)
ExitRaises == Goto("record") /\ why' = "error"

(* Mutant: the container is removed without being stopped. *)
ExitWithoutStop ==
    /\ pc = "leave" /\ announce = {}
    /\ Goto(IF container = "none" THEN AfterExit ELSE "remove")
    /\ UNCHANGED <<stream, cancelled, container, why, faults>>

(* __exit__, first half: there is no container, or it is stopped.          *)
ExitStop ==
    /\ pc = "leave" /\ announce = {}
    /\ \/ /\ container' = IF container = "running" THEN "exited" ELSE container
          /\ Goto(IF container = "none" THEN AfterExit ELSE "remove")
          /\ UNCHANGED <<why, faults>>
       \/ /\ container # "none" /\ Fault /\ UNCHANGED container
          /\ \/ Goto("remove") /\ UNCHANGED why
             \/ ExitRaises
    /\ UNCHANGED <<stream, cancelled>>

(* __exit__, second half: docker does not remove a running container, and  *)
(* its APIError is ignored.                                                *)
ExitRemove ==
    /\ pc = "remove"
    /\ \/ /\ container' = IF container = "running" THEN container ELSE "removed"
          /\ Goto(AfterExit) /\ UNCHANGED <<why, faults>>
       \/ /\ Fault /\ UNCHANGED container
          /\ \/ Goto(AfterExit) /\ UNCHANGED why
             \/ ExitRaises
    /\ UNCHANGED <<stream, cancelled>>

(* The operator shuts the agent down: the CancelledError is raised at the  *)
(* await, and nobody calls Builder.cancel().                               *)
Shutdown ==
    /\ pc = "wait" /\ loopRuns
    /\ LeaveBlock("shutdown")
    /\ UNCHANGED <<stream, cancelled, container, faults>>

BuilderStep ==
    /\ Cancel \/ ExitStop \/ ExitRemove
    /\ UNCHANGED <<thread, queue, got, output, lock, printed, batch, counter,
                   stored, outcome, buildId, loopRuns, stopping, feedVars>>

ShutdownStep ==
    /\ Shutdown
    /\ UNCHANGED <<thread, queue, got, output, lock, printed, batch, counter,
                   stored, outcome, buildId, loopRuns, stopping, feedVars>>

(* The loop of a worker that was cancelled stops soon after.               *)
LoopStops ==
    /\ pc = "left" /\ why = "shutdown" /\ loopRuns
    /\ loopRuns' = FALSE
    /\ UNCHANGED <<threadVars, lock, cancelled, dockerVars, agentVars, stopping,
                   feedVars, faults>>

-----------------------------------------------------------------------------
(* Events and the browser. *)

(* publish_log_line_update and publish_build_update: a subscriber gets the *)
(* event, and it is lost when Redis cannot be reached.                     *)
Publish ==
    /\ announce # {}
    /\ announce' = {}
    /\ \/ /\ feed' = IF joined = NotJoined THEN feed ELSE feed \cup announce
          /\ UNCHANGED faults
       \/ Fault /\ UNCHANGED feed
    /\ UNCHANGED <<joined, shown, shownStatus>>

(* Or the agent fails before the session of the commit ends: to publish    *)
(* means to read the committed rows again.  An OperationalError ends the   *)
(* batch, or brings the agent back into its loop with the stop recorded,   *)
(* and with the id of the build when it is not cleared yet.  Any other     *)
(* error leaves the block; the build is given back if its id is there.     *)
PublishRaises ==
    /\ announce # {} /\ Fault
    /\ announce' = {}
    /\ \E sent \in SUBSET announce :
           feed' = IF joined = NotJoined THEN feed ELSE feed \cup sent
    /\ \/ /\ pc \in {"store", "storeLast", "message"}
          /\ DoneStoring \/ GiveUpStoring
          /\ UNCHANGED buildId
       \/ /\ pc = "leave" /\ why = "stop"
          /\ Goto("wait") /\ why' = "none"
          /\ buildId' \in {"set", "none"} /\ UNCHANGED batch
       \/ /\ pc = "leave" /\ LeaveBlock("error")
          /\ buildId' = "set" \/ UNCHANGED buildId
          /\ UNCHANGED batch
    /\ UNCHANGED <<counter, stored, outcome, joined, shown, shownStatus>>

(* A browser opens the event streams. *)
Join ==
    /\ joined = NotJoined
    /\ joined' = Len(stored)
    /\ UNCHANGED <<announce, feed, shown, shownStatus, faults>>

(* subscribe: the row an event names is read, and sent if it is there.     *)
Deliver(row) ==
    /\ row \in feed
    /\ feed' = feed \ {row}
    /\ \/ /\ shown' = IF row \in 1..Len(stored) THEN shown \cup {row} ELSE shown
          /\ shownStatus' = IF row = BuildRow THEN outcome ELSE shownStatus
          /\ UNCHANGED faults
       \/ Fault /\ UNCHANGED <<shown, shownStatus>>
    /\ UNCHANGED <<announce, joined>>

EventStep ==
    /\ Publish \/ \E row \in feed : Deliver(row)
    /\ UNCHANGED <<threadVars, lock, cancelled, dockerVars, agentVars, loopRuns,
                   stopping>>

PublishStep ==
    /\ PublishRaises
    /\ UNCHANGED <<threadVars, lock, cancelled, dockerVars, loopRuns, stopping>>

BrowserJoins ==
    /\ Join
    /\ UNCHANGED <<threadVars, lock, cancelled, dockerVars, agentVars, loopRuns,
                   stopping>>

(* The user stops the build.                                               *)
UserStops ==
    /\ ~stopping /\ outcome = "none"
    /\ stopping' = TRUE
    /\ UNCHANGED <<threadVars, lock, cancelled, dockerVars, agentVars, loopRuns,
                   feedVars, faults>>

Next == \/ ThreadStep \/ Submit \/ ContainerStep
        \/ AgentStep \/ BuilderStep \/ ShutdownStep \/ LoopStops
        \/ EventStep \/ PublishStep \/ BrowserJoins \/ UserStops

Spec == Init /\ [][Next]_vars

(* The thread, the loop, the agent and the event streams go on by          *)
(* themselves; whether the container ever exits, and what the user and the *)
(* operator do, is up to them.  The loop runs its callbacks in the order   *)
(* in which they got ready, so that the agent, which comes back to its     *)
(* await again and again, cannot keep the next job from being submitted.   *)
(* No fault has to happen: a thread which waits for docker may wait for    *)
(* ever.                                                                   *)
FairSpec == /\ Spec
            /\ WF_vars(ThreadStep /\ faults' = faults) /\ SF_vars(Submit)
            /\ WF_vars(AgentStep) /\ WF_vars(BuilderStep) /\ WF_vars(LoopStops)
            /\ WF_vars(EventStep)

-----------------------------------------------------------------------------

(* The types of the variables; the lock is held by the thread only.        *)
TypeOK ==
    /\ thread \in Between \cup InDocker \cup Ended
    /\ lock \in {"free", "thread"}
    /\ cancelled \in BOOLEAN
    /\ stream \in {"none", "open", "closed"}
    /\ queue \in Seq(1..MaxLines) /\ got \in 0..MaxLines
    /\ output \in BOOLEAN
    /\ container \in {"none", "created", "running", "exited", "removed"}
    /\ printed \in 0..MaxLines
    /\ pc \in Pc /\ why \in Why /\ loopRuns \in BOOLEAN
    /\ batch \in Seq(1..Message)
    /\ counter \in Nat \ {0}
    /\ stored \in Seq([number : Nat, content : 1..Message])
    /\ outcome \in {"none", "success", "error", "stopped", "new"}
    /\ buildId \in {"set", "none"}
    /\ stopping \in BOOLEAN
    /\ announce \in SUBSET Nat /\ feed \in SUBSET Nat
    /\ joined \in Nat /\ shown \in SUBSET Nat
    /\ shownStatus \in {"none", "success", "error", "stopped", "new"}
    /\ faults \in 0..MaxFaults

(* The log in the database shows the lines in the order in which the       *)
(* container printed them, none twice, whatever fails; and when a build    *)
(* ends by itself and nothing failed, it holds all of them, and the reason *)
(* of a failure after them.                                                *)
LogFaithful ==
    /\ \A i, j \in DOMAIN stored : i < j =>
            /\ stored[i].number < stored[j].number
            /\ stored[i].content < stored[j].content
    /\ (outcome \in {"success", "error"} /\ faults = 0) =>
            {stored[i].content : i \in DOMAIN stored} =
                1..printed \cup (IF outcome = "error" THEN {Message} ELSE {})

(* Once a build is cancelled its container is not started any more: the    *)
(* lock makes the test of the flag and the start one step for cancel().    *)
NoStartAfterCancel ==
    [][container' = "running" /\ container # "running" => ~cancelled]_vars

(* A build which ended leaves no container behind when docker does what it *)
(* is told.  A build which was stopped may leave one, created after        *)
(* __exit__ by a thread nobody waits for, but never a running one.         *)
LeftClean ==
    pc = "left" /\ faults = 0 =>
        /\ why = "ended" => container \in {"none", "removed"}
        /\ why = "stop" => container \in {"none", "created", "removed"}

(* What is left of a stop when two calls fail, the stream or close() and   *)
(* then the stop of the container or the record of the stop: a thread that *)
(* waits for a container nobody stops.                                     *)
Stuck == /\ faults > 1
         /\ container = "running" /\ thread \in {"stream", "wait"}

(* A user who stops a build gets the agent free, and a cancelled build the *)
(* executor thread, even if the container never exits by itself and one    *)
(* call of docker or the database fails.                                   *)
StopReleases ==
    /\ stopping ~> (pc = "left" \/ []Stuck)
    /\ cancelled ~> ([](thread \in Between \cup Ended) \/ []Stuck)

(* When nothing fails a browser is sent every line which is stored after   *)
(* it subscribed, and in the end it shows the outcome of the build.        *)
FeedComplete ==
    (pc = "left" /\ joined # NotJoined) ~>
        \/ faults > 0
        \/ /\ \A row \in 1..Len(stored) : row > joined => row \in shown
           /\ joined < Len(stored) => shownStatus = outcome

=============================================================================
