------------------------ MODULE BuildExecutionProofs ------------------------
(***************************************************************************)
(* Proofs of the safety properties of BuildExecution, for any number of    *)
(* lines and of faults.                                                    *)
(***************************************************************************)
EXTENDS BuildExecution, TLAPS

(* A sequence of some length has a first element, and its tail is shorter. *)
LEMMA NonEmpty ==
    ASSUME NEW S, NEW s \in Seq(S), s # <<>>
    PROVE  Head(s) \in S /\ Tail(s) \in Seq(S)
  OBVIOUS

(* A sequence of one element. *)
LEMMA Single == ASSUME NEW S, NEW x \in S PROVE <<x>> \in Seq(S)
  OBVIOUS

(* The lock and the flag: the thread has the lock while it starts the      *)
(* container and opens its logs, and it does not start a cancelled build.  *)
Locked ==
    /\ lock = "thread" <=> thread \in {"start", "logs"}
    /\ thread = "start" => ~cancelled

(* The result of the task is looked at, and the end of the build recorded, *)
(* only when the task has ended.                                           *)
Late ==
    /\ pc \in {"storeLast", "success", "message", "failure", "recordError",
               "recordSuccess"} => thread \in Ended
    /\ why = "ended" => thread \in Ended

IInv == TypeOK /\ Locked /\ Late

(* What the thread does. *)
LEMMA ThreadSound == IInv /\ ThreadStep => IInv'
<1> SUFFICES ASSUME IInv, ThreadStep PROVE IInv'
  OBVIOUS
<1> USE MaxLinesAssumption, MaxFaultsAssumption DEF IInv
<1>1. /\ UNCHANGED <<cancelled, printed, agentVars, loopRuns, stopping, feedVars>>
      /\ thread \notin Ended
  BY DEF ThreadStep, Ended, At, PullImage, CreateBuildFiles, CreateContainer,
         PutArchive, EnterRunBuild, StartContainer, OpenLogs, StreamLine,
         StreamEnds, CloseLogs, WaitForExit, FetchOutput
<1>2. Late'
  BY <1>1 DEF Late, agentVars
<1>3. faults' \in 0..MaxFaults
  BY DEF TypeOK, ThreadStep, Fault, DockerCall, PullImage, CreateBuildFiles,
         CreateContainer, PutArchive, EnterRunBuild, StartContainer, OpenLogs,
         StreamLine, StreamEnds, CloseLogs, WaitForExit, FetchOutput
<1>4. output' \in BOOLEAN
  BY DEF TypeOK, ThreadStep, PullImage, CreateBuildFiles, CreateContainer,
         PutArchive, EnterRunBuild, StartContainer, OpenLogs, StreamLine,
         StreamEnds, CloseLogs, WaitForExit, FetchOutput
<1>5. queue' \in Seq(1..MaxLines) /\ got' \in 0..MaxLines
  <2>1. CASE StreamLine
    <3>1. got' = got + 1 /\ queue' = Append(queue, got + 1) /\ got < printed
      BY <2>1 DEF StreamLine
    <3>2. got + 1 \in 1..MaxLines
      BY <3>1 DEF TypeOK
    <3>3. QED
      BY <3>1, <3>2 DEF TypeOK
  <2>2. CASE UNCHANGED <<queue, got>>
    BY <2>2 DEF TypeOK
  <2>3. QED
    BY <2>1, <2>2 DEF ThreadStep, PullImage, CreateBuildFiles,
       CreateContainer, PutArchive, EnterRunBuild, StartContainer, OpenLogs,
       StreamEnds, CloseLogs, WaitForExit, FetchOutput
<1>6. /\ thread' \in Between \cup InDocker \cup Ended
      /\ lock' \in {"free", "thread"} /\ Locked'
      /\ stream' \in {"none", "open", "closed"}
      /\ container' \in {"none", "created", "running", "exited", "removed"}
  <2> USE DEF TypeOK, Locked, Between, InDocker, Ended, At, ThreadGoes
  <2>1. CASE PullImage
    BY <1>1, <2>1 DEF PullImage, DockerCall
  <2>2. CASE CreateBuildFiles
    BY <1>1, <2>2 DEF CreateBuildFiles
  <2>3. CASE CreateContainer
    BY <1>1, <2>3 DEF CreateContainer, DockerCall
  <2>4. CASE PutArchive
    BY <1>1, <2>4 DEF PutArchive, DockerCall
  <2>5. CASE EnterRunBuild
    BY <1>1, <2>5 DEF EnterRunBuild
  <2>6. CASE StartContainer
    BY <1>1, <2>6 DEF StartContainer, DockerCall
  <2>7. CASE OpenLogs
    BY <1>1, <2>7 DEF OpenLogs, DockerCall
  <2>8. CASE StreamLine
    BY <1>1, <2>8 DEF StreamLine
  <2>9. CASE StreamEnds
    BY <1>1, <2>9 DEF StreamEnds
  <2>10. CASE CloseLogs
    BY <1>1, <2>10 DEF CloseLogs
  <2>11. CASE WaitForExit
    BY <1>1, <2>11 DEF WaitForExit
  <2>12. CASE FetchOutput
    BY <1>1, <2>12 DEF FetchOutput
  <2>13. QED
    BY <2>1, <2>2, <2>3, <2>4, <2>5, <2>6, <2>7, <2>8, <2>9, <2>10, <2>11,
       <2>12 DEF ThreadStep
<1>7. /\ cancelled' \in BOOLEAN /\ loopRuns' \in BOOLEAN /\ stopping' \in BOOLEAN
  BY <1>1 DEF TypeOK
<1>8. TypeOK'
  BY <1>1, <1>3, <1>4, <1>5, <1>6, <1>7 DEF TypeOK, agentVars, feedVars
<1>9. QED
  BY <1>2, <1>6, <1>8

(* Where a batch is done with: the agent goes on. *)
LEMMA DoneSound ==
    ASSUME IInv, DoneStoring, pc \in {"store", "storeLast", "message"},
           UNCHANGED thread
    PROVE  /\ pc' \in Pc /\ why' \in Why
           /\ batch' \in Seq(1..Message) /\ Late'
<1> USE DEF IInv
<1>1. pc' = AfterStoring
  BY DEF DoneStoring, Goto
<1>2. pc = "storeLast" => thread \in Ended
  BY DEF Late
<1>3. pc' \in {"check", "failure", "success", "message", "leave"}
      /\ (pc' # "check" /\ pc' # "leave" => pc \in {"storeLast", "message"})
  BY <1>1, <1>2 DEF AfterStoring, Ended
<1>4. /\ why' \in Why /\ (why' = "ended" => why = "ended")
  BY DEF DoneStoring, TypeOK, Why
<1>5. batch' \in Seq(1..Message)
  <2>1. Message \in 1..Message
    BY MaxLinesAssumption DEF Message
  <2>2. <<Message>> \in Seq(1..Message) /\ <<>> \in Seq(1..Message)
    BY <2>1, Single
  <2>3. QED
    BY <2>2 DEF DoneStoring
<1>6. QED
  BY <1>3, <1>4, <1>5 DEF Late, Pc

(* What the coroutine of the agent does. *)
LEMMA AgentSound == IInv /\ AgentStep => IInv'
<1> SUFFICES ASSUME IInv, AgentStep PROVE IInv'
  OBVIOUS
<1> USE MaxLinesAssumption, MaxFaultsAssumption DEF IInv
<1>1. UNCHANGED <<thread, stream, got, output, lock, cancelled, dockerVars,
                  loopRuns, stopping, feed, joined, shown, shownStatus>>
  BY DEF AgentStep
<1>2. Locked'
  BY <1>1 DEF Locked
<1>3. /\ cancelled' \in BOOLEAN /\ loopRuns' \in BOOLEAN /\ stopping' \in BOOLEAN
      /\ output' \in BOOLEAN
  BY <1>1 DEF TypeOK
<1>4. faults' \in 0..MaxFaults
  BY DEF TypeOK, AgentStep, Fault, CollectLines, StoreLine, StoredAll,
         CheckStopping, RecordStop, ProcessOutput, RecordEnd, RecordNew,
         Record, Commit
<1> DEFINE Moved ==
    /\ pc' \in Pc /\ why' \in Why
    /\ queue' \in Seq(1..MaxLines) /\ batch' \in Seq(1..Message)
    /\ counter' \in Nat \ {0}
    /\ stored' \in Seq([number : Nat, content : 1..Message])
    /\ outcome' \in {"none", "success", "error", "stopped", "new"}
    /\ buildId' \in {"set", "none"}
    /\ announce' \in SUBSET Nat
    /\ Late'
<1>5. DoneStoring /\ pc \in {"store", "storeLast", "message"} =>
          /\ pc' \in Pc /\ why' \in Why /\ batch' \in Seq(1..Message)
          /\ Late'
  BY <1>1, DoneSound
<1> DEFINE GivenUp == GiveUpStoring => pc' \in Pc /\ why' \in Why /\ Late'
                                      /\ batch' = <<>> /\ batch' \in Seq(1..Message)
<1>5a. GivenUp
  BY <1>1 DEF GiveUpStoring, LeaveBlock, Goto, Pc, Why, Late
<1>6. CASE CollectLines
  <2>1. queue \in Seq(1..Message)
    BY DEF TypeOK, Message
  <2>2. Moved
    BY <1>1, <1>6, <2>1 DEF CollectLines, TypeOK, Late, Goto, Pc
  <2>3. QED
    BY <1>1, <1>2, <1>3, <1>4, <2>2 DEF TypeOK, dockerVars
<1>7. CASE StoreLine
  <2>1. batch # <<>> => /\ Head(batch) \in 1..Message
                        /\ Tail(batch) \in Seq(1..Message)
    BY NonEmpty DEF TypeOK
  <2>2. [number |-> counter, content |-> Head(batch)]
            \in [number : Nat, content : 1..Message]
    BY <1>7, <2>1 DEF StoreLine, TypeOK
  <2>3. Append(stored, [number |-> counter, content |-> Head(batch)])
            \in Seq([number : Nat, content : 1..Message])
    BY <2>2 DEF TypeOK
  <2>4. stored' \in Seq([number : Nat, content : 1..Message])
    BY <1>7, <2>3 DEF StoreLine, TypeOK
  <2>5. Len(stored) + 1 \in Nat
    BY DEF TypeOK
  <2>6. announce' \in SUBSET Nat
    BY <1>7, <2>5 DEF StoreLine, TypeOK
  <2>7. <<>> \in Seq(1..Message)
    OBVIOUS
  <2>8. /\ pc' \in Pc /\ why' \in Why /\ batch' \in Seq(1..Message) /\ Late'
    BY <1>1, <1>5, <1>5a, <1>7, <2>1, <2>7 DEF StoreLine, TypeOK, Late
  <2>9. Moved
    BY <1>7, <2>4, <2>6, <2>8 DEF StoreLine, TypeOK
  <2>10. QED
    BY <1>1, <1>2, <1>3, <1>4, <2>9 DEF TypeOK, dockerVars
<1>8. CASE StoredAll
  <2>1. Moved
    BY <1>5, <1>5a, <1>8 DEF StoredAll, TypeOK
  <2>2. QED
    BY <1>1, <1>2, <1>3, <1>4, <2>1 DEF TypeOK, dockerVars
<1>9. CASE CheckStopping \/ RecordStop \/ ProcessOutput \/ RecordEnd \/ RecordNew
  <2>1. UNCHANGED <<queue, batch, counter, stored>>
    BY <1>9 DEF CheckStopping, RecordStop, ProcessOutput, RecordEnd, RecordNew
  <2>2. pc' \in Pc /\ why' \in Why /\ Late'
    BY <1>1, <1>9 DEF CheckStopping, RecordStop, ProcessOutput, RecordEnd,
       RecordNew, Goto, LeaveBlock, TypeOK, Late, Pc, Why
  <2>3. /\ outcome' \in {"none", "success", "error", "stopped", "new"}
        /\ announce' \in SUBSET Nat
    <3>1. /\ outcome \in {"none", "success", "error", "stopped", "new"}
          /\ announce \in SUBSET Nat /\ {BuildRow} \in SUBSET Nat
      BY DEF TypeOK, BuildRow
    <3>2. \/ UNCHANGED <<outcome, announce>>
          \/ Commit("stopped") \/ Commit("success") \/ Commit("error")
          \/ Commit("new")
      BY <1>9 DEF CheckStopping, RecordStop, ProcessOutput, RecordEnd,
         RecordNew, Record
    <3>3. QED
      BY <3>1, <3>2 DEF Commit
  <2>3a. buildId' \in {"set", "none"}
    BY <1>9 DEF CheckStopping, RecordStop, ProcessOutput, RecordEnd,
       RecordNew, TypeOK
  <2>4. Moved
    BY <2>1, <2>2, <2>3, <2>3a DEF TypeOK
  <2>5. QED
    BY <1>1, <1>2, <1>3, <1>4, <2>4 DEF TypeOK, dockerVars
<1>10. QED
  BY <1>6, <1>7, <1>8, <1>9 DEF AgentStep

(* Every step of the agent, the container and the user keeps it. *)
LEMMA StepSound == IInv /\ [Next]_vars => IInv'
<1> SUFFICES ASSUME IInv, [Next]_vars PROVE IInv'
  OBVIOUS
<1> USE MaxLinesAssumption, MaxFaultsAssumption DEF IInv
<1>1. CASE Submit
  <2>1. /\ thread \in Between /\ thread' \in {"files", "create", "run"}
        /\ UNCHANGED <<stream, queue, got, output, lock, cancelled, dockerVars,
                       agentVars, loopRuns, stopping, feedVars, faults>>
    BY <1>1 DEF Submit, Between, ThreadGoes
  <2>2. cancelled' \in BOOLEAN /\ loopRuns' \in BOOLEAN /\ stopping' \in BOOLEAN
        /\ output' \in BOOLEAN
    BY <2>1 DEF TypeOK
  <2>3. QED
    BY <2>1, <2>2 DEF TypeOK, Locked, Late, Between, InDocker, Ended,
       dockerVars, agentVars, feedVars
<1>2. CASE ContainerStep
  <2>1. /\ container' \in {"running", "exited"} /\ printed' \in 0..MaxLines
        /\ UNCHANGED <<threadVars, lock, cancelled, agentVars, loopRuns,
                       stopping, feedVars, faults>>
    BY <1>2 DEF ContainerStep, ContainerPrints, ContainerExits, TypeOK
  <2>2. cancelled' \in BOOLEAN /\ loopRuns' \in BOOLEAN /\ stopping' \in BOOLEAN
        /\ output' \in BOOLEAN
    BY <2>1 DEF TypeOK, threadVars
  <2>3. QED
    BY <2>1, <2>2 DEF TypeOK, Locked, Late, threadVars, agentVars, feedVars
<1>3. CASE BuilderStep \/ ShutdownStep
  <2>1. UNCHANGED <<thread, queue, got, output, lock, printed, batch, counter,
                    stored, outcome, buildId, loopRuns, stopping, feedVars>>
    BY <1>3 DEF BuilderStep, ShutdownStep
  <2>2. /\ loopRuns' \in BOOLEAN /\ stopping' \in BOOLEAN /\ output' \in BOOLEAN
    BY <2>1 DEF TypeOK
  <2>3. cancelled' \in BOOLEAN
    BY <1>3 DEF BuilderStep, ShutdownStep, TypeOK, Cancel, ExitStop,
       ExitRemove, Shutdown
  <2>4. faults' \in 0..MaxFaults
    BY <1>3 DEF BuilderStep, ShutdownStep, TypeOK, Cancel, ExitStop,
       ExitRemove, Shutdown, Fault
  <2>5. /\ pc' \in Pc /\ why' \in Why
        /\ pc' \in {"recordStop", "left", "record", "remove", "leave"}
        /\ why' = why \/ why' \in {"error", "shutdown"}
    BY <1>3 DEF BuilderStep, ShutdownStep, TypeOK, Cancel, ExitStop,
       ExitRemove, ExitRaises, AfterExit, Shutdown, LeaveBlock, Goto, Pc, Why
  <2>6. /\ stream' \in {"none", "open", "closed"}
        /\ container' \in {"none", "created", "running", "exited", "removed"}
    BY <1>3 DEF BuilderStep, ShutdownStep, TypeOK, Cancel, ExitStop,
       ExitRemove, Shutdown
  <2>7. cancelled' = cancelled \/ lock = "free"
    BY <1>3 DEF BuilderStep, ShutdownStep, Cancel, ExitStop, ExitRemove,
       Shutdown
  <2>8. Locked'
    BY <2>1, <2>7 DEF Locked
  <2>9. Late'
    BY <2>1, <2>5 DEF Late
  <2>10. QED
    BY <2>1, <2>2, <2>3, <2>4, <2>5, <2>6, <2>8, <2>9 DEF TypeOK, feedVars
<1>4. CASE LoopStops
  <2>1. loopRuns' \in BOOLEAN
    BY <1>4 DEF LoopStops
  <2>2. UNCHANGED <<threadVars, lock, cancelled, dockerVars, agentVars,
                    stopping, feedVars, faults>>
    BY <1>4 DEF LoopStops
  <2>3. cancelled' \in BOOLEAN /\ stopping' \in BOOLEAN /\ output' \in BOOLEAN
    BY <2>2 DEF TypeOK, threadVars
  <2>4. QED
    BY <2>1, <2>2, <2>3 DEF TypeOK, Locked, Late, threadVars, dockerVars,
       agentVars, feedVars
<1>5. CASE EventStep \/ BrowserJoins
  <2>1. UNCHANGED <<threadVars, lock, cancelled, dockerVars, agentVars,
                    loopRuns, stopping>>
    BY <1>5 DEF EventStep, BrowserJoins
  <2>2. /\ cancelled' \in BOOLEAN /\ loopRuns' \in BOOLEAN
        /\ stopping' \in BOOLEAN /\ output' \in BOOLEAN
    BY <2>1 DEF TypeOK, threadVars
  <2>3. faults' \in 0..MaxFaults
    BY <1>5 DEF EventStep, BrowserJoins, Publish, Deliver, Join, Fault, TypeOK
  <2>4. Len(stored) \in Nat
    BY DEF TypeOK
  <2>5. /\ announce' \in SUBSET Nat /\ feed' \in SUBSET Nat
        /\ joined' \in Nat /\ shown' \in SUBSET Nat
        /\ shownStatus' \in {"none", "success", "error", "stopped", "new"}
    BY <1>5, <2>4 DEF EventStep, BrowserJoins, Publish, Deliver, Join, TypeOK
  <2>6. QED
    BY <2>1, <2>2, <2>3, <2>5 DEF TypeOK, Locked, Late, threadVars,
       dockerVars, agentVars
<1>5a. CASE PublishStep
  <2>1. UNCHANGED <<threadVars, lock, cancelled, dockerVars, loopRuns,
                    stopping, counter, stored, outcome, joined, shown,
                    shownStatus>>
    BY <1>5a DEF PublishStep, PublishRaises
  <2>2. /\ cancelled' \in BOOLEAN /\ loopRuns' \in BOOLEAN
        /\ stopping' \in BOOLEAN /\ output' \in BOOLEAN
    BY <2>1 DEF TypeOK, threadVars
  <2>3. /\ faults' \in 0..MaxFaults /\ buildId' \in {"set", "none"}
        /\ announce' \in SUBSET Nat /\ feed' \in SUBSET Nat
    BY <1>5a DEF PublishStep, PublishRaises, Fault, TypeOK
  <2>4. /\ pc' \in Pc /\ why' \in Why /\ batch' \in Seq(1..Message) /\ Late'
    <3>1. CASE pc \in {"store", "storeLast", "message"} /\ DoneStoring
      BY <2>1, <3>1, DoneSound DEF threadVars
    <3>2. CASE GiveUpStoring
      <4>1. <<>> \in Seq(1..Message)
        OBVIOUS
      <4>2. QED
        BY <2>1, <3>2, <4>1
        DEF GiveUpStoring, LeaveBlock, Goto, Pc, Why, Late, threadVars
    <3>3. CASE UNCHANGED batch /\ \/ LeaveBlock("error")
                                  \/ Goto("wait") /\ why' = "none"
      BY <2>1, <3>3 DEF LeaveBlock, Goto, Pc, Why, Late, threadVars, TypeOK
    <3>4. QED
      BY <1>5a, <3>1, <3>2, <3>3 DEF PublishStep, PublishRaises
  <2>5. QED
    BY <2>1, <2>2, <2>3, <2>4 DEF TypeOK, Locked, Late, threadVars, dockerVars
<1>6. CASE UserStops
  <2>1. stopping' \in BOOLEAN
    BY <1>6 DEF UserStops
  <2>2. UNCHANGED <<threadVars, lock, cancelled, dockerVars, agentVars,
                    loopRuns, feedVars, faults>>
    BY <1>6 DEF UserStops
  <2>3. cancelled' \in BOOLEAN /\ loopRuns' \in BOOLEAN /\ output' \in BOOLEAN
    BY <2>2 DEF TypeOK, threadVars
  <2>4. QED
    BY <2>1, <2>2, <2>3 DEF TypeOK, Locked, Late, threadVars, dockerVars,
       agentVars, feedVars
<1>7. CASE UNCHANGED vars
  <2>1. cancelled' \in BOOLEAN /\ loopRuns' \in BOOLEAN /\ output' \in BOOLEAN
        /\ stopping' \in BOOLEAN
    BY <1>7 DEF TypeOK, vars, threadVars
  <2>2. QED
    BY <1>7, <2>1 DEF vars, TypeOK, Locked, Late, threadVars, dockerVars,
       agentVars, feedVars
<1>8. QED
  BY ThreadSound, AgentSound, <1>1, <1>2, <1>3, <1>4, <1>5, <1>5a, <1>6, <1>7
  DEF Next

(* It holds at first. *)
LEMMA InitSound == Init => IInv
<1> SUFFICES ASSUME Init PROVE IInv
  OBVIOUS
<1>1. cancelled \in BOOLEAN /\ loopRuns \in BOOLEAN /\ output \in BOOLEAN
      /\ stopping \in BOOLEAN
  BY DEF Init
<1>2. Locked /\ Late
  BY DEF Init, Locked, Late
<1>3. QED
  BY <1>1, <1>2, MaxLinesAssumption, MaxFaultsAssumption
  DEF Init, IInv, TypeOK, InDocker, Pc, Why, NotJoined

(* Type correctness, for any number of lines and faults.                   *)
THEOREM TypeCorrect == Spec => []TypeOK
<1>1. IInv => TypeOK
  BY DEF IInv
<1>2. QED
  BY <1>1, InitSound, StepSound, PTL DEF Spec

-----------------------------------------------------------------------------
(* The container. *)

(* Only the thread changes the container so that it runs or exists, and    *)
(* only with a task which has not ended.                                   *)
LEMMA ContainerChanges ==
    ASSUME IInv, Next
    PROVE  \/ container' = container
           \/ thread \notin Ended /\ container' = "created" /\ ThreadStep
           \/ ~cancelled /\ container' = "running" /\ ThreadStep
                          /\ thread \notin Ended
           \/ container = "running" /\ container' = "exited"
           \/ container # "running" /\ container' = "removed" /\ ExitRemove
<1> USE DEF IInv, Locked
<1>1. CASE ThreadStep
  BY <1>1 DEF ThreadStep, At, Ended, PullImage, CreateBuildFiles,
     CreateContainer, PutArchive, EnterRunBuild, StartContainer, OpenLogs,
     StreamLine, StreamEnds, CloseLogs, WaitForExit, FetchOutput
<1>2. CASE \/ Submit \/ AgentStep \/ LoopStops \/ EventStep \/ PublishStep
           \/ BrowserJoins \/ UserStops
  BY <1>2 DEF Submit, AgentStep, LoopStops, EventStep, PublishStep,
     BrowserJoins, UserStops, dockerVars
<1>3. CASE ContainerStep
  BY <1>3 DEF ContainerStep, ContainerPrints, ContainerExits
<1>4. CASE BuilderStep
  BY <1>4 DEF BuilderStep, Cancel, ExitStop, ExitRemove
<1>5. CASE ShutdownStep
  BY <1>5 DEF ShutdownStep, Shutdown
<1>6. QED
  BY <1>1, <1>2, <1>3, <1>4, <1>5 DEF Next

(* A build which was cancelled is not started: whoever has the lock when   *)
(* the flag is set has either started the container already or will see    *)
(* the flag.                                                               *)
THEOREM NotStarted == Spec => NoStartAfterCancel
<1>1. IInv /\ [Next]_vars =>
          [container' = "running" /\ container # "running" => ~cancelled]_vars
  BY ContainerChanges
<1>2. QED
  BY <1>1, InitSound, StepSound, PTL DEF Spec, NoStartAfterCancel

(* Faults are counted. *)
LEMMA FaultsCount == ASSUME IInv, [Next]_vars
                     PROVE  /\ faults \in Nat
                            /\ faults' = faults \/ faults' = faults + 1
<1> DEFINE Counted == faults' = faults \/ faults' = faults + 1
<1>1. faults \in Nat
  BY MaxFaultsAssumption DEF IInv, TypeOK
<1>2. ThreadStep => Counted
  BY DEF ThreadStep, Fault, DockerCall, PullImage, CreateBuildFiles,
     CreateContainer, PutArchive, EnterRunBuild, StartContainer, OpenLogs,
     StreamLine, StreamEnds, CloseLogs, WaitForExit, FetchOutput
<1>3. AgentStep => Counted
  BY DEF AgentStep, Fault, CollectLines, StoreLine, StoredAll, CheckStopping,
     RecordStop, ProcessOutput, RecordEnd, RecordNew, Record
<1>4. BuilderStep \/ ShutdownStep \/ PublishStep \/ EventStep => Counted
  BY DEF BuilderStep, ShutdownStep, PublishStep, EventStep, Fault, Cancel,
     ExitStop, ExitRemove, Shutdown, PublishRaises, Publish, Deliver
<1>5. Submit \/ ContainerStep \/ LoopStops \/ BrowserJoins \/ UserStops => Counted
  BY DEF Submit, ContainerStep, LoopStops, BrowserJoins, Join, UserStops
<1>6. UNCHANGED vars => Counted
  BY DEF vars
<1>7. Counted
  BY <1>2, <1>3, <1>4, <1>5, <1>6 DEF Next
<1>8. QED
  BY <1>1, <1>7

(* Faults are never forgotten. *)
LEMMA FaultsGrow == ASSUME IInv, Next, faults' = 0 PROVE faults = 0
  BY FaultsCount

(* On the way out of the block, as long as nothing has failed: a stopped   *)
(* build is cancelled, so that a container which __exit__ has stopped does *)
(* not run again before it is removed.                                     *)
Clean == faults = 0 =>
    /\ pc = "recordStop" \/ why = "stop" => cancelled
    /\ pc = "remove" /\ why \in {"ended", "stop"} => container # "running"
    /\ pc = "record" => why \notin {"ended", "stop"}
    /\ LeftClean

(* Every step keeps what is known about what is left in Docker. *)
LEMMA CleanStep == IInv /\ Clean /\ [Next]_vars => Clean'
<1> SUFFICES ASSUME IInv, Clean, [Next]_vars PROVE Clean'
  OBVIOUS
<1> USE MaxFaultsAssumption DEF Clean, LeftClean
<1>1. SUFFICES ASSUME faults' = 0, Next PROVE Clean'
  BY DEF vars, threadVars, dockerVars, agentVars
<1>2. faults = 0
  BY <1>1, FaultsGrow
<1>3. CASE UNCHANGED <<pc, why, cancelled>>
  <2>1. why = "ended" => thread \in Ended
    BY DEF IInv, Late
  <2>2. ~ExitRemove \/ pc # pc'
    BY <1>2, <1>1 DEF ExitRemove, Goto, AfterExit, Fault
  <2>3. QED
    BY <1>1, <1>2, <1>3, <2>1, <2>2, ContainerChanges
<1>4. CASE AgentStep
  <2>1. cancelled' = cancelled /\ container' = container
    BY <1>4 DEF AgentStep, dockerVars
  <2>2. /\ pc' = "recordStop" => pc = "recordStop"
        /\ pc' # "remove"
        /\ pc' # "record"
        /\ pc' = "left" => pc' = pc \/ why \notin {"ended", "stop"}
        /\ why' = "stop" => why = "stop" \/ pc = "recordStop"
        /\ pc' = "left" => why' = why
    BY <1>1, <1>2, <1>4
    DEF AgentStep, CollectLines, StoreLine, StoredAll, CheckStopping,
        RecordStop, ProcessOutput, RecordEnd, RecordNew, DoneStoring,
        AfterStoring, LeaveBlock, Goto, Fault, IInv, Late, Ended
  <2>3. QED
    BY <1>2, <2>1, <2>2
<1>5. CASE Cancel
  BY <1>1, <1>2, <1>5 DEF Cancel, Goto, Fault
<1>6. CASE ExitStop
  <2>1. /\ pc = "leave" /\ why' = why /\ cancelled' = cancelled
        /\ container' # "running"
        /\ container = "none" => container' = "none" /\ pc' = AfterExit
        /\ container # "none" => pc' = "remove"
    BY <1>1, <1>2, <1>6 DEF ExitStop, Goto, Fault
  <2>2. QED
    BY <1>2, <2>1 DEF AfterExit
<1>7. CASE ExitRemove
  <2>1. /\ pc = "remove" /\ pc' = AfterExit /\ why' = why
        /\ cancelled' = cancelled
        /\ container # "running" => container' = "removed"
    BY <1>1, <1>2, <1>7 DEF ExitRemove, Goto, Fault
  <2>2. QED
    BY <1>2, <2>1 DEF AfterExit
<1>8. CASE Shutdown
  BY <1>2, <1>8 DEF Shutdown, LeaveBlock, Goto
<1>9. CASE PublishStep
  BY <1>1, <1>2, <1>9 DEF PublishStep, PublishRaises, Fault
<1>10. QED
  BY <1>1, <1>3, <1>4, <1>5, <1>6, <1>7, <1>8, <1>9
  DEF Next, ThreadStep, Submit, ContainerStep, BuilderStep, ShutdownStep,
      LoopStops, EventStep, BrowserJoins, UserStops, agentVars

(* A build which ended leaves no container, and one which was stopped no   *)
(* container that was ever started, as long as docker does what it is told:*)
(* although nobody waits for the thread of a stopped build.                *)
THEOREM NothingLeftRunning == Spec => []LeftClean
<1>1. Init => Clean
  BY DEF Init, Clean, LeftClean
<1>2. Clean => LeftClean
  BY DEF Clean, LeftClean
<1>3. QED
  BY <1>1, <1>2, InitSound, StepSound, CleanStep, PTL DEF Spec

-----------------------------------------------------------------------------
(* The log. *)

(* What a sequence holds after Append. *)
LEMMA AppendHolds ==
    ASSUME NEW S, NEW s \in Seq(S), NEW e \in S
    PROVE  /\ Append(s, e) \in Seq(S)
           /\ DOMAIN s = 1..Len(s) /\ Len(s) \in Nat
           /\ DOMAIN Append(s, e) = 1..(Len(s) + 1)
           /\ \A i \in 1..Len(s) : Append(s, e)[i] = s[i]
           /\ Append(s, e)[Len(s) + 1] = e
  OBVIOUS

(* What a sequence holds after its head was taken. *)
LEMMA TailHolds ==
    ASSUME NEW S, NEW s \in Seq(S), s # <<>>
    PROVE  /\ Len(s) \in Nat /\ 1 \in DOMAIN s /\ Head(s) = s[1]
           /\ DOMAIN s = 1..Len(s) /\ DOMAIN Tail(s) = 1..(Len(s) - 1)
           /\ \A i \in DOMAIN Tail(s) : i + 1 \in DOMAIN s /\ Tail(s)[i] = s[i + 1]
  OBVIOUS

(* The empty sequence and one of length one. *)
LEMMA ShortHolds ==
    /\ DOMAIN <<>> = {}
    /\ \A e : DOMAIN <<e>> = {1} /\ <<e>>[1] = e
  OBVIOUS

Rising(s) == \A i, j \in DOMAIN s : i < j => s[i] < s[j]

(* The agent after the result of the task is known, and after it has begun *)
(* to write down why the build failed: it may come back to the block from  *)
(* a stop whose record could not be published, but not from there.         *)
Concluding == {"storeLast", "success", "message", "failure", "recordError",
               "recordSuccess"}
Told == /\ \/ pc \in {"message", "failure", "recordError"}
           \/ pc \in {"leave", "remove", "record", "left"} /\ why # "stop"
        /\ thread \in Ended /\ queue = <<>>

(* A line moves from the stream to the queue, to the batch, to the table;  *)
(* what has gone further is older, and the reason of a failure comes last, *)
(* when no more lines can come.                                            *)
QueueOrdered ==
    /\ Rising(queue)
    /\ \A j \in DOMAIN queue : queue[j] <= got
BatchOrdered ==
    /\ Rising(batch)
    /\ \A i \in DOMAIN batch : /\ batch[i] <= got \/ (batch[i] = Message /\ pc = "message")
                               /\ \A j \in DOMAIN queue : batch[i] < queue[j]
TableOrdered ==
    /\ \A i, j \in DOMAIN stored : i < j =>
            /\ stored[i].number < stored[j].number
            /\ stored[i].content < stored[j].content
    /\ \A i \in DOMAIN stored :
            /\ stored[i].number < counter
            /\ stored[i].content <= got \/ (stored[i].content = Message /\ Told)
            /\ \A j \in DOMAIN batch : stored[i].content < batch[j]
            /\ \A j \in DOMAIN queue : stored[i].content < queue[j]
Drained == pc \in Concluding \/ why = "ended" => thread \in Ended /\ queue = <<>>

InOrder == QueueOrdered /\ BatchOrdered /\ TableOrdered /\ Drained

(* The numbers and contents that are compared are numbers.                 *)
LEMMA LinesTyped ==
    ASSUME TypeOK
    PROVE  /\ got \in Nat /\ got < Message /\ Message \in Nat /\ counter \in Nat
           /\ \A j \in DOMAIN queue : queue[j] \in 1..MaxLines
           /\ \A i \in DOMAIN batch : batch[i] \in 1..Message
           /\ \A i \in DOMAIN stored : /\ stored[i].number \in Nat
                                       /\ stored[i].content \in 1..Message
           /\ \A i \in DOMAIN queue : i \in Nat
           /\ \A i \in DOMAIN batch : i \in Nat
           /\ \A i \in DOMAIN stored : i \in Nat
<1> USE MaxLinesAssumption DEF TypeOK, Message
<1>1. \A s, S : s \in Seq(S) => \A i \in DOMAIN s : i \in Nat /\ s[i] \in S
  OBVIOUS
<1>2. \A i \in DOMAIN stored : stored[i] \in [number : Nat, content : 1..Message]
  BY <1>1
<1>3. /\ got \in Nat /\ got < Message /\ Message \in Nat /\ counter \in Nat
  OBVIOUS
<1>4. /\ queue \in Seq(1..MaxLines) /\ batch \in Seq(1..Message)
      /\ stored \in Seq([number : Nat, content : 1..Message])
  OBVIOUS
<1> HIDE DEF TypeOK, Message
<1>5. QED
  BY <1>1, <1>2, <1>3, <1>4

(* Steps which move no line and which do not go back behind the end of the *)
(* task or the reason of a failure.                                        *)
LEMMA OrderKept ==
    ASSUME InOrder, UNCHANGED <<queue, got, batch, counter, stored>>,
           thread \in Ended => thread' \in Ended,
           pc = "message" => pc' = "message",
           Told => \/ pc' \in {"message", "failure", "recordError"}
                   \/ /\ pc' \in {"leave", "remove", "record", "left"}
                      /\ why' # "stop",
           pc' \in Concluding => pc \in Concluding,
           why' = "ended" => why = "ended" \/ pc \in Concluding
    PROVE  InOrder'
<1>1. Told => Told'
  BY DEF Told
<1>2. QueueOrdered'
  BY DEF InOrder, QueueOrdered, Rising
<1>3. BatchOrdered'
  BY DEF InOrder, BatchOrdered, Rising
<1>4. TableOrdered'
  BY <1>1 DEF InOrder, TableOrdered
<1>5. Drained'
  BY DEF InOrder, Drained
<1>6. QED
  BY <1>2, <1>3, <1>4, <1>5 DEF InOrder

(* The thread takes one more line from the stream. *)
LEMMA OrderStreamLine == ASSUME IInv, InOrder, StreamLine,
                                UNCHANGED agentVars
                         PROVE  InOrder'
<1>1. /\ got' = got + 1 /\ queue' = Append(queue, got + 1) /\ thread' = thread
      /\ thread \notin Ended /\ got < printed
      /\ UNCHANGED <<pc, why, batch, counter, stored>>
  BY DEF StreamLine, agentVars, At, Ended
<1>2. /\ ~Told /\ pc \notin Concluding /\ pc # "message" /\ why # "ended"
  BY <1>1 DEF Told, InOrder, Drained, Concluding
<1>3. got + 1 \in 1..MaxLines
  BY <1>1, MaxLinesAssumption DEF IInv, TypeOK
<1>4. /\ DOMAIN queue = 1..Len(queue) /\ Len(queue) \in Nat
      /\ DOMAIN queue' = 1..(Len(queue) + 1)
      /\ \A i \in 1..Len(queue) : queue'[i] = queue[i]
      /\ queue'[Len(queue) + 1] = got + 1
  <2>1. queue \in Seq(1..MaxLines)
    BY DEF IInv, TypeOK
  <2>2. QED
    BY <1>1, <1>3, <2>1, AppendHolds
<1>5. /\ \A i \in DOMAIN batch : batch[i] <= got
      /\ \A i \in DOMAIN stored : stored[i].content <= got
      /\ \A j \in DOMAIN queue : queue[j] <= got
  BY <1>2 DEF InOrder, QueueOrdered, BatchOrdered, TableOrdered
<1> HIDE DEF Message
<1>6. QueueOrdered'
  <2>1. \A j \in DOMAIN queue' : queue'[j] <= got'
    BY <1>1, <1>4, <1>5, LinesTyped DEF IInv
  <2>2. Rising(queue')
    <3> SUFFICES ASSUME NEW i \in DOMAIN queue', NEW j \in DOMAIN queue', i < j
                 PROVE  queue'[i] < queue'[j]
      BY DEF Rising
    <3>1. i \in DOMAIN queue /\ queue'[i] = queue[i]
      BY <1>4
    <3>2. CASE j \in DOMAIN queue
      BY <1>4, <3>1, <3>2 DEF InOrder, QueueOrdered, Rising
    <3>3. CASE j \notin DOMAIN queue
      <4>1. queue'[j] = got + 1
        BY <1>4, <3>3
      <4>2. QED
        BY <1>5, <3>1, <4>1, LinesTyped DEF IInv
    <3>4. QED
      BY <3>2, <3>3
  <2>3. QED
    BY <2>1, <2>2 DEF QueueOrdered
<1>7. BatchOrdered'
  <2>1. \A i \in DOMAIN batch, j \in DOMAIN queue' : batch[i] < queue'[j]
    <3> SUFFICES ASSUME NEW i \in DOMAIN batch, NEW j \in DOMAIN queue'
                 PROVE  batch[i] < queue'[j]
      OBVIOUS
    <3>1. CASE j \in DOMAIN queue
      BY <1>4, <3>1 DEF InOrder, BatchOrdered
    <3>2. CASE j \notin DOMAIN queue
      <4>1. queue'[j] = got + 1
        BY <1>4, <3>2
      <4>2. QED
        BY <1>5, <4>1, LinesTyped DEF IInv
    <3>3. QED
      BY <3>1, <3>2
  <2>2. \A i \in DOMAIN batch : batch[i] <= got + 1
    BY <1>5, LinesTyped DEF IInv
  <2>3. Rising(batch)
    BY DEF InOrder, BatchOrdered
  <2>4. QED
    BY <1>1, <2>1, <2>2, <2>3 DEF BatchOrdered, Rising
<1>8. TableOrdered'
  <2>1. \A i \in DOMAIN stored, j \in DOMAIN queue' : stored[i].content < queue'[j]
    <3> SUFFICES ASSUME NEW i \in DOMAIN stored, NEW j \in DOMAIN queue'
                 PROVE  stored[i].content < queue'[j]
      OBVIOUS
    <3>1. CASE j \in DOMAIN queue
      BY <1>4, <3>1 DEF InOrder, TableOrdered
    <3>2. CASE j \notin DOMAIN queue
      <4>1. queue'[j] = got + 1
        BY <1>4, <3>2
      <4>2. QED
        BY <1>5, <4>1, LinesTyped DEF IInv
    <3>3. QED
      BY <3>1, <3>2
  <2>2. \A i \in DOMAIN stored : stored[i].content <= got + 1
    BY <1>5, LinesTyped DEF IInv
  <2>3. QED
    BY <1>1, <2>1, <2>2 DEF InOrder, TableOrdered
<1>9. Drained'
  BY <1>1, <1>2 DEF Drained
<1>10. QED
  BY <1>6, <1>7, <1>8, <1>9 DEF InOrder

(* The agent collects the queue. *)
LEMMA OrderCollect == ASSUME IInv, InOrder, CollectLines, UNCHANGED <<thread, got>>
                      PROVE  InOrder'
<1>1. /\ batch' = queue /\ queue' = <<>> /\ DOMAIN queue' = {}
      /\ UNCHANGED <<thread, got, counter, stored, why>>
      /\ pc = "wait"
      /\ pc' = IF thread \in Ended THEN "storeLast" ELSE "store"
  BY ShortHolds DEF CollectLines, Goto
<1>2. ~Told
  BY <1>1 DEF Told
<1>3. QueueOrdered'
  BY <1>1 DEF QueueOrdered, Rising
<1>4. BatchOrdered'
  BY <1>1 DEF InOrder, QueueOrdered, BatchOrdered, Rising
<1>5. TableOrdered'
  BY <1>1, <1>2 DEF InOrder, TableOrdered
<1>6. Drained'
  BY <1>1 DEF InOrder, Drained, Concluding
<1>7. QED
  BY <1>3, <1>4, <1>5, <1>6 DEF InOrder

(* The first line of the batch goes into the table. *)
LEMMA OrderStore ==
    ASSUME IInv, InOrder, batch # <<>>,
           pc \in {"store", "storeLast", "message"},
           counter' = counter + 1, batch' = Tail(batch),
           stored' = Append(stored, [number |-> counter, content |-> Head(batch)]),
           UNCHANGED <<thread, queue, got, pc, why>>
    PROVE  InOrder'
<1> DEFINE n == Len(stored)
           e == [number |-> counter, content |-> Head(batch)]
<1>1. /\ 1 \in DOMAIN batch /\ Head(batch) = batch[1]
      /\ \A i \in DOMAIN batch' : i + 1 \in DOMAIN batch /\ batch'[i] = batch[i + 1]
      /\ \A i \in DOMAIN batch' : i \in Nat /\ i # 0
  BY TailHolds DEF IInv, TypeOK
<1>2. /\ DOMAIN stored = 1..n /\ n \in Nat /\ DOMAIN stored' = 1..(n + 1)
      /\ \A i \in 1..n : stored'[i] = stored[i]
      /\ stored'[n + 1] = e
  <2>1. e \in [number : Nat, content : 1..Message]
    BY NonEmpty DEF IInv, TypeOK
  <2>2. stored \in Seq([number : Nat, content : 1..Message])
    BY DEF IInv, TypeOK
  <2>3. QED
    BY <2>1, <2>2, AppendHolds
<1>3. e.number = counter /\ e.content = batch[1]
  BY <1>1
<1>4. Told' = Told
  BY DEF Told
<1> HIDE DEF e, n
<1>5. QueueOrdered'
  BY DEF InOrder, QueueOrdered, Rising
<1>6. BatchOrdered'
  <2>1. \A i \in DOMAIN batch' :
            /\ batch'[i] <= got \/ (batch'[i] = Message /\ pc = "message")
            /\ \A j \in DOMAIN queue : batch'[i] < queue[j]
    BY <1>1 DEF InOrder, BatchOrdered
  <2>2. Rising(batch')
    <3> SUFFICES ASSUME NEW i \in DOMAIN batch', NEW j \in DOMAIN batch', i < j
                 PROVE  batch'[i] < batch'[j]
      BY DEF Rising
    <3>1. i + 1 < j + 1
      BY <1>1
    <3>2. QED
      BY <1>1, <3>1 DEF InOrder, BatchOrdered, Rising
  <2>3. QED
    BY <2>1, <2>2 DEF BatchOrdered
<1>7. \A i \in DOMAIN stored' :
          \/ i \in DOMAIN stored /\ stored'[i] = stored[i]
          \/ i = n + 1 /\ stored'[i] = e
  BY <1>2
<1>8. \A j \in DOMAIN batch' : batch[1] < batch'[j]
  <2> SUFFICES ASSUME NEW j \in DOMAIN batch' PROVE batch[1] < batch'[j]
    OBVIOUS
  <2>1. j + 1 \in DOMAIN batch /\ 1 < j + 1
    BY <1>1
  <2>2. QED
    BY <1>1, <2>1 DEF InOrder, BatchOrdered, Rising
<1>9. TableOrdered'
  <2>1. ASSUME NEW i \in DOMAIN stored', NEW j \in DOMAIN stored', i < j
        PROVE  /\ stored'[i].number < stored'[j].number
               /\ stored'[i].content < stored'[j].content
    <3>1. i \in DOMAIN stored /\ stored'[i] = stored[i]
      BY <1>2, <1>7, <2>1
    <3>2. CASE j \in DOMAIN stored /\ stored'[j] = stored[j]
      BY <2>1, <3>1, <3>2 DEF InOrder, TableOrdered
    <3>3. CASE j = n + 1 /\ stored'[j] = e
      BY <1>1, <1>3, <3>1, <3>3 DEF InOrder, TableOrdered
    <3>4. QED
      BY <1>7, <3>2, <3>3
  <2>2. ASSUME NEW i \in DOMAIN stored'
        PROVE  /\ stored'[i].number < counter'
               /\ stored'[i].content <= got \/ (stored'[i].content = Message /\ Told)
               /\ \A j \in DOMAIN batch' : stored'[i].content < batch'[j]
               /\ \A j \in DOMAIN queue : stored'[i].content < queue[j]
    <3>1. CASE i \in DOMAIN stored /\ stored'[i] = stored[i]
      <4>1. stored[i].number < counter /\ stored[i].number \in Nat /\ counter \in Nat
        BY <3>1, LinesTyped DEF InOrder, TableOrdered, IInv
      <4>2. stored[i].number < counter + 1
        BY <4>1
      <4>3. QED
        BY <1>1, <3>1, <4>2 DEF InOrder, TableOrdered
    <3>2. CASE i = n + 1 /\ stored'[i] = e
      <4>1. counter < counter + 1
        BY LinesTyped DEF IInv
      <4>2. batch[1] <= got \/ (batch[1] = Message /\ Told)
        <5>1. pc = "message" => Told
          BY DEF Told, InOrder, Drained, Concluding
        <5>2. QED
          BY <1>1, <5>1 DEF InOrder, BatchOrdered
      <4>3. \A j \in DOMAIN queue : batch[1] < queue[j]
        BY <1>1 DEF InOrder, BatchOrdered
      <4>4. QED
        BY <1>3, <1>8, <3>2, <4>1, <4>2, <4>3
    <3>3. QED
      BY <1>7, <3>1, <3>2
  <2>3. QED
    BY <1>4, <2>1, <2>2 DEF TableOrdered
<1>10. Drained'
  BY DEF InOrder, Drained
<1>11. QED
  BY <1>5, <1>6, <1>9, <1>10 DEF InOrder

(* The batch is stored or given up. *)
LEMMA OrderDone ==
    ASSUME IInv, InOrder, pc \in {"store", "storeLast", "message"},
           counter' \in {counter, counter + 1},
           DoneStoring \/ GiveUpStoring,
           UNCHANGED <<thread, queue, got, stored>>
    PROVE  InOrder'
<1>1. /\ why' = why \/ why' = "error"
      /\ pc' = "leave" => why' = "error"
      /\ pc' = AfterStoring \/ pc' = "leave"
      /\ batch' = <<>> \/ (pc' = "message" /\ batch' = <<Message>>)
  BY DEF DoneStoring, GiveUpStoring, LeaveBlock, Goto
<1>2. pc \in Concluding => thread \in Ended /\ queue = <<>>
  BY DEF InOrder, Drained
<1>3. /\ pc' \in {"check", "success", "message", "failure", "leave"}
      /\ pc' \in Concluding => pc \in Concluding
      /\ pc = "message" => pc' \in {"failure", "leave"}
      /\ pc' = "message" => pc = "storeLast"
  BY <1>1, <1>2 DEF AfterStoring, Concluding, Ended
<1>4. /\ \A j \in DOMAIN batch' : batch'[j] = Message /\ pc' = "message"
      /\ Rising(batch')
  <2>1. CASE batch' = <<>>
    BY <2>1, ShortHolds DEF Rising
  <2>2. CASE pc' = "message" /\ batch' = <<Message>>
    <3>1. DOMAIN batch' = {1} /\ batch'[1] = Message
      BY <2>2, ShortHolds
    <3>2. \A i, j \in DOMAIN batch' : ~(i < j)
      BY <3>1
    <3>3. QED
      BY <2>2, <3>1, <3>2 DEF Rising
  <2>3. QED
    BY <1>1, <2>1, <2>2
<1>5. QueueOrdered'
  BY DEF InOrder, QueueOrdered, Rising
<1>6. Drained'
  BY <1>1, <1>2, <1>3 DEF InOrder, Drained
<1>7. BatchOrdered'
  <2>1. pc' = "message" => DOMAIN queue = {}
    BY <1>2, <1>3, ShortHolds DEF Concluding
  <2>2. QED
    BY <1>4, <2>1 DEF BatchOrdered
<1>8. TableOrdered'
  <2>1. Told => pc = "message"
    BY DEF Told
  <2>2. Told => Told'
    BY <1>1, <1>3, <2>1 DEF Told
  <2>3. ASSUME NEW i \in DOMAIN stored, NEW j \in DOMAIN batch'
        PROVE  stored[i].content < batch'[j]
    <3>1. ~Told /\ batch'[j] = Message
      BY <1>3, <1>4, <2>1, <2>3
    <3>2. stored[i].content <= got
      BY <3>1 DEF InOrder, TableOrdered
    <3>3. QED
      BY <3>1, <3>2, LinesTyped DEF IInv
  <2>4. \A i \in DOMAIN stored : stored[i].number < counter'
    <3>1. \A i \in DOMAIN stored : stored[i].number < counter /\ stored[i].number \in Nat
      BY LinesTyped DEF InOrder, TableOrdered, IInv
    <3>2. counter \in Nat
      BY LinesTyped DEF IInv
    <3>3. QED
      BY <3>1, <3>2
  <2>5. QED
    BY <2>2, <2>3, <2>4 DEF InOrder, TableOrdered
<1>9. QED
  BY <1>5, <1>6, <1>7, <1>8 DEF InOrder

(* Every step keeps the order of the lines. *)
LEMMA OrderStep == IInv /\ InOrder /\ [Next]_vars => InOrder'
<1> SUFFICES ASSUME IInv, InOrder, [Next]_vars PROVE InOrder'
  OBVIOUS
<1>1. CASE ThreadStep
  <2>1. thread \notin Ended /\ UNCHANGED agentVars
    BY <1>1 DEF ThreadStep, Ended, At, PullImage, CreateBuildFiles,
       CreateContainer, PutArchive, EnterRunBuild, StartContainer, OpenLogs,
       StreamLine, StreamEnds, CloseLogs, WaitForExit, FetchOutput
  <2>2. CASE StreamLine
    BY <2>1, <2>2, OrderStreamLine
  <2>3. CASE ~StreamLine
    <3>1. UNCHANGED <<queue, got>>
      BY <1>1, <2>3 DEF ThreadStep, PullImage, CreateBuildFiles,
         CreateContainer, PutArchive, EnterRunBuild, StartContainer, OpenLogs,
         StreamEnds, CloseLogs, WaitForExit, FetchOutput
    <3>2. ~Told
      BY <2>1 DEF Told
    <3>3. QED
      BY <2>1, <3>1, <3>2, OrderKept DEF agentVars
  <2>4. QED
    BY <2>2, <2>3
<1>2. CASE Submit
  <2>1. /\ thread \notin Ended
        /\ UNCHANGED <<queue, got, pc, why, batch, counter, stored>>
    BY <1>2 DEF Submit, Between, Ended, agentVars
  <2>2. ~Told
    BY <2>1 DEF Told
  <2>3. QED
    BY <2>1, <2>2, OrderKept
<1>3. CASE AgentStep
  <2>1. UNCHANGED <<thread, got>>
    BY <1>3 DEF AgentStep
  <2>2. CASE CollectLines
    BY <2>1, <2>2, OrderCollect
  <2>3. CASE StoreLine
    <3>1. CASE stored' = stored
      <4>1. counter' = counter + 1
        BY <2>3 DEF StoreLine
      <4>2. stored' # Append(stored, [number |-> counter, content |-> Head(batch)])
        <5>1. Len(Append(stored, [number |-> counter, content |-> Head(batch)]))
                  # Len(stored)
          <6>1. [number |-> counter, content |-> Head(batch)]
                    \in [number : Nat, content : 1..Message]
            BY <2>3, NonEmpty DEF StoreLine, IInv, TypeOK
          <6>2. QED
            BY <6>1 DEF IInv, TypeOK
        <5>2. QED
          BY <3>1, <5>1
      <4>3. DoneStoring \/ GiveUpStoring
        BY <2>3, <4>2 DEF StoreLine
      <4>4. pc \in {"store", "storeLast", "message"} /\ queue' = queue
        BY <2>3 DEF StoreLine
      <4>5. QED
        BY <2>1, <3>1, <4>1, <4>3, <4>4, OrderDone
    <3>2. CASE stored' # stored
      BY <2>1, <2>3, <3>2, OrderStore DEF StoreLine
    <3>3. QED
      BY <3>1, <3>2
  <2>4. CASE StoredAll
    BY <2>1, <2>4, OrderDone DEF StoredAll
  <2>5. CASE CheckStopping \/ RecordStop \/ ProcessOutput \/ RecordEnd \/ RecordNew
    <3>1. UNCHANGED <<queue, batch, counter, stored>>
      BY <2>5 DEF CheckStopping, RecordStop, ProcessOutput, RecordEnd, RecordNew
    <3>2. /\ pc # "message"
          /\ pc \in {"failure", "recordError", "leave", "remove", "record", "left"}
               => /\ pc' \in {"failure", "recordError", "leave", "left"}
                  /\ pc' = "left" => pc = "record" /\ why' = why
                  /\ pc' = "leave" => why' # "stop"
          /\ pc' \in Concluding => pc \in Concluding
          /\ why' = "ended" => why = "ended" \/ pc \in Concluding
      BY <2>5 DEF CheckStopping, RecordStop, ProcessOutput, RecordEnd,
         RecordNew, Goto, LeaveBlock, Concluding
    <3>3. QED
      BY <2>1, <3>1, <3>2, OrderKept DEF Told
  <2>6. QED
    BY <1>3, <2>2, <2>3, <2>4, <2>5 DEF AgentStep
<1>4. CASE BuilderStep \/ ShutdownStep
  <2>1. UNCHANGED <<thread, queue, got, batch, counter, stored>>
    BY <1>4 DEF BuilderStep, ShutdownStep
  <2>2. /\ pc' \in {"recordStop", "left", "record", "remove", "leave"}
        /\ pc' = "recordStop" => pc = "cancel"
        /\ why' = why \/ why' \in {"error", "shutdown"}
        /\ pc \notin {"message", "failure", "recordError"}
    BY <1>4 DEF BuilderStep, ShutdownStep, Cancel, ExitStop, ExitRemove,
       ExitRaises, AfterExit, Shutdown, LeaveBlock, Goto
  <2>3. QED
    BY <2>1, <2>2, OrderKept DEF Told, Concluding
<1>5. CASE PublishStep
  <2>1. UNCHANGED <<thread, queue, got, counter, stored>>
    BY <1>5 DEF PublishStep, PublishRaises, threadVars
  <2>2. CASE /\ pc \in {"store", "storeLast", "message"}
             /\ DoneStoring \/ GiveUpStoring
    BY <2>1, <2>2, OrderDone
  <2>3. CASE /\ pc = "leave" /\ UNCHANGED batch
             /\ \/ why = "stop" /\ pc' = "wait" /\ why' = "none"
                \/ pc' = "leave" /\ why' = "error"
    BY <2>1, <2>3, OrderKept DEF Told, Concluding
  <2>4. QED
    BY <1>5, <2>2, <2>3 DEF PublishStep, PublishRaises, LeaveBlock, Goto
<1>6. CASE ContainerStep \/ LoopStops \/ EventStep \/ BrowserJoins \/ UserStops
           \/ UNCHANGED vars
  <2>1. UNCHANGED <<thread, queue, got, pc, why, batch, counter, stored>>
    BY <1>6 DEF ContainerStep, LoopStops, EventStep, BrowserJoins, UserStops,
       vars, threadVars, agentVars
  <2>2. QED
    BY <2>1, OrderKept DEF Told
<1>7. QED
  BY <1>1, <1>2, <1>3, <1>4, <1>5, <1>6 DEF Next

(* As long as nothing has failed: inside the block the build is not        *)
(* cancelled, its container is there, and the thread gives up the stream   *)
(* only when it has read all the container has printed.                    *)
Inside == pc \in {"wait", "store", "storeLast", "check", "cancel", "success",
                  "message", "failure", "recordError", "recordSuccess"}
AllRead == container # "running" /\ got = printed
Reading == thread \notin {"logs", "stream"} => AllRead
Progress == faults = 0 =>
    /\ stream = "closed" => cancelled
    /\ Inside => /\ ~cancelled /\ container # "removed" /\ why = "none"
                 /\ Reading /\ buildId = "set"
    /\ outcome \in {"success", "error"} => why = "ended"
    /\ why = "ended" => pc \in {"leave", "remove", "left"} /\ AllRead

(* What the thread does while the agent waits for it. *)
LEMMA ReadingThread ==
    ASSUME ThreadStep, ~Fault, Reading, ~cancelled, stream # "closed",
           container # "removed"
    PROVE  Reading' /\ container' # "removed"
<1> USE DEF Reading, AllRead, At, ThreadGoes
<1>1. printed' = printed
  BY DEF ThreadStep
<1>2. CASE PullImage
  BY <1>1, <1>2 DEF PullImage, DockerCall
<1>3. CASE CreateBuildFiles
  BY <1>1, <1>3 DEF CreateBuildFiles
<1>4. CASE CreateContainer
  BY <1>1, <1>4 DEF CreateContainer, DockerCall
<1>5. CASE PutArchive
  BY <1>1, <1>5 DEF PutArchive, DockerCall
<1>6. CASE EnterRunBuild
  BY <1>1, <1>6 DEF EnterRunBuild
<1>7. CASE StartContainer
  BY <1>1, <1>7 DEF StartContainer, DockerCall
<1>8. CASE OpenLogs
  BY <1>1, <1>8 DEF OpenLogs, DockerCall
<1>9. CASE StreamLine
  BY <1>1, <1>9 DEF StreamLine
<1>10. CASE StreamEnds
  BY <1>1, <1>10 DEF StreamEnds
<1>11. CASE CloseLogs
  BY <1>1, <1>11 DEF CloseLogs
<1>12. CASE WaitForExit
  BY <1>1, <1>12 DEF WaitForExit
<1>13. CASE FetchOutput
  BY <1>1, <1>13 DEF FetchOutput
<1>14. QED
  BY <1>2, <1>3, <1>4, <1>5, <1>6, <1>7, <1>8, <1>9, <1>10, <1>11, <1>12,
     <1>13 DEF ThreadStep

(* Every step keeps it. *)
LEMMA ProgressStep == IInv /\ Progress /\ [Next]_vars => Progress'
<1> SUFFICES ASSUME IInv, Progress, [Next]_vars PROVE Progress'
  OBVIOUS
<1>1. CASE UNCHANGED vars
  BY <1>1 DEF vars, threadVars, dockerVars, agentVars, Progress, Inside,
     Reading, AllRead
<1>2. SUFFICES ASSUME faults' = 0, Next PROVE Progress'
  BY <1>1 DEF Progress
<1>3. faults = 0 /\ ~Fault
  <2>1. faults = 0
    BY <1>2, FaultsGrow
  <2>2. QED
    BY <1>2, <2>1 DEF Fault
<1>4. /\ why = "ended" => thread \in Ended
      /\ pc \in {"recordSuccess", "recordError"} => thread \in Ended
  BY DEF IInv, Late
<1>5. CASE ThreadStep
  <2>1. /\ thread \notin Ended
        /\ UNCHANGED <<cancelled, pc, why, outcome, buildId>>
    BY <1>5 DEF ThreadStep, agentVars, Ended, At, PullImage,
       CreateBuildFiles, CreateContainer, PutArchive, EnterRunBuild,
       StartContainer, OpenLogs, StreamLine, StreamEnds, CloseLogs,
       WaitForExit, FetchOutput
  <2>2. Inside => Reading' /\ container' # "removed"
    BY <1>3, <1>5, ReadingThread DEF Progress
  <2>3. stream' = "closed" => stream = "closed"
    BY <1>5 DEF ThreadStep, PullImage, CreateBuildFiles, CreateContainer,
       PutArchive, EnterRunBuild, StartContainer, OpenLogs, StreamLine,
       StreamEnds, CloseLogs, WaitForExit, FetchOutput
  <2>4. QED
    BY <1>3, <1>4, <2>1, <2>2, <2>3 DEF Progress, Inside
<1>6. CASE Submit
  <2>1. /\ thread \in Between /\ thread' \notin {"logs", "stream"}
        /\ UNCHANGED <<stream, got, cancelled, container, printed, pc, why,
                       outcome, buildId>>
    BY <1>6 DEF Submit, Between, ThreadGoes, dockerVars, agentVars
  <2>2. QED
    BY <1>3, <2>1 DEF Progress, Inside, Reading, AllRead, Between
<1>7. CASE ContainerStep
  <2>1. /\ container = "running" /\ container' # "removed"
        /\ UNCHANGED <<thread, stream, got, cancelled, pc, why, outcome, buildId>>
    BY <1>7 DEF ContainerStep, ContainerPrints, ContainerExits, threadVars,
       agentVars
  <2>2. QED
    BY <1>3, <2>1 DEF Progress, Inside, Reading, AllRead
<1>8. CASE AgentStep
  <2>1. UNCHANGED <<thread, stream, got, cancelled, container, printed>>
    BY <1>8 DEF AgentStep, dockerVars
  <2>2. CASE CollectLines \/ StoreLine \/ StoredAll
    <3>1. /\ Inside /\ outcome' = outcome /\ why' \in {why, "error"}
          /\ pc' = "leave" \/ why' = why
          /\ buildId' = buildId
      BY <1>3, <2>2 DEF CollectLines, StoreLine, StoredAll, DoneStoring,
         Inside
    <3>2. QED
      BY <1>3, <2>1, <3>1 DEF Progress, Inside, Reading, AllRead
  <2>3. CASE CheckStopping \/ ProcessOutput
    <3>1. /\ Inside /\ outcome' = outcome /\ why' = why /\ buildId' = buildId
      BY <1>3, <2>3 DEF CheckStopping, ProcessOutput, Inside
    <3>2. QED
      BY <1>3, <2>1, <3>1 DEF Progress, Inside, Reading, AllRead
  <2>4. CASE RecordStop \/ RecordNew
    <3>1. /\ pc \in {"recordStop", "record"} /\ pc' \in {"leave", "left"}
          /\ outcome' \in {outcome, "stopped", "new"} /\ why' \in {why, "stop"}
          /\ pc = "recordStop" => outcome' = "stopped"
          /\ pc = "record" => why' = why
      BY <1>3, <2>4 DEF RecordStop, RecordNew, Record, Commit, LeaveBlock, Goto
    <3>2. QED
      BY <1>3, <2>1, <3>1 DEF Progress, Inside
  <2>5. CASE RecordEnd
    <3>1. /\ pc \in {"recordSuccess", "recordError"} /\ pc' = "leave"
          /\ why' = "ended"
      BY <1>3, <2>5 DEF RecordEnd, LeaveBlock, Goto
    <3>2. AllRead
      BY <1>3, <1>4, <3>1 DEF Progress, Inside, Reading, Ended
    <3>3. QED
      BY <1>3, <2>1, <3>1, <3>2 DEF Progress, Inside, AllRead
  <2>6. QED
    BY <1>8, <2>2, <2>3, <2>4, <2>5 DEF AgentStep
<1>9. CASE BuilderStep
  <2>1. UNCHANGED <<thread, got, printed, outcome>>
    BY <1>9 DEF BuilderStep
  <2>2. CASE Cancel
    <3>1. /\ pc = "cancel" /\ pc' = "recordStop" /\ cancelled' /\ why' = why
      BY <1>3, <2>2 DEF Cancel, Goto
    <3>2. QED
      BY <1>3, <2>1, <3>1 DEF Progress, Inside
  <2>3. CASE ExitStop \/ ExitRemove
    <3>1. /\ pc' \in {"remove", "left", "record"}
          /\ pc' = "record" => why \notin {"ended", "stop"}
          /\ why' = why
          /\ UNCHANGED <<stream, cancelled>>
          /\ container' = "running" => container = "running"
      BY <1>3, <2>3 DEF ExitStop, ExitRemove, AfterExit, Goto
    <3>2. QED
      BY <1>3, <2>1, <3>1 DEF Progress, Inside, AllRead
  <2>4. QED
    BY <1>9, <2>2, <2>3 DEF BuilderStep
<1>10. CASE ShutdownStep
  <2>1. /\ pc = "wait" /\ pc' = "leave" /\ why' = "shutdown"
        /\ UNCHANGED <<stream, cancelled, outcome>>
    BY <1>10 DEF ShutdownStep, Shutdown, LeaveBlock, Goto
  <2>2. QED
    BY <1>3, <2>1 DEF Progress, Inside
<1>11. CASE LoopStops \/ EventStep \/ BrowserJoins \/ UserStops
  <2>1. UNCHANGED <<thread, stream, got, cancelled, container, printed, pc,
                    why, outcome, buildId>>
    BY <1>11 DEF LoopStops, EventStep, BrowserJoins, UserStops, threadVars,
       dockerVars, agentVars
  <2>2. QED
    BY <1>3, <2>1 DEF Progress, Inside, Reading, AllRead
<1>12. CASE PublishStep
  BY <1>3, <1>12 DEF PublishStep, PublishRaises
<1>13. QED
  BY <1>2, <1>5, <1>6, <1>7, <1>8, <1>9, <1>10, <1>11, <1>12 DEF Next

(* As long as nothing has failed no line is lost on its way, and the       *)
(* reason of a failure is in the table before the outcome.                 *)
InQueue(x) == \E i \in DOMAIN queue : queue[i] = x
InBatch(x) == \E i \in DOMAIN batch : batch[i] = x
InTable(x) == \E i \in DOMAIN stored : stored[i].content = x
Lines == faults = 0 =>
    /\ pc \notin {"store", "storeLast", "message"} => batch = <<>>
    /\ \A x \in 1..got : InTable(x) \/ InBatch(x) \/ InQueue(x)
    /\ pc \in {"failure", "recordError"} \/ outcome = "error" => InTable(Message)
    /\ pc = "message" => InTable(Message) \/ InBatch(Message)
    /\ InTable(Message) =>
           pc \in {"message", "failure", "recordError"} \/ outcome = "error"

(* Steps which move no line. *)
LEMMA LinesKept ==
    ASSUME Lines, faults = 0, UNCHANGED <<queue, got, batch, stored, outcome>>,
           \/ pc' = pc
           \/ /\ pc \notin {"store", "storeLast", "message", "failure", "recordError"}
              /\ pc' \notin {"failure", "recordError", "message"}
    PROVE  Lines'
<1>1. /\ \A x : InQueue(x)' = InQueue(x) /\ InBatch(x)' = InBatch(x)
      /\ \A x : InTable(x)' = InTable(x)
      /\ InTable(Message)' = InTable(Message) /\ InBatch(Message)' = InBatch(Message)
  BY DEF InQueue, InBatch, InTable, Message
<1>2. (\A x \in 1..got : InTable(x) \/ InBatch(x) \/ InQueue(x))'
  BY <1>1 DEF Lines, InTable, InBatch, InQueue
<1>3. QED
  BY <1>1, <1>2 DEF Lines

(* The thread takes one more line from the stream. *)
LEMMA LinesStreamLine ==
    ASSUME IInv, Lines, faults = 0, StreamLine, UNCHANGED agentVars
    PROVE  Lines'
<1>1. /\ got' = got + 1 /\ queue' = Append(queue, got + 1) /\ got < printed
      /\ UNCHANGED <<pc, batch, stored, outcome>>
  BY DEF StreamLine, agentVars
<1>2. /\ DOMAIN queue = 1..Len(queue) /\ Len(queue) \in Nat
      /\ DOMAIN queue' = 1..(Len(queue) + 1)
      /\ \A i \in 1..Len(queue) : queue'[i] = queue[i]
      /\ queue'[Len(queue) + 1] = got + 1
  <2>1. got + 1 \in 1..MaxLines
    BY <1>1, MaxLinesAssumption DEF IInv, TypeOK
  <2>2. queue \in Seq(1..MaxLines)
    BY DEF IInv, TypeOK
  <2>3. QED
    BY <1>1, <2>1, <2>2, AppendHolds
<1>3. ASSUME NEW x \in 1..got'
      PROVE  \/ \E i \in DOMAIN stored' : stored'[i].content = x
             \/ \E i \in DOMAIN batch' : batch'[i] = x
             \/ \E i \in DOMAIN queue' : queue'[i] = x
  <2>1. x \in 1..got \/ x = got + 1
    BY <1>1, LinesTyped DEF IInv
  <2>2. CASE x = got + 1
    BY <1>2, <2>2
  <2>3. CASE x \in 1..got
    <3>1. InTable(x) \/ InBatch(x) \/ InQueue(x)
      BY <2>3 DEF Lines
    <3>2. QED
      BY <1>1, <1>2, <3>1 DEF InTable, InBatch, InQueue
  <2>4. QED
    BY <2>1, <2>2, <2>3
<1>4. InTable(Message)' = InTable(Message) /\ InBatch(Message)' = InBatch(Message)
  BY <1>1 DEF InTable, InBatch, Message
<1>5. QED
  BY <1>1, <1>3, <1>4 DEF Lines, InTable, InBatch, InQueue

(* The agent collects the queue, stores a line or ends a batch. *)
LEMMA LinesBatch ==
    ASSUME IInv, InOrder, Lines, faults = 0, ~Fault,
           UNCHANGED <<thread, got>>, CollectLines \/ StoreLine \/ StoredAll
    PROVE  Lines'
<1>1. outcome' = outcome
  BY DEF CollectLines, StoreLine, StoredAll
<1>2. CASE CollectLines
  <2>1. /\ pc = "wait" /\ batch = <<>> /\ batch' = queue /\ stored' = stored
        /\ pc' \in {"store", "storeLast"}
    BY <1>2 DEF CollectLines, Lines, Goto
  <2>2. ASSUME NEW x \in 1..got
        PROVE  \/ \E i \in DOMAIN stored' : stored'[i].content = x
               \/ \E i \in DOMAIN batch' : batch'[i] = x
    <3>1. InTable(x) \/ InBatch(x) \/ InQueue(x)
      BY DEF Lines
    <3>2. ~InBatch(x)
      BY <2>1, ShortHolds DEF InBatch
    <3>3. QED
      BY <2>1, <3>1, <3>2 DEF InTable, InQueue
  <2>3. InTable(Message)' = InTable(Message)
    BY <2>1 DEF InTable, Message
  <2>4. QED
    BY <1>1, <2>1, <2>2, <2>3 DEF Lines, InTable, InBatch
<1>3. CASE StoreLine
  <2> DEFINE n == Len(stored)
             e == [number |-> counter, content |-> Head(batch)]
  <2>1. /\ batch # <<>> /\ batch' = Tail(batch) /\ stored' = Append(stored, e)
        /\ UNCHANGED <<pc, queue>> /\ pc \in {"store", "storeLast", "message"}
    BY <1>3 DEF StoreLine
  <2>2. /\ DOMAIN stored = 1..n /\ n \in Nat /\ DOMAIN stored' = 1..(n + 1)
        /\ \A i \in 1..n : stored'[i] = stored[i]
        /\ stored'[n + 1] = e
    <3>1. e \in [number : Nat, content : 1..Message]
      BY <2>1, NonEmpty DEF IInv, TypeOK
    <3>2. stored \in Seq([number : Nat, content : 1..Message])
      BY DEF IInv, TypeOK
    <3>3. QED
      BY <2>1, <3>1, <3>2, AppendHolds
  <2>3. /\ 1 \in DOMAIN batch /\ Head(batch) = batch[1]
        /\ \A i \in DOMAIN batch : i = 1 \/ (i - 1 \in DOMAIN batch' /\ batch'[i - 1] = batch[i])
    <3>1. batch \in Seq(1..Message)
      BY DEF IInv, TypeOK
    <3>2. /\ DOMAIN batch = 1..Len(batch) /\ Len(batch) \in Nat
          /\ DOMAIN batch' = 1..(Len(batch) - 1)
          /\ 1 \in DOMAIN batch /\ Head(batch) = batch[1]
          /\ \A i \in DOMAIN batch' : batch'[i] = batch[i + 1]
      BY <2>1, <3>1, TailHolds
    <3>3. ASSUME NEW i \in DOMAIN batch, i # 1
          PROVE  i - 1 \in DOMAIN batch' /\ batch'[i - 1] = batch[i]
      <4>1. i - 1 \in DOMAIN batch' /\ (i - 1) + 1 = i
        BY <3>2, <3>3
      <4>2. batch'[i - 1] = batch[(i - 1) + 1]
        BY <3>2, <4>1
      <4>3. QED
        BY <4>1, <4>2
    <3>4. QED
      BY <3>2, <3>3
  <2>4. e.content = batch[1]
    BY <2>3
  <2> HIDE DEF n, e
  <2>5. ASSUME NEW x, InTable(x)
        PROVE  \E i \in DOMAIN stored' : stored'[i].content = x
    BY <2>2, <2>5 DEF InTable
  <2>6. ASSUME NEW x, InBatch(x)
        PROVE  \/ \E i \in DOMAIN stored' : stored'[i].content = x
               \/ \E i \in DOMAIN batch' : batch'[i] = x
    <3>1. PICK i \in DOMAIN batch : batch[i] = x
      BY <2>6 DEF InBatch
    <3>2. CASE i = 1
      <4>1. n + 1 \in DOMAIN stored'
        BY <2>2
      <4>2. QED
        BY <2>2, <2>4, <3>1, <3>2, <4>1
    <3>3. CASE i # 1
      BY <2>3, <3>1, <3>3
    <3>4. QED
      BY <3>2, <3>3
  <2>7. (\E i \in DOMAIN stored' : stored'[i].content = Message) =>
            InTable(Message) \/ pc = "message"
    <3> SUFFICES ASSUME NEW i \in DOMAIN stored', stored'[i].content = Message
                 PROVE  InTable(Message) \/ pc = "message"
      OBVIOUS
    <3>1. CASE i \in 1..n
      BY <2>2, <3>1 DEF InTable
    <3>2. CASE i = n + 1
      <4>1. batch[1] = Message
        BY <2>2, <2>4, <3>2
      <4>2. batch[1] <= got \/ pc = "message"
        BY <2>3 DEF InOrder, BatchOrdered
      <4>3. QED
        BY <4>1, <4>2, LinesTyped DEF IInv
    <3>3. QED
      BY <2>2, <3>1, <3>2
  <2>8. ASSUME NEW x \in 1..got
        PROVE  \/ \E i \in DOMAIN stored' : stored'[i].content = x
               \/ \E i \in DOMAIN batch' : batch'[i] = x
               \/ \E i \in DOMAIN queue' : queue'[i] = x
    <3>1. InTable(x) \/ InBatch(x) \/ InQueue(x)
      BY DEF Lines
    <3>2. QED
      BY <2>1, <2>5, <2>6, <3>1 DEF InQueue
  <2>9. Message' = Message
    BY DEF Message
  <2>10. (\A x \in 1..got : InTable(x) \/ InBatch(x) \/ InQueue(x))'
    BY <2>8 DEF InTable, InBatch, InQueue
  <2>11. /\ outcome = "error" => InTable(Message)'
         /\ pc = "message" => InTable(Message)' \/ InBatch(Message)'
         /\ InTable(Message)' =>
                pc \in {"message", "failure", "recordError"} \/ outcome = "error"
    BY <2>5, <2>6, <2>7, <2>9 DEF Lines, InTable, InBatch
  <2>12. QED
    BY <1>1, <2>1, <2>10, <2>11 DEF Lines
<1>4. CASE StoredAll
  <2>1. /\ pc \in {"store", "storeLast", "message"} /\ batch = <<>>
        /\ pc' = AfterStoring
        /\ batch' = IF pc' = "message" THEN <<Message>> ELSE <<>>
        /\ UNCHANGED <<queue, stored>>
    BY <1>4 DEF StoredAll, DoneStoring, Goto
  <2>2. \A x : ~InBatch(x)
    BY <2>1, ShortHolds DEF InBatch
  <2>3. InTable(Message)' = InTable(Message)
    BY <2>1 DEF InTable, Message
  <2>4. pc' = "message" => InBatch(Message)'
    BY <2>1, ShortHolds DEF InBatch, Message
  <2>5. (\A x \in 1..got : InTable(x) \/ InBatch(x) \/ InQueue(x))'
    BY <2>1, <2>2 DEF Lines, InTable, InQueue
  <2>6. pc = "storeLast" => thread \in Ended
    BY DEF IInv, Late
  <2>7. /\ pc' \in {"check", "success", "message", "failure", "leave"}
        /\ pc' = "failure" <=> pc = "message"
    BY <2>1, <2>6 DEF AfterStoring, Ended
  <2>8. QED
    BY <1>1, <2>1, <2>2, <2>3, <2>4, <2>5, <2>7 DEF Lines
<1>5. QED
  BY <1>2, <1>3, <1>4

(* The steps of the agent which record something. *)
LEMMA LinesRecord ==
    ASSUME Progress, Lines, faults = 0, ~Fault, UNCHANGED <<thread, got>>,
           CheckStopping \/ RecordStop \/ ProcessOutput \/ RecordEnd \/ RecordNew
    PROVE  Lines'
<1>1. UNCHANGED <<queue, got, batch, stored>>
  BY DEF CheckStopping, RecordStop, ProcessOutput, RecordEnd, RecordNew
<1>2. (\A x \in 1..got : InTable(x) \/ InBatch(x) \/ InQueue(x))'
  BY <1>1 DEF Lines, InTable, InBatch, InQueue
<1>3. InTable(Message)' = InTable(Message) /\ InBatch(Message)' = InBatch(Message)
  BY <1>1 DEF InTable, InBatch, Message
<1>4. outcome # "error"
  BY DEF Progress, CheckStopping, RecordStop, ProcessOutput, RecordEnd, RecordNew
<1>5. /\ pc \notin {"store", "storeLast", "message"}
      /\ pc' \notin {"store", "storeLast", "message", "failure"}
      /\ pc' = "recordError" => pc = "failure" /\ outcome' = outcome
      /\ outcome' = "error" <=> pc = "recordError"
      /\ pc = "failure" => pc' = "recordError"
  <2>1. pc \in {"recordSuccess", "recordError"} => buildId = "set"
    BY DEF Progress, Inside
  <2>2. QED
    BY <1>4, <2>1 DEF CheckStopping, RecordStop, ProcessOutput, RecordEnd,
       RecordNew, Record, Commit, LeaveBlock, Goto
<1>6. QED
  BY <1>1, <1>2, <1>3, <1>4, <1>5 DEF Lines

(* Every step keeps it. *)
LEMMA LinesStep == IInv /\ InOrder /\ Progress /\ Lines /\ [Next]_vars => Lines'
<1> SUFFICES ASSUME IInv, InOrder, Progress, Lines, [Next]_vars PROVE Lines'
  OBVIOUS
<1>1. CASE UNCHANGED vars
  BY <1>1, LinesKept DEF vars, threadVars, agentVars, Lines
<1>2. SUFFICES ASSUME faults' = 0, Next PROVE Lines'
  BY <1>1 DEF Lines
<1>3. faults = 0 /\ ~Fault
  <2>1. faults = 0
    BY <1>2, FaultsGrow
  <2>2. QED
    BY <1>2, <2>1 DEF Fault
<1>4. CASE ThreadStep
  <2>1. UNCHANGED agentVars
    BY <1>4 DEF ThreadStep
  <2>2. CASE StreamLine
    BY <1>3, <2>1, <2>2, LinesStreamLine
  <2>3. CASE ~StreamLine
    <3>1. UNCHANGED <<queue, got>>
      BY <1>4, <2>3 DEF ThreadStep, PullImage, CreateBuildFiles,
         CreateContainer, PutArchive, EnterRunBuild, StartContainer, OpenLogs,
         StreamEnds, CloseLogs, WaitForExit, FetchOutput
    <3>2. QED
      BY <1>3, <2>1, <3>1, LinesKept DEF agentVars
  <2>4. QED
    BY <2>2, <2>3
<1>5. CASE AgentStep
  BY <1>3, <1>5, LinesBatch, LinesRecord DEF AgentStep
<1>6. CASE BuilderStep \/ ShutdownStep
  <2>1. UNCHANGED <<queue, got, batch, stored, outcome>>
    BY <1>6 DEF BuilderStep, ShutdownStep
  <2>2. /\ pc \in {"cancel", "leave", "remove", "wait"}
        /\ pc' \in {"recordStop", "remove", "left", "record", "leave"}
    BY <1>6 DEF BuilderStep, ShutdownStep, Cancel, ExitStop, ExitRemove,
       ExitRaises, AfterExit, Shutdown, LeaveBlock, Goto
  <2>3. QED
    BY <1>3, <2>1, <2>2, LinesKept
<1>7. CASE Submit \/ ContainerStep \/ LoopStops \/ EventStep \/ BrowserJoins
           \/ UserStops
  <2>1. UNCHANGED <<queue, got, batch, stored, outcome, pc>>
    BY <1>7 DEF Submit, ContainerStep, LoopStops, EventStep, BrowserJoins,
       UserStops, threadVars, agentVars
  <2>2. QED
    BY <1>3, <2>1, LinesKept
<1>8. CASE PublishStep
  BY <1>3, <1>8 DEF PublishStep, PublishRaises
<1>9. QED
  BY <1>2, <1>4, <1>5, <1>6, <1>7, <1>8 DEF Next

(* The log in the database is in the order in which the container printed  *)
(* it, and complete when nothing failed and the build ended by itself, for *)
(* any number of lines.                                                    *)
THEOREM LogsFaithful == Spec => []LogFaithful
<1>1. Init => InOrder /\ Progress /\ Lines
  <2> SUFFICES ASSUME Init PROVE InOrder /\ Progress /\ Lines
    OBVIOUS
  <2>1. /\ queue = <<>> /\ batch = <<>> /\ stored = <<>> /\ got = 0 /\ printed = 0
        /\ pc = "wait" /\ why = "none" /\ outcome = "none" /\ cancelled = FALSE
        /\ stream = "none" /\ container = "none" /\ buildId = "set"
    BY DEF Init
  <2>2. DOMAIN queue = {} /\ DOMAIN batch = {} /\ DOMAIN stored = {}
    BY <2>1, ShortHolds
  <2>3. InOrder
    BY <2>1, <2>2 DEF InOrder, QueueOrdered, BatchOrdered, TableOrdered,
       Drained, Rising, Concluding
  <2>4. Progress
    BY <2>1 DEF Progress, Inside, Reading, AllRead
  <2>5. Lines
    BY <2>1, <2>2 DEF Lines, InTable
  <2>6. QED
    BY <2>3, <2>4, <2>5
<1>2. IInv /\ InOrder /\ Progress /\ Lines => LogFaithful
  <2> SUFFICES ASSUME IInv, InOrder, Progress, Lines PROVE LogFaithful
    OBVIOUS
  <2>1. \A i, j \in DOMAIN stored : i < j =>
            /\ stored[i].number < stored[j].number
            /\ stored[i].content < stored[j].content
    BY DEF InOrder, TableOrdered
  <2>2. ASSUME outcome \in {"success", "error"}, faults = 0
        PROVE  {stored[i].content : i \in DOMAIN stored} =
                   1..printed \cup (IF outcome = "error" THEN {Message} ELSE {})
    <3>1. /\ why = "ended" /\ got = printed /\ pc \in {"leave", "remove", "left"}
      BY <2>2 DEF Progress, AllRead
    <3>2. queue = <<>> /\ batch = <<>>
      BY <2>2, <3>1 DEF InOrder, Drained, Lines
    <3>3. ASSUME NEW x \in 1..printed PROVE InTable(x)
      BY <2>2, <3>1, <3>2, <3>3, ShortHolds DEF Lines, InBatch, InQueue
    <3>4. InTable(Message) <=> outcome = "error"
      BY <2>2, <3>1 DEF Lines
    <3>5. ASSUME NEW i \in DOMAIN stored
          PROVE  stored[i].content \in 1..printed \/ stored[i].content = Message
      <4>1. stored[i].content <= got \/ stored[i].content = Message
        BY <3>5 DEF InOrder, TableOrdered
      <4>2. QED
        BY <3>1, <3>5, <4>1, LinesTyped DEF IInv
    <3> DEFINE C == {stored[i].content : i \in DOMAIN stored}
    <3>6. \A x : x \in C <=> InTable(x)
      BY DEF InTable
    <3>7. \A x \in C : x \in 1..printed \/ x = Message
      BY <3>5
    <3> HIDE DEF C
    <3>8. CASE outcome = "error"
      <4>1. C = 1..printed \cup {Message}
        BY <3>3, <3>4, <3>6, <3>7, <3>8
      <4>2. QED
        BY <3>8, <4>1 DEF C
    <3>9. CASE outcome # "error"
      <4>1. C = 1..printed \cup {}
        BY <3>3, <3>4, <3>6, <3>7, <3>9
      <4>2. QED
        BY <3>9, <4>1 DEF C
    <3>10. QED
      BY <3>8, <3>9
  <2>3. QED
    BY <2>1, <2>2 DEF LogFaithful
<1>3. QED
  BY <1>1, <1>2, InitSound, StepSound, OrderStep, ProgressStep, LinesStep, PTL
  DEF Spec

-----------------------------------------------------------------------------
(* What stands behind the liveness of a stop: the thread waits for a       *)
(* container which runs.                                                   *)
Waits == container = "running" /\ \/ thread = "wait"
                                  \/ thread = "stream" /\ stream = "open"

(* Who wants the lock waits for two calls of docker only, and never for a  *)
(* container.  A cancelled thread waits for its container only when the    *)
(* stream or its closing has failed, and then the agent is about to stop   *)
(* the container, unless one more call has failed.                         *)
NeverBlocked ==
    /\ lock # "free" => thread \in {"start", "logs"}
    /\ cancelled /\ Waits =>
          faults > (IF pc \in {"recordStop", "leave"} THEN 0 ELSE 1)

(* A cancelled build opens no stream, and its open one could not be        *)
(* closed; a stream that was neither closed nor broken ends with the       *)
(* container.                                                              *)
Released ==
    /\ cancelled => thread # "logs"
    /\ stream = "closed" => cancelled
    /\ cancelled /\ stream = "open" => faults > 0
    /\ thread = "streamed" /\ container = "running" => cancelled \/ faults > 0
    /\ thread = "wait" /\ container = "running" => faults > 0
    /\ cancelled /\ Waits => pc \in {"recordStop", "leave"} \/ faults > 1

(* What the thread does keeps it: when the build is cancelled the thread   *)
(* begins to wait for nothing.                                             *)
LEMMA ReleasedThread == IInv /\ Released /\ ThreadStep => Released'
<1> SUFFICES ASSUME IInv, Released, ThreadStep PROVE Released'
  OBVIOUS
<1> USE DEF Released, At, ThreadGoes
<1>1. UNCHANGED <<cancelled, pc>>
  BY DEF ThreadStep, agentVars
<1>2. /\ faults \in Nat
      /\ faults' = faults \/ faults' = faults + 1
  BY FaultsCount DEF Next
<1>3. cancelled /\ Waits' => Waits
  <2>1. CASE PullImage \/ CreateBuildFiles \/ CreateContainer \/ PutArchive
    BY <1>1, <2>1 DEF PullImage, CreateBuildFiles, CreateContainer, PutArchive,
       DockerCall, Waits
  <2>2. CASE EnterRunBuild
    BY <1>1, <2>2 DEF EnterRunBuild, Waits
  <2>3. CASE StartContainer
    BY <1>1, <2>3 DEF StartContainer, DockerCall, Waits
  <2>4. CASE OpenLogs
    BY <1>1, <2>4 DEF OpenLogs
  <2>5. CASE StreamLine
    BY <1>1, <2>5 DEF StreamLine, Waits
  <2>6. CASE StreamEnds
    BY <1>1, <2>6 DEF StreamEnds, Waits
  <2>7. CASE CloseLogs
    BY <1>1, <2>7 DEF CloseLogs, Waits
  <2>8. CASE WaitForExit \/ FetchOutput
    BY <1>1, <2>8 DEF WaitForExit, FetchOutput, Waits
  <2>9. QED
    BY <2>1, <2>2, <2>3, <2>4, <2>5, <2>6, <2>7, <2>8 DEF ThreadStep
<1>4. (cancelled /\ Waits => pc \in {"recordStop", "leave"} \/ faults > 1)'
  BY <1>1, <1>2, <1>3
<1>5. /\ (cancelled => thread # "logs")'
      /\ (stream = "closed" => cancelled)'
      /\ (cancelled /\ stream = "open" => faults > 0)'
      /\ (thread = "streamed" /\ container = "running" => cancelled \/ faults > 0)'
      /\ (thread = "wait" /\ container = "running" => faults > 0)'
  <2>1. CASE PullImage \/ CreateBuildFiles \/ CreateContainer \/ PutArchive
    BY <1>1, <1>2, <2>1 DEF PullImage, CreateBuildFiles, CreateContainer,
       PutArchive, DockerCall
  <2>2. CASE EnterRunBuild
    BY <1>1, <1>2, <2>2 DEF EnterRunBuild
  <2>3. CASE StartContainer
    BY <1>1, <1>2, <2>3 DEF StartContainer, DockerCall, IInv, Locked
  <2>4. CASE OpenLogs
    BY <1>1, <1>2, <2>4 DEF OpenLogs, DockerCall
  <2>5. CASE StreamLine
    BY <1>1, <1>2, <2>5 DEF StreamLine
  <2>6. CASE StreamEnds
    BY <1>1, <1>2, <2>6 DEF StreamEnds, Fault
  <2>7. CASE CloseLogs
    BY <1>1, <1>2, <2>7 DEF CloseLogs
  <2>8. CASE WaitForExit \/ FetchOutput
    BY <1>1, <1>2, <2>8 DEF WaitForExit, FetchOutput
  <2>9. QED
    BY <2>1, <2>2, <2>3, <2>4, <2>5, <2>6, <2>7, <2>8 DEF ThreadStep
<1>6. QED
  BY <1>4, <1>5

(* And so does what the others do: the agent leaves a cancelled build with *)
(* its container stopped, or with one more fault.                          *)
LEMMA ReleasedStep == IInv /\ Released /\ [Next]_vars => Released'
<1> SUFFICES ASSUME IInv, Released, [Next]_vars PROVE Released'
  OBVIOUS
<1> USE DEF Released, Waits, Goto
<1>0. /\ faults \in Nat
      /\ faults' = faults \/ faults' = faults + 1
  BY FaultsCount
<1>1. CASE Submit
  BY <1>0, <1>1 DEF Submit, ThreadGoes, Between, dockerVars, agentVars
<1>2. CASE ContainerStep
  BY <1>0, <1>2 DEF ContainerStep, ContainerPrints, ContainerExits, threadVars,
     agentVars
<1>3. CASE AgentStep
  <2>1. UNCHANGED <<thread, stream, cancelled, container>>
    BY <1>3 DEF AgentStep, dockerVars
  <2>2. pc \in {"recordStop", "leave"} =>
            pc' \in {"recordStop", "leave"} \/ faults' = faults + 1
    BY <1>3 DEF AgentStep, CollectLines, StoreLine, StoredAll, CheckStopping,
       RecordStop, ProcessOutput, RecordEnd, RecordNew, LeaveBlock, Fault
  <2>3. QED
    BY <1>0, <2>1, <2>2
<1>4. CASE BuilderStep
  <2>1. UNCHANGED thread
    BY <1>4 DEF BuilderStep
  <2>2. CASE Cancel
    BY <1>0, <2>1, <2>2 DEF Cancel, IInv, Locked, LeaveBlock, Fault
  <2>3. CASE ExitStop
    BY <1>0, <2>1, <2>3 DEF ExitStop, Fault
  <2>4. CASE ExitRemove
    BY <1>0, <2>1, <2>4 DEF ExitRemove
  <2>5. QED
    BY <1>4, <2>2, <2>3, <2>4 DEF BuilderStep
<1>5. CASE ShutdownStep
  BY <1>0, <1>5 DEF ShutdownStep, Shutdown, LeaveBlock
<1>6. CASE PublishStep
  BY <1>0, <1>6 DEF PublishStep, PublishRaises, Fault, threadVars, dockerVars
<1>7. CASE LoopStops \/ EventStep \/ BrowserJoins \/ UserStops \/ UNCHANGED vars
  BY <1>0, <1>7 DEF LoopStops, EventStep, BrowserJoins, UserStops, vars,
     threadVars, dockerVars, agentVars
<1>8. QED
  BY ReleasedThread, <1>1, <1>2, <1>3, <1>4, <1>5, <1>6, <1>7 DEF Next

(* The lock is never held for long, and a cancelled thread is held up only *)
(* when calls of docker or the database fail, however long the container   *)
(* runs.                                                                   *)
THEOREM StopNotBlocked == Spec => []NeverBlocked
<1>1. Init => Released
  BY DEF Init, Released
<1>2. IInv /\ Released => NeverBlocked
  <2> SUFFICES ASSUME IInv, Released PROVE NeverBlocked
    OBVIOUS
  <2>1. faults \in Nat /\ lock \in {"free", "thread"}
    BY MaxFaultsAssumption DEF IInv, TypeOK
  <2>2. lock # "free" => thread \in {"start", "logs"}
    BY <2>1 DEF IInv, Locked
  <2>3. cancelled /\ Waits => faults > 0
    BY DEF Released, Waits
  <2>4. QED
    BY <2>1, <2>2, <2>3 DEF Released, NeverBlocked
<1>3. QED
  BY <1>1, <1>2, InitSound, StepSound, ReleasedStep, PTL DEF Spec

-----------------------------------------------------------------------------
(* The outcome.  What the agent records says what has happened: a success  *)
(* that the task has returned, with the output unless the build was        *)
(* cancelled; a failure that it has failed; a stop that the user wanted it *)
(* and the build was cancelled; a build given back that the agent was shut *)
(* down or met an error.                                                   *)
OutcomeExplained ==
    /\ outcome = "success" => thread = "returned" /\ (output \/ cancelled)
    /\ outcome = "error" => thread = "failed"
    /\ outcome = "stopped" => cancelled /\ stopping
    /\ outcome = "new" => why \in {"shutdown", "error"}

(* An outcome is final when nothing fails.  After a failure in __exit__ a  *)
(* build which has ended is given back; and a stop which could not be      *)
(* published may be overwritten, as long as the agent has the build's id.  *)
OutcomeFinal ==
    [][outcome' # outcome =>
          \/ outcome = "none"
          \/ /\ faults > 0 /\ buildId = "set"
             /\ \/ outcome \in {"success", "error"} /\ outcome' = "new"
                \/ outcome = "stopped"]_vars

(* The way to an outcome: what is known at each place of the agent, and    *)
(* why it is where it is when it has recorded something.                   *)
Leaving == {"leave", "remove", "record", "left"}
Reasons ==
    /\ thread = "returned" => output \/ cancelled
    /\ pc \in {"success", "recordSuccess"} => thread = "returned"
    /\ pc \in {"message", "failure", "recordError"} => thread = "failed"
    /\ pc \in {"cancel", "recordStop"} => stopping /\ outcome = "none"
    /\ pc = "recordStop" => cancelled
    /\ pc \notin Leaving => why = "none"
    /\ pc \in {"leave", "remove"} => why # "none"
    /\ pc = "record" => why \in {"shutdown", "error"}
    /\ why = "stop" => outcome = "stopped"
    /\ outcome # "none" => pc \in Leaving \/ (outcome = "stopped" /\ faults > 0)
    /\ outcome \in {"success", "error"} =>
          why = "ended" \/ (why = "error" /\ faults > 0)
    /\ outcome = "stopped" => why = "stop" \/ faults > 0
    /\ outcome = "new" => pc = "left"
    /\ buildId = "none" => outcome = "stopped"

Explained == OutcomeExplained /\ Reasons

(* A batch is stored or given up. *)
LEMMA StoredExplained ==
    ASSUME IInv, Explained, pc \in {"store", "storeLast", "message"},
           UNCHANGED <<pc, why>> \/ DoneStoring \/ GiveUpStoring,
           faults > 0 => faults' > 0,
           UNCHANGED <<thread, output, cancelled, stopping, outcome, buildId>>
    PROVE  Explained'
<1> USE DEF Explained, OutcomeExplained, Reasons, Leaving
<1>1. pc = "storeLast" => thread \in Ended
  BY DEF IInv, Late
<1>2. \/ UNCHANGED <<pc, why>>
      \/ pc' = AfterStoring /\ why' = (IF pc' = "leave" THEN "error" ELSE why)
      \/ pc' = "leave" /\ why' = "error"
  BY DEF DoneStoring, GiveUpStoring, LeaveBlock, Goto
<1>3. QED
  BY <1>1, <1>2 DEF AfterStoring, Ended

(* Every step keeps it. *)
LEMMA ExplainedStep == IInv /\ Explained /\ [Next]_vars => Explained'
<1> SUFFICES ASSUME IInv, Explained, [Next]_vars PROVE Explained'
  OBVIOUS
<1> USE DEF Explained, OutcomeExplained, Reasons, Leaving, Goto, LeaveBlock
<1>0. /\ why \in Why /\ pc \in Pc
      /\ faults \in Nat /\ (faults' = faults \/ faults' = faults + 1)
  BY FaultsCount DEF IInv, TypeOK
<1>0a. faults > 0 => faults' > 0
  BY <1>0
<1>1. CASE ThreadStep
  <2>1. thread \notin Ended /\ UNCHANGED <<agentVars, cancelled, stopping>>
    BY <1>1 DEF ThreadStep, Ended, At, PullImage, CreateBuildFiles,
       CreateContainer, PutArchive, EnterRunBuild, StartContainer, OpenLogs,
       StreamLine, StreamEnds, CloseLogs, WaitForExit, FetchOutput
  <2>2. thread' = "returned" => output' \/ cancelled'
    BY <1>1, <2>1 DEF ThreadStep, At, ThreadGoes, DockerCall, Ended,
       PullImage, CreateBuildFiles, CreateContainer, PutArchive,
       EnterRunBuild, StartContainer, OpenLogs, StreamLine, StreamEnds,
       CloseLogs, WaitForExit, FetchOutput
  <2>3. faults' = faults \/ faults' = faults + 1
    BY <1>1 DEF ThreadStep, Fault, DockerCall, PullImage, CreateBuildFiles,
       CreateContainer, PutArchive, EnterRunBuild, StartContainer, OpenLogs,
       StreamLine, StreamEnds, CloseLogs, WaitForExit, FetchOutput
  <2>4. QED
    BY <1>0, <2>1, <2>2, <2>3 DEF agentVars, Ended
<1>2. CASE Submit
  BY <1>2 DEF Submit, Between, ThreadGoes, agentVars
<1>3. CASE AgentStep
  <2>1. UNCHANGED <<thread, output, cancelled, stopping>>
    BY <1>3 DEF AgentStep
  <2>2. CASE CollectLines
    BY <2>1, <2>2 DEF CollectLines
  <2>3. CASE StoreLine \/ StoredAll
    <3>1. /\ pc \in {"store", "storeLast", "message"}
          /\ UNCHANGED <<outcome, buildId>>
      BY <2>3 DEF StoreLine, StoredAll
    <3>2. UNCHANGED <<pc, why>> \/ DoneStoring \/ GiveUpStoring
      BY <2>3 DEF StoreLine, StoredAll
    <3>3. QED
      BY <1>0a, <2>1, <3>1, <3>2, StoredExplained
  <2>4. CASE CheckStopping
    BY <1>0, <1>0a, <2>1, <2>4 DEF CheckStopping
  <2>5. CASE RecordStop
    BY <1>0, <1>0a, <2>1, <2>5 DEF RecordStop, Commit, Fault
  <2>6. CASE ProcessOutput
    BY <1>0a, <2>1, <2>6 DEF ProcessOutput
  <2>7. CASE RecordEnd
    BY <1>0, <1>0a, <2>1, <2>7 DEF RecordEnd, Record, Commit, Fault
  <2>8. CASE RecordNew
    BY <1>0, <1>0a, <2>1, <2>8 DEF RecordNew, Record, Commit
  <2>9. QED
    BY <1>3, <2>2, <2>3, <2>4, <2>5, <2>6, <2>7, <2>8 DEF AgentStep
<1>4. CASE BuilderStep
  <2>1. UNCHANGED <<thread, output, outcome, stopping, buildId>>
    BY <1>4 DEF BuilderStep
  <2>2. CASE Cancel
    BY <1>0a, <2>1, <2>2 DEF Cancel
  <2>3. CASE ExitStop \/ ExitRemove
    <3>1. pc \in {"leave", "remove"} /\ cancelled' = cancelled
      BY <2>3 DEF ExitStop, ExitRemove
    <3>2. \/ UNCHANGED why /\ pc' \in {"remove", AfterExit}
          \/ ExitRaises /\ faults' > 0
      BY <1>0, <2>3 DEF ExitStop, ExitRemove, Fault
    <3>3. CASE UNCHANGED why /\ pc' \in {"remove", AfterExit}
      <4>1. why \in {"ended", "stop"} => pc' \in {"remove", "left"}
        BY <3>3 DEF AfterExit
      <4>2. why \notin {"ended", "stop"} =>
                why \in {"shutdown", "error"} /\ pc' \in {"remove", "record"}
        BY <1>0, <3>1, <3>3 DEF AfterExit, Why
      <4>3. QED
        BY <1>0a, <2>1, <3>1, <3>3, <4>1, <4>2
    <3>4. CASE ExitRaises /\ faults' > 0
      BY <1>0, <2>1, <3>1, <3>4 DEF ExitRaises
    <3>5. QED
      BY <3>2, <3>3, <3>4
  <2>4. QED
    BY <1>4, <2>2, <2>3 DEF BuilderStep
<1>5. CASE ShutdownStep
  BY <1>0a, <1>5 DEF ShutdownStep, Shutdown
<1>6. CASE PublishStep
  <2>1. /\ UNCHANGED <<thread, output, cancelled, stopping, outcome>>
        /\ faults' > 0
    BY <1>0, <1>6 DEF PublishStep, PublishRaises, Fault, threadVars
  <2>2. CASE /\ pc \in {"store", "storeLast", "message"}
             /\ DoneStoring \/ GiveUpStoring
             /\ UNCHANGED buildId
    BY <2>1, <2>2, StoredExplained
  <2>3. CASE /\ pc = "leave" /\ why = "stop"
             /\ pc' = "wait" /\ why' = "none"
    BY <2>1, <2>3
  <2>4. CASE /\ pc = "leave" /\ pc' = "leave" /\ why' = "error"
             /\ buildId' \in {"set", buildId}
    BY <2>1, <2>4
  <2>5. QED
    BY <1>6, <2>2, <2>3, <2>4 DEF PublishStep, PublishRaises
<1>7. CASE \/ ContainerStep \/ LoopStops \/ EventStep \/ BrowserJoins
           \/ UserStops \/ UNCHANGED vars
  <2>1. UNCHANGED <<thread, output, cancelled, agentVars>>
        /\ (stopping' = stopping \/ stopping' = TRUE)
    BY <1>7 DEF ContainerStep, LoopStops, EventStep, BrowserJoins, UserStops,
       vars, threadVars
  <2>2. stopping => stopping'
    <3>1. CASE stopping' = stopping
      BY <3>1
    <3>2. CASE stopping' = TRUE
      BY <3>2
    <3>3. QED
      BY <2>1, <3>1, <3>2
  <2>3. UNCHANGED <<pc, why, outcome, buildId>>
    BY <2>1 DEF agentVars
  <2>4. QED
    BY <1>0a, <2>1, <2>2, <2>3
<1>8. QED
  BY <1>1, <1>2, <1>3, <1>4, <1>5, <1>6, <1>7 DEF Next

LEMMA ExplainedAlways == Spec => []Explained
<1>1. Init => Explained
  BY DEF Init, Explained, OutcomeExplained, Reasons
<1>2. QED
  BY <1>1, InitSound, StepSound, ExplainedStep, PTL DEF Spec

(* The outcome of a build is what has happened to it, whatever failed and  *)
(* whoever stopped it meanwhile.                                           *)
THEOREM OutcomesExplained == Spec => []OutcomeExplained
<1>1. Explained => OutcomeExplained
  BY DEF Explained
<1>2. QED
  BY <1>1, ExplainedAlways, PTL

(* Each build gets one outcome from its agent, unless something fails      *)
(* after the first, and none when the id of the build is cleared.          *)
THEOREM OutcomesFinal == Spec => OutcomeFinal
<1> DEFINE Once == \/ outcome = "none"
                   \/ /\ faults > 0 /\ buildId = "set"
                      /\ \/ outcome \in {"success", "error"} /\ outcome' = "new"
                         \/ outcome = "stopped"
<1>1. ASSUME IInv, Explained, Next, outcome' # outcome PROVE Once
  <2>1. CASE RecordStop \/ RecordEnd
    BY <1>1, <2>1 DEF RecordStop, RecordEnd, Record, Explained, Reasons, Leaving,
       IInv, TypeOK
  <2>2. CASE RecordNew
    BY <1>1, <2>2 DEF RecordNew, Record, Commit, Explained, Reasons, IInv, TypeOK
  <2>3. QED
    BY <1>1, <2>1, <2>2 DEF Next, ThreadStep, Submit, ContainerStep, AgentStep,
       BuilderStep, ShutdownStep, LoopStops, EventStep, PublishStep,
       PublishRaises, BrowserJoins, UserStops, agentVars, CollectLines,
       StoreLine, StoredAll, CheckStopping, ProcessOutput
<1>2. IInv /\ Explained /\ [Next]_vars => [outcome' # outcome => Once]_vars
  BY <1>1
<1>3. QED
  BY <1>2, InitSound, StepSound, ExplainedAlways, PTL DEF Spec, OutcomeFinal

-----------------------------------------------------------------------------
(* The events.  What stands behind FeedComplete: when no event is under    *)
(* way, the browser has been sent every line stored after it subscribed,   *)
(* and shows the outcome, unless something failed.  And it is never sent a *)
(* line which is not stored: every event names a row that is committed.    *)
FeedKept ==
    /\ Len(stored) < NotJoined
    /\ shown \subseteq 1..Len(stored)
    /\ announce \cup feed \subseteq 0..Len(stored)
    /\ faults = 0 /\ joined # NotJoined =>
        /\ \A row \in 1..Len(stored) :
              row > joined => row \in shown \cup announce \cup feed
        /\ joined < Len(stored) =>
              shownStatus = outcome \/ BuildRow \in announce \cup feed

(* An event is published before the agent goes on to store something else; *)
(* the status is not announced before it is recorded.                      *)
Quiet ==
    /\ announce # {} => pc \in {"store", "storeLast", "message", "leave", "left"}
    /\ outcome = "none" => shownStatus = "none"
    /\ BuildRow \in announce \cup feed => outcome # "none"

(* A table is not longer than the output, whose lines it holds in order;   *)
(* this keeps the number of rows apart from NotJoined.                     *)
Short == \A i \in DOMAIN stored : i <= stored[i].content

LEMMA ElementsTyped ==
    ASSUME NEW S, NEW s \in Seq(S) PROVE \A i \in DOMAIN s : s[i] \in S
  OBVIOUS

LEMMA ShortStep ==
    ASSUME IInv, IInv', Short, LogFaithful', AgentStep PROVE Short'
<1>1. CASE UNCHANGED stored
  BY <1>1 DEF Short
<1>2. CASE StoreLine /\ stored' # stored
  <2> DEFINE n == Len(stored)
             e == [number |-> counter, content |-> Head(batch)]
  <2>1. stored' = Append(stored, e)
    BY <1>2 DEF StoreLine
  <2>2. /\ DOMAIN stored = 1..n /\ n \in Nat /\ DOMAIN stored' = 1..(n + 1)
        /\ \A i \in 1..n : stored'[i] = stored[i]
    <3>1. e \in [number : Nat, content : 1..Message]
      BY <1>2, NonEmpty DEF StoreLine, IInv, TypeOK
    <3>2. QED
      BY <2>1, <3>1, AppendHolds DEF IInv, TypeOK
  <2>3. \A i \in 1..(n + 1) : stored'[i].content \in 1..Message
    <3>1. stored' \in Seq([number : Nat, content : 1..Message])
      BY DEF IInv, TypeOK
    <3>2. \A i \in DOMAIN stored' :
              stored'[i] \in [number : Nat, content : 1..Message]
      BY <3>1, ElementsTyped
    <3>3. QED
      BY <2>2, <3>2
  <2>4. n + 1 <= stored'[n + 1].content
    <3>1. CASE n = 0
      BY <2>3, <3>1
    <3>2. CASE n # 0
      <4>1. n \in DOMAIN stored' /\ n + 1 \in DOMAIN stored' /\ n < n + 1
        BY <2>2, <3>2
      <4>2. stored'[n].content < stored'[n + 1].content
        BY <4>1 DEF LogFaithful
      <4>3. n <= stored'[n].content
        BY <2>2, <3>2 DEF Short
      <4>4. QED
        BY <2>2, <2>3, <3>2, <4>2, <4>3
    <3>3. QED
      BY <3>1, <3>2
  <2>5. QED
    BY <2>2, <2>4 DEF Short
<1>3. QED
  BY <1>1, <1>2 DEF AgentStep, CollectLines, StoredAll, CheckStopping,
     RecordStop, ProcessOutput, RecordEnd, RecordNew

(* Neither line nor event. *)
LEMMA FeedSame ==
    ASSUME IInv, FeedKept, Quiet, Next, UNCHANGED <<feedVars, stored, outcome>>,
           announce = {} \/ pc' = pc
    PROVE  FeedKept' /\ Quiet'
<1>1. faults' = 0 => faults = 0
  BY FaultsGrow
<1>2. QED
  BY <1>1 DEF FeedKept, Quiet, feedVars

(* The agent stores a line or an outcome, when what it stored before has   *)
(* been published.                                                         *)
LEMMA FeedAgent ==
    ASSUME IInv, IInv', Reasons, Short', FeedKept, Quiet, Next, AgentStep
    PROVE  FeedKept' /\ Quiet'
<1>1. faults' = 0 => faults = 0
  BY FaultsGrow
<1>2. UNCHANGED <<feed, joined, shown, shownStatus>>
  BY DEF AgentStep
<1>3. Len(stored) \in Nat
  BY DEF IInv, TypeOK
<1>4. CASE StoreLine /\ stored' # stored
  <2> DEFINE n == Len(stored)
             e == [number |-> counter, content |-> Head(batch)]
  <2>1. /\ stored' = Append(stored, e) /\ announce' = {n + 1}
        /\ announce = {} /\ UNCHANGED <<pc, outcome>>
        /\ pc \in {"store", "storeLast", "message"}
    BY <1>4 DEF StoreLine
  <2>2. Len(stored') = n + 1
    <3>1. e \in [number : Nat, content : 1..Message]
      BY <1>4, NonEmpty DEF StoreLine, IInv, TypeOK
    <3>2. QED
      BY <2>1, <3>1 DEF IInv, TypeOK
  <2>3. faults' = 0 => outcome = "none" /\ shownStatus = "none"
    BY <1>1, <2>1 DEF Reasons, Leaving, Quiet
  <2>4. Quiet'
    BY <1>2, <1>3, <2>1 DEF Quiet, BuildRow
  <2>5. FeedKept'
    <3>0. n + 1 < NotJoined
      <4>1. stored' \in Seq([number : Nat, content : 1..Message])
        BY DEF IInv, TypeOK
      <4>2. n + 1 \in DOMAIN stored'
        BY <1>3, <2>2, <4>1
      <4>3. stored'[n + 1] \in [number : Nat, content : 1..Message]
        BY <4>1, <4>2, ElementsTyped
      <4>4. n + 1 <= stored'[n + 1].content
        BY <4>2 DEF Short
      <4>5. QED
        BY <1>3, <4>3, <4>4, MaxLinesAssumption DEF Message, NotJoined
    <3>1. /\ shown' \subseteq 1..(n + 1)
          /\ announce' \cup feed' \subseteq 0..(n + 1)
      BY <1>2, <1>3, <2>1 DEF FeedKept
    <3>2. ASSUME faults' = 0, joined # NotJoined, NEW row \in 1..(n + 1),
                 row > joined
          PROVE  row \in shown \cup announce' \cup feed
      BY <1>1, <1>3, <2>1, <3>2 DEF FeedKept
    <3>3. QED
      BY <1>2, <2>1, <2>2, <2>3, <3>0, <3>1, <3>2 DEF FeedKept
  <2>6. QED
    BY <2>4, <2>5
<1>5. CASE (RecordStop \/ RecordEnd \/ RecordNew) /\ announce' # announce
  <2>1. announce = {}
    BY <1>5 DEF RecordStop, RecordEnd, RecordNew, Quiet
  <2>2. /\ announce' = {BuildRow} /\ stored' = stored /\ outcome' # "none"
        /\ pc' \in {"leave", "left"}
    BY <1>5 DEF RecordStop, RecordEnd, RecordNew, Record, Commit,
       LeaveBlock, Goto
  <2>3. QED
    BY <1>1, <1>2, <1>3, <2>1, <2>2 DEF FeedKept, Quiet, BuildRow
<1>6. CASE UNCHANGED <<stored, announce, outcome>>
  <2>1. announce = {} \/ pc' = pc
    BY <1>6 DEF AgentStep, CollectLines, StoreLine, StoredAll, CheckStopping,
       RecordStop, ProcessOutput, RecordEnd, RecordNew, Quiet
  <2>2. QED
    BY <1>2, <1>6, <2>1, FeedSame DEF feedVars
<1>7. CASE (RecordStop \/ RecordEnd \/ RecordNew) /\ announce' = announce
  <2>1. UNCHANGED <<stored, outcome>>
    BY <1>7 DEF RecordStop, RecordEnd, RecordNew, Record, Commit, Quiet
  <2>2. QED
    BY <1>6, <1>7, <2>1
<1>8. QED
  BY <1>4, <1>5, <1>6, <1>7 DEF AgentStep, CollectLines, StoreLine, StoredAll,
     CheckStopping, ProcessOutput

LEMMA FeedStep ==
    ASSUME IInv, IInv', Reasons, Short', FeedKept, Quiet, [Next]_vars
    PROVE  FeedKept' /\ Quiet'
<1>1. CASE UNCHANGED vars
  BY <1>1 DEF vars, feedVars, agentVars, FeedKept, Quiet
<1> SUFFICES ASSUME Next PROVE FeedKept' /\ Quiet'
  BY <1>1
<1>2. faults' = 0 => faults = 0
  BY FaultsGrow
<1>3. Len(stored) \in Nat
  BY DEF IInv, TypeOK
<1>4. CASE AgentStep
  BY <1>4, FeedAgent
<1>5. ASSUME EventStep PROVE FeedKept' /\ Quiet'
  <2>1. UNCHANGED <<stored, outcome, pc>>
    BY <1>5 DEF EventStep, agentVars
  <2>2. CASE Publish
    <3>1. /\ announce' = {} /\ UNCHANGED <<joined, shown, shownStatus>>
          /\ feed' \subseteq feed \cup announce
      BY <2>2 DEF Publish
    <3>2. Quiet'
      BY <2>1, <3>1 DEF Quiet
    <3>3. faults' = 0 /\ joined # NotJoined => feed' = feed \cup announce
      BY <1>2, <2>2, MaxFaultsAssumption DEF Publish, Fault, IInv, TypeOK
    <3>4. FeedKept'
      BY <1>2, <2>1, <3>1, <3>3 DEF FeedKept
    <3>5. QED
      BY <3>2, <3>4
  <2>3. ASSUME NEW row \in feed, Deliver(row) PROVE FeedKept' /\ Quiet'
    <3>1. /\ feed' = feed \ {row} /\ UNCHANGED <<announce, joined>>
          /\ shown \subseteq shown' /\ shown' \subseteq shown \cup {row}
          /\ shown' # shown => row \in 1..Len(stored)
          /\ shownStatus' \in {shownStatus, outcome}
      BY <2>3 DEF Deliver
    <3>2. faults' = 0 => /\ row \in 1..Len(stored) => row \in shown'
                         /\ shownStatus' = IF row = BuildRow THEN outcome
                                                            ELSE shownStatus
      BY <1>2, <2>3, MaxFaultsAssumption DEF Deliver, Fault, IInv, TypeOK
    <3>3. Quiet'
      BY <2>1, <3>1 DEF Quiet
    <3>4. FeedKept'
      BY <1>2, <1>3, <2>1, <3>1, <3>2 DEF FeedKept
    <3>5. QED
      BY <3>3, <3>4
  <2>4. QED
    BY <1>5, <2>2, <2>3 DEF EventStep
<1>6. CASE BrowserJoins
  <2>1. /\ joined' = Len(stored)
        /\ UNCHANGED <<stored, outcome, pc, announce, feed, shown, shownStatus>>
    BY <1>6 DEF BrowserJoins, Join, agentVars
  <2>2. QED
    BY <1>3, <2>1 DEF FeedKept, Quiet
<1>7. CASE \/ ThreadStep \/ Submit \/ ContainerStep \/ LoopStops \/ UserStops
           \/ BuilderStep \/ ShutdownStep
  <2>1. UNCHANGED <<feedVars, stored, outcome>>
    BY <1>7 DEF ThreadStep, Submit, ContainerStep, LoopStops, UserStops,
       BuilderStep, ShutdownStep, Shutdown, agentVars
  <2>2. announce = {} \/ pc' = pc
    BY <1>7 DEF ThreadStep, Submit, ContainerStep, LoopStops, UserStops,
       BuilderStep, ShutdownStep, Shutdown, agentVars, Cancel, ExitStop,
       ExitRemove, Quiet
  <2>3. QED
    BY <2>1, <2>2, FeedSame
<1>8. CASE PublishStep
  <2>1. /\ announce' = {} /\ feed' \subseteq feed \cup announce
        /\ UNCHANGED <<stored, outcome, joined, shown, shownStatus>>
        /\ faults' # 0
    BY <1>8, FaultsCount DEF PublishStep, PublishRaises, Fault
  <2>2. QED
    BY <2>1 DEF FeedKept, Quiet
<1>9. QED
  BY <1>4, <1>5, <1>6, <1>7, <1>8 DEF Next

(* Nobody who watches a build misses a line or its outcome, or sees a line *)
(* which is not in the table, however the events and the transactions of   *)
(* the agent overlap, as long as no event is lost.                         *)
THEOREM FeedsKept == Spec => []FeedKept
<1>1. Init => Short /\ FeedKept /\ Quiet
  <2> SUFFICES ASSUME Init PROVE Short /\ FeedKept /\ Quiet
    OBVIOUS
  <2>1. stored = <<>> /\ announce = {} /\ feed = {} /\ shown = {}
        /\ joined = NotJoined /\ outcome = "none" /\ shownStatus = "none"
    BY DEF Init
  <2>2. DOMAIN stored = {} /\ Len(stored) = 0
    BY <2>1, ShortHolds
  <2>3. QED
    BY <2>1, <2>2, MaxLinesAssumption DEF Short, FeedKept, Quiet, NotJoined
<1>2. IInv /\ IInv' /\ Short /\ LogFaithful' /\ [Next]_vars => Short'
  <2> SUFFICES ASSUME IInv, IInv', Short, LogFaithful', [Next]_vars
               PROVE  Short'
    OBVIOUS
  <2>1. CASE AgentStep
    BY <2>1, ShortStep
  <2>2. CASE ~AgentStep
    <3>1. UNCHANGED stored
      BY <2>2 DEF Next, ThreadStep, Submit, ContainerStep, BuilderStep,
         ShutdownStep, Shutdown, LoopStops, EventStep, PublishStep,
         PublishRaises, BrowserJoins, UserStops, vars, agentVars
    <3>2. QED
      BY <3>1 DEF Short
  <2>3. QED
    BY <2>1, <2>2
<1>3. IInv /\ IInv' /\ Explained /\ Short' /\ FeedKept /\ Quiet /\ [Next]_vars
          => FeedKept' /\ Quiet'
  BY FeedStep DEF Explained
<1>4. QED
  BY <1>1, <1>2, <1>3, LogsFaithful, InitSound, StepSound, ExplainedAlways, PTL DEF Spec

=============================================================================
