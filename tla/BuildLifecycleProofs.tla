------------------------ MODULE BuildLifecycleProofs ------------------------
(***************************************************************************)
(* Proofs of the safety properties of BuildLifecycle, for every number of  *)
(* agents, builds, runs and faults.                                        *)
(***************************************************************************)
EXTENDS BuildLifecycle, TLAPS

(* Type correctness: in every reachable state the tables are well formed,  *)
(* an agent has a run exactly while it executes a build, and every run     *)
(* that was given out has a build.                                         *)
THEOREM TypeCorrect == Spec => []TypeOK
<1>1. Init => TypeOK
  BY SetsAssumption, MaxFaultsAssumption
  DEF Init, TypeOK, BuildStatus, RunStatus, Pc, JobBuild
<1>2. TypeOK /\ [Next]_vars => TypeOK'
  <2> SUFFICES ASSUME TypeOK, [Next]_vars PROVE TypeOK'
    OBVIOUS
  <2> USE SetsAssumption, MaxFaultsAssumption
      DEF TypeOK, BuildStatus, RunStatus, Pc, Claimed
  <2>1. ASSUME NEW a \in Agent, NEW b \in Build, NEW r \in Run, Claim(a, b, r) PROVE TypeOK'
    BY <2>1 DEF Claim, WorkersOf, Fault, Goto, Working, JobBuild
  <2>2. ASSUME NEW a \in Agent, Heartbeat(a) PROVE TypeOK'
    BY <2>2 DEF Heartbeat, agentVars, JobBuild
  <2>3. ASSUME NEW a \in Agent, TaskDone(a) PROVE TypeOK'
    BY <2>3 DEF TaskDone, Goto, dbVars, JobBuild
  <2>4. ASSUME NEW a \in Agent, SeeStopping(a) PROVE TypeOK'
    BY <2>4 DEF SeeStopping, JobBuild, Goto, dbVars
  <2>5. ASSUME NEW a \in Agent, RecordStop(a) PROVE TypeOK'
    BY <2>5 DEF RecordStop, JobBuild, Fault, Goto, Leave
  <2>6. ASSUME NEW a \in Agent, RetriggerRead(a) PROVE TypeOK'
    BY <2>6 DEF RetriggerRead, Goto, dbVars, JobBuild
  <2>7. ASSUME NEW a \in Agent, RetriggerWrite(a) PROVE TypeOK'
    BY <2>7 DEF RetriggerWrite, Goto, JobBuild
  <2>8. ASSUME NEW a \in Agent, RecordSuccess(a) PROVE TypeOK'
    BY <2>8 DEF RecordSuccess, Goto, SetBuildStatus, Fault, JobBuild
  <2>9. ASSUME NEW a \in Agent, RecordFailure(a) PROVE TypeOK'
    BY <2>9 DEF RecordFailure, Goto, SetBuildStatus, Fault, JobBuild
  <2>10. ASSUME NEW a \in Agent, Close(a) PROVE TypeOK'
    BY <2>10 DEF Close, Leave, Goto, dbVars, JobBuild
  <2>11. ASSUME NEW a \in Agent, Cancel(a) PROVE TypeOK'
    BY <2>11 DEF Cancel, Leave, Goto, dbVars, JobBuild
  <2>12. ASSUME NEW a \in Agent, RecordCancel(a) PROVE TypeOK'
    BY <2>12 DEF RecordCancel, Leave, SetBuildStatus, Fault, JobBuild, Goto
  <2>13. ASSUME NEW a \in Agent, Break(a) PROVE TypeOK'
    BY <2>13 DEF Break, JobBuild, Fault, Goto, dbVars
  <2>14. ASSUME NEW a \in Agent, RecordBreak(a) PROVE TypeOK'
    BY <2>14 DEF RecordBreak, Leave, SetBuildStatus, Fault, JobBuild, Goto
  <2>15. ASSUME NEW a \in Agent, Crash(a) PROVE TypeOK'
    BY <2>15 DEF Crash, Fault, Leave, Goto, dbVars, JobBuild
  <2>16. ASSUME NEW a \in Agent, Restart(a) PROVE TypeOK'
    BY <2>16 DEF Restart, Goto, dbVars, JobBuild
  <2>17. ASSUME NEW r \in Run, Expire(r) PROVE TypeOK'
    BY <2>17 DEF Expire, Held, agentVars, JobBuild
  <2>18. ASSUME WatchdogRead PROVE TypeOK'
    BY <2>18 DEF WatchdogRead, dbVars, agentVars, JobBuild
  <2>19. ASSUME WatchdogCommit PROVE TypeOK'
    BY <2>19 DEF WatchdogCommit, SeenBuilds, agentVars, JobBuild
  <2>20. ASSUME WatchdogFail PROVE TypeOK'
    BY <2>20 DEF WatchdogFail, Fault, dbVars, agentVars, JobBuild
  <2>21. ASSUME NEW b \in Build, StopRequest(b) PROVE TypeOK'
    BY <2>21 DEF StopRequest, agentVars, JobBuild
  <2>22. ASSUME NEW b \in Build, RestartRequest(b) PROVE TypeOK'
    BY <2>22 DEF RestartRequest, agentVars, JobBuild
  <2>23. CASE UNCHANGED vars
    BY <2>23 DEF vars, dbVars, agentVars, JobBuild
  <2>24. QED
    BY <2>1, <2>2, <2>3, <2>4, <2>5, <2>6, <2>7, <2>8, <2>9, <2>10, <2>11, <2>12, <2>13, <2>14, <2>15, <2>16, <2>17, <2>18, <2>19, <2>20, <2>21, <2>22, <2>23
    DEF Next, AgentNext, WatchdogNext, UserNext
<1>3. QED
  BY <1>1, <1>2, PTL DEF Spec

(* At most one agent executes a build nobody interfered with, its status   *)
(* is active or stopping meanwhile, and its run is active.                 *)
THEOREM ExclusiveClaims == Spec => []ExclusiveClaim
<1>1. Init => ExclusiveClaim
  BY DEF Init, ExclusiveClaim, WorkersOf, Working
<1>2. TypeOK /\ TypeOK' /\ ExclusiveClaim /\ [Next]_vars => ExclusiveClaim'
  <2> SUFFICES ASSUME TypeOK, TypeOK', ExclusiveClaim, [Next]_vars PROVE ExclusiveClaim'
    OBVIOUS
  <2> USE SetsAssumption DEF TypeOK, ExclusiveClaim, Claimed
  <2>1. ASSUME NEW a \in Agent, NEW b \in Build, NEW r \in Run, Claim(a, b, r) PROVE ExclusiveClaim'
    BY <2>1 DEF Claim, WorkersOf, Fault, Goto, Working, JobBuild
  <2>2. ASSUME NEW a \in Agent, Heartbeat(a) PROVE ExclusiveClaim'
    BY <2>2 DEF Heartbeat, agentVars, WorkersOf, Working, JobBuild
  <2>3. ASSUME NEW a \in Agent, TaskDone(a) PROVE ExclusiveClaim'
    BY <2>3 DEF TaskDone, Goto, dbVars, WorkersOf, Working, JobBuild
  <2>4. ASSUME NEW a \in Agent, SeeStopping(a) PROVE ExclusiveClaim'
    BY <2>4 DEF SeeStopping, JobBuild, Goto, dbVars, WorkersOf, Working
  <2>5. ASSUME NEW a \in Agent, RecordStop(a) PROVE ExclusiveClaim'
    BY <2>5 DEF RecordStop, JobBuild, Fault, Goto, Leave, WorkersOf, Working
  <2>6. ASSUME NEW a \in Agent, RetriggerRead(a) PROVE ExclusiveClaim'
    BY <2>6 DEF RetriggerRead, Goto, dbVars, WorkersOf, Working, JobBuild
  <2>7. ASSUME NEW a \in Agent, RetriggerWrite(a) PROVE ExclusiveClaim'
    BY <2>7 DEF RetriggerWrite, Goto, WorkersOf, Working, JobBuild
  <2>8. ASSUME NEW a \in Agent, RecordSuccess(a) PROVE ExclusiveClaim'
    BY <2>8 DEF RecordSuccess, Goto, SetBuildStatus, Fault, JobBuild, WorkersOf, Working
  <2>9. ASSUME NEW a \in Agent, RecordFailure(a) PROVE ExclusiveClaim'
    BY <2>9 DEF RecordFailure, Goto, SetBuildStatus, Fault, JobBuild, WorkersOf, Working
  <2>10. ASSUME NEW a \in Agent, Close(a) PROVE ExclusiveClaim'
    BY <2>10 DEF Close, Leave, Goto, dbVars, WorkersOf, Working, JobBuild
  <2>11. ASSUME NEW a \in Agent, Cancel(a) PROVE ExclusiveClaim'
    BY <2>11 DEF Cancel, Leave, Goto, dbVars, WorkersOf, Working, JobBuild
  <2>12. ASSUME NEW a \in Agent, RecordCancel(a) PROVE ExclusiveClaim'
    BY <2>12 DEF RecordCancel, Leave, SetBuildStatus, Fault, JobBuild, Goto, WorkersOf, Working
  <2>13. ASSUME NEW a \in Agent, Break(a) PROVE ExclusiveClaim'
    BY <2>13 DEF Break, JobBuild, Fault, Goto, dbVars, WorkersOf, Working
  <2>14. ASSUME NEW a \in Agent, RecordBreak(a) PROVE ExclusiveClaim'
    BY <2>14 DEF RecordBreak, Leave, SetBuildStatus, Fault, JobBuild, Goto, WorkersOf, Working
  <2>15. ASSUME NEW a \in Agent, Crash(a) PROVE ExclusiveClaim'
    BY <2>15 DEF Crash, Fault, Leave, Goto, dbVars, WorkersOf, Working, JobBuild
  <2>16. ASSUME NEW a \in Agent, Restart(a) PROVE ExclusiveClaim'
    BY <2>16 DEF Restart, Goto, dbVars, WorkersOf, Working, JobBuild
  <2>17. ASSUME NEW r \in Run, Expire(r) PROVE ExclusiveClaim'
    BY <2>17 DEF Expire, Held, agentVars, WorkersOf, Working, JobBuild
  <2>18. ASSUME WatchdogRead PROVE ExclusiveClaim'
    BY <2>18 DEF WatchdogRead, dbVars, agentVars, WorkersOf, Working, JobBuild
  <2>19. ASSUME WatchdogCommit PROVE ExclusiveClaim'
    BY <2>19 DEF WatchdogCommit, SeenBuilds, agentVars, WorkersOf, Working, JobBuild
  <2>20. ASSUME WatchdogFail PROVE ExclusiveClaim'
    BY <2>20 DEF WatchdogFail, Fault, dbVars, agentVars, WorkersOf, Working, JobBuild
  <2>21. ASSUME NEW b \in Build, StopRequest(b) PROVE ExclusiveClaim'
    BY <2>21 DEF StopRequest, agentVars, WorkersOf, Working, JobBuild
  <2>22. ASSUME NEW b \in Build, RestartRequest(b) PROVE ExclusiveClaim'
    BY <2>22 DEF RestartRequest, agentVars, WorkersOf, Working, JobBuild
  <2>23. CASE UNCHANGED vars
    BY <2>23 DEF vars, dbVars, agentVars, WorkersOf, Working, JobBuild
  <2>24. QED
    BY <2>1, <2>2, <2>3, <2>4, <2>5, <2>6, <2>7, <2>8, <2>9, <2>10, <2>11, <2>12, <2>13, <2>14, <2>15, <2>16, <2>17, <2>18, <2>19, <2>20, <2>21, <2>22, <2>23
    DEF Next, AgentNext, WatchdogNext, UserNext
<1>3. QED
  BY <1>1, <1>2, TypeCorrect, PTL DEF Spec

(* A build which counts as successful or failed has a run that ended so.   *)
THEOREM OutcomesHaveRuns == Spec => []OutcomeHasRun
<1>1. Init => OutcomeHasRun
  BY DEF Init, OutcomeHasRun
<1>2. TypeOK /\ TypeOK' /\ OutcomeHasRun /\ [Next]_vars => OutcomeHasRun'
  <2> SUFFICES ASSUME TypeOK, TypeOK', OutcomeHasRun, [Next]_vars PROVE OutcomeHasRun'
    OBVIOUS
  <2> USE SetsAssumption DEF TypeOK, OutcomeHasRun, Claimed
  <2>1. ASSUME NEW a \in Agent, NEW b \in Build, NEW r \in Run, Claim(a, b, r) PROVE OutcomeHasRun'
    BY <2>1 DEF Claim, WorkersOf, Fault, Goto, Working, JobBuild
  <2>2. ASSUME NEW a \in Agent, Heartbeat(a) PROVE OutcomeHasRun'
    BY <2>2 DEF Heartbeat, agentVars, JobBuild
  <2>3. ASSUME NEW a \in Agent, TaskDone(a) PROVE OutcomeHasRun'
    BY <2>3 DEF TaskDone, Goto, dbVars, JobBuild
  <2>4. ASSUME NEW a \in Agent, SeeStopping(a) PROVE OutcomeHasRun'
    BY <2>4 DEF SeeStopping, JobBuild, Goto, dbVars
  <2>5. ASSUME NEW a \in Agent, RecordStop(a) PROVE OutcomeHasRun'
    BY <2>5 DEF RecordStop, JobBuild, Fault, Goto, Leave
  <2>6. ASSUME NEW a \in Agent, RetriggerRead(a) PROVE OutcomeHasRun'
    BY <2>6 DEF RetriggerRead, Goto, dbVars, JobBuild
  <2>7. ASSUME NEW a \in Agent, RetriggerWrite(a) PROVE OutcomeHasRun'
    BY <2>7 DEF RetriggerWrite, Goto, JobBuild
  <2>8. ASSUME NEW a \in Agent, RecordSuccess(a) PROVE OutcomeHasRun'
    BY <2>8 DEF RecordSuccess, Goto, SetBuildStatus, Fault, JobBuild
  <2>9. ASSUME NEW a \in Agent, RecordFailure(a) PROVE OutcomeHasRun'
    BY <2>9 DEF RecordFailure, Goto, SetBuildStatus, Fault, JobBuild
  <2>10. ASSUME NEW a \in Agent, Close(a) PROVE OutcomeHasRun'
    BY <2>10 DEF Close, Leave, Goto, dbVars, JobBuild
  <2>11. ASSUME NEW a \in Agent, Cancel(a) PROVE OutcomeHasRun'
    BY <2>11 DEF Cancel, Leave, Goto, dbVars, JobBuild
  <2>12. ASSUME NEW a \in Agent, RecordCancel(a) PROVE OutcomeHasRun'
    BY <2>12 DEF RecordCancel, Leave, SetBuildStatus, Fault, JobBuild, Goto
  <2>13. ASSUME NEW a \in Agent, Break(a) PROVE OutcomeHasRun'
    BY <2>13 DEF Break, JobBuild, Fault, Goto, dbVars
  <2>14. ASSUME NEW a \in Agent, RecordBreak(a) PROVE OutcomeHasRun'
    BY <2>14 DEF RecordBreak, Leave, SetBuildStatus, Fault, JobBuild, Goto
  <2>15. ASSUME NEW a \in Agent, Crash(a) PROVE OutcomeHasRun'
    BY <2>15 DEF Crash, Fault, Leave, Goto, dbVars, JobBuild
  <2>16. ASSUME NEW a \in Agent, Restart(a) PROVE OutcomeHasRun'
    BY <2>16 DEF Restart, Goto, dbVars, JobBuild
  <2>17. ASSUME NEW r \in Run, Expire(r) PROVE OutcomeHasRun'
    BY <2>17 DEF Expire, Held, agentVars, JobBuild
  <2>18. ASSUME WatchdogRead PROVE OutcomeHasRun'
    BY <2>18 DEF WatchdogRead, dbVars, agentVars, JobBuild
  <2>19. ASSUME WatchdogCommit PROVE OutcomeHasRun'
    BY <2>19 DEF WatchdogCommit, SeenBuilds, agentVars, JobBuild
  <2>20. ASSUME WatchdogFail PROVE OutcomeHasRun'
    BY <2>20 DEF WatchdogFail, Fault, dbVars, agentVars, JobBuild
  <2>21. ASSUME NEW b \in Build, StopRequest(b) PROVE OutcomeHasRun'
    BY <2>21 DEF StopRequest, agentVars, JobBuild
  <2>22. ASSUME NEW b \in Build, RestartRequest(b) PROVE OutcomeHasRun'
    BY <2>22 DEF RestartRequest, agentVars, JobBuild
  <2>23. CASE UNCHANGED vars
    BY <2>23 DEF vars, dbVars, agentVars, JobBuild
  <2>24. QED
    BY <2>1, <2>2, <2>3, <2>4, <2>5, <2>6, <2>7, <2>8, <2>9, <2>10, <2>11, <2>12, <2>13, <2>14, <2>15, <2>16, <2>17, <2>18, <2>19, <2>20, <2>21, <2>22, <2>23
    DEF Next, AgentNext, WatchdogNext, UserNext
<1>3. QED
  BY <1>1, <1>2, TypeCorrect, PTL DEF Spec

(* A claimed build has a run, which is how the watchdog finds it.          *)
ClaimHasRun ==
    \A b \in Build : buildStatus[b] \in Claimed => \E r \in Run : runBuild[r] = b

(* Every claim comes with the insertion of a run, and runs stay.           *)
LEMMA ClaimsHaveRuns == Spec => []ClaimHasRun
<1>1. Init => ClaimHasRun
  BY DEF Init, ClaimHasRun, Claimed
<1>2. TypeOK /\ TypeOK' /\ ClaimHasRun /\ [Next]_vars => ClaimHasRun'
  <2> SUFFICES ASSUME TypeOK, TypeOK', ClaimHasRun, [Next]_vars PROVE ClaimHasRun'
    OBVIOUS
  <2> USE SetsAssumption DEF TypeOK, ClaimHasRun, Claimed
  <2>1. ASSUME NEW a \in Agent, NEW b \in Build, NEW r \in Run, Claim(a, b, r) PROVE ClaimHasRun'
    BY <2>1 DEF Claim, WorkersOf, Fault, Goto, Working, JobBuild
  <2>2. ASSUME NEW a \in Agent, Heartbeat(a) PROVE ClaimHasRun'
    BY <2>2 DEF Heartbeat, agentVars, JobBuild
  <2>3. ASSUME NEW a \in Agent, TaskDone(a) PROVE ClaimHasRun'
    BY <2>3 DEF TaskDone, Goto, dbVars, JobBuild
  <2>4. ASSUME NEW a \in Agent, SeeStopping(a) PROVE ClaimHasRun'
    BY <2>4 DEF SeeStopping, JobBuild, Goto, dbVars
  <2>5. ASSUME NEW a \in Agent, RecordStop(a) PROVE ClaimHasRun'
    BY <2>5 DEF RecordStop, JobBuild, Fault, Goto, Leave
  <2>6. ASSUME NEW a \in Agent, RetriggerRead(a) PROVE ClaimHasRun'
    BY <2>6 DEF RetriggerRead, Goto, dbVars, JobBuild
  <2>7. ASSUME NEW a \in Agent, RetriggerWrite(a) PROVE ClaimHasRun'
    BY <2>7 DEF RetriggerWrite, Goto, JobBuild
  <2>8. ASSUME NEW a \in Agent, RecordSuccess(a) PROVE ClaimHasRun'
    BY <2>8 DEF RecordSuccess, Goto, SetBuildStatus, Fault, JobBuild
  <2>9. ASSUME NEW a \in Agent, RecordFailure(a) PROVE ClaimHasRun'
    BY <2>9 DEF RecordFailure, Goto, SetBuildStatus, Fault, JobBuild
  <2>10. ASSUME NEW a \in Agent, Close(a) PROVE ClaimHasRun'
    BY <2>10 DEF Close, Leave, Goto, dbVars, JobBuild
  <2>11. ASSUME NEW a \in Agent, Cancel(a) PROVE ClaimHasRun'
    BY <2>11 DEF Cancel, Leave, Goto, dbVars, JobBuild
  <2>12. ASSUME NEW a \in Agent, RecordCancel(a) PROVE ClaimHasRun'
    BY <2>12 DEF RecordCancel, Leave, SetBuildStatus, Fault, JobBuild, Goto
  <2>13. ASSUME NEW a \in Agent, Break(a) PROVE ClaimHasRun'
    BY <2>13 DEF Break, JobBuild, Fault, Goto, dbVars
  <2>14. ASSUME NEW a \in Agent, RecordBreak(a) PROVE ClaimHasRun'
    BY <2>14 DEF RecordBreak, Leave, SetBuildStatus, Fault, JobBuild, Goto
  <2>15. ASSUME NEW a \in Agent, Crash(a) PROVE ClaimHasRun'
    BY <2>15 DEF Crash, Fault, Leave, Goto, dbVars, JobBuild
  <2>16. ASSUME NEW a \in Agent, Restart(a) PROVE ClaimHasRun'
    BY <2>16 DEF Restart, Goto, dbVars, JobBuild
  <2>17. ASSUME NEW r \in Run, Expire(r) PROVE ClaimHasRun'
    BY <2>17 DEF Expire, Held, agentVars, JobBuild
  <2>18. ASSUME WatchdogRead PROVE ClaimHasRun'
    BY <2>18 DEF WatchdogRead, dbVars, agentVars, JobBuild
  <2>19. ASSUME WatchdogCommit PROVE ClaimHasRun'
    BY <2>19 DEF WatchdogCommit, SeenBuilds, agentVars, JobBuild
  <2>20. ASSUME WatchdogFail PROVE ClaimHasRun'
    BY <2>20 DEF WatchdogFail, Fault, dbVars, agentVars, JobBuild
  <2>21. ASSUME NEW b \in Build, StopRequest(b) PROVE ClaimHasRun'
    BY <2>21 DEF StopRequest, agentVars, JobBuild
  <2>22. ASSUME NEW b \in Build, RestartRequest(b) PROVE ClaimHasRun'
    BY <2>22 DEF RestartRequest, agentVars, JobBuild
  <2>23. CASE UNCHANGED vars
    BY <2>23 DEF vars, dbVars, agentVars, JobBuild
  <2>24. QED
    BY <2>1, <2>2, <2>3, <2>4, <2>5, <2>6, <2>7, <2>8, <2>9, <2>10, <2>11, <2>12, <2>13, <2>14, <2>15, <2>16, <2>17, <2>18, <2>19, <2>20, <2>21, <2>22, <2>23
    DEF Next, AgentNext, WatchdogNext, UserNext
<1>3. QED
  BY <1>1, <1>2, TypeCorrect, PTL DEF Spec

(* The builds whose runs are not updated any more, and what the watchdog   *)
(* has found.                                                              *)
Silent(b) == \A r \in Run : runBuild[r] = b => r \notin fresh
Found == SeenBuilds("active") \cup SeenBuilds("stopping")

TakesBack ==
    /\ WatchdogRead => {b \in Build : buildStatus[b] \in Claimed /\ Silent(b)}
                         \subseteq Found'
    /\ WatchdogCommit => \A b \in Found : buildStatus'[b] \notin Claimed

(* One round of the watchdog is enough: its queries find every claimed     *)
(* build whose runs all went silent, also when the agent failed between    *)
(* the claim and the first statement of the build, or could not record the *)
(* outcome; and no build it has found stays active or stopping.  This is   *)
(* the step that OrphanRecovered and StopTakesEffect need.                 *)
THEOREM SilentBuildsTakenBack == Spec => [][TakesBack]_vars
<1>1. TypeOK /\ ClaimHasRun /\ [Next]_vars => [TakesBack]_vars
  <2> SUFFICES ASSUME TypeOK, ClaimHasRun PROVE TakesBack
    OBVIOUS
  <2>1. ASSUME WatchdogRead, NEW b \in Build, buildStatus[b] \in Claimed, Silent(b)
        PROVE  b \in Found'
    <3>1. PICK r \in Run : runBuild[r] = b
      BY <2>1 DEF ClaimHasRun
    <3>2. runStatus[r] # "none" /\ r \notin fresh
      BY <2>1, <3>1, SetsAssumption DEF TypeOK, Silent
    <3>3. seen'[r] = buildStatus[b] /\ runBuild'[r] = b
      BY <2>1, <3>1, <3>2 DEF WatchdogRead, dbVars
    <3>4. seen'[r] \in {"active", "stopping"}
      BY <2>1, <3>3 DEF Claimed
    <3>5. QED
      BY <3>3, <3>4 DEF Found, SeenBuilds
  <2>2. ASSUME WatchdogCommit, NEW b \in Found
        PROVE  buildStatus'[b] \notin Claimed
    <3>1. b \in Build
      <4>1. PICK r \in Run : seen[r] \in Claimed /\ runBuild[r] = b
        BY <2>2 DEF Found, SeenBuilds, Claimed
      <4>2. runBuild[r] # NoBuild
        BY <4>1 DEF TypeOK, Claimed
      <4>3. QED
        BY <4>1, <4>2 DEF TypeOK
    <3>2. buildStatus'[b] \in {"new", "stopped"}
      BY <2>2, <3>1 DEF WatchdogCommit, Found
    <3>3. QED
      BY <3>2 DEF Claimed
  <2>3. QED
    BY <2>1, <2>2 DEF TakesBack
<1>2. QED
  BY <1>1, TypeCorrect, ClaimsHaveRuns, PTL DEF Spec

(* What keeps the watchdog from live agents when updates come in time: the *)
(* run of an agent is fresh, and what the watchdog has read is not.        *)
HeldIsFresh ==
    Timely => /\ \A a \in Agent : jobRun[a] # NoRun => jobRun[a] \in fresh
              /\ \A r \in Run : seen[r] # "no" => r \notin fresh

(* When live agents update their runs in time, the watchdog never takes    *)
(* back a build because of the run an agent executes.                      *)
THEOREM RescueOfOlderRuns == Spec => []RescueNeedsOlderRun
<1>1. Init => HeldIsFresh
  BY DEF Init, HeldIsFresh
<1>2. TypeOK /\ TypeOK' /\ HeldIsFresh /\ [Next]_vars => HeldIsFresh'
  <2> SUFFICES ASSUME TypeOK, TypeOK', HeldIsFresh, [Next]_vars PROVE HeldIsFresh'
    OBVIOUS
  <2> USE SetsAssumption DEF TypeOK, HeldIsFresh, Claimed
  <2>1. ASSUME NEW a \in Agent, NEW b \in Build, NEW r \in Run, Claim(a, b, r) PROVE HeldIsFresh'
    BY <2>1 DEF Claim, WorkersOf, Fault, Goto, Working, JobBuild, Held
  <2>2. ASSUME NEW a \in Agent, Heartbeat(a) PROVE HeldIsFresh'
    BY <2>2 DEF Heartbeat, agentVars, Held, JobBuild
  <2>3. ASSUME NEW a \in Agent, TaskDone(a) PROVE HeldIsFresh'
    BY <2>3 DEF TaskDone, Goto, dbVars, Held, JobBuild
  <2>4. ASSUME NEW a \in Agent, SeeStopping(a) PROVE HeldIsFresh'
    BY <2>4 DEF SeeStopping, JobBuild, Goto, dbVars, Held
  <2>5. ASSUME NEW a \in Agent, RecordStop(a) PROVE HeldIsFresh'
    BY <2>5 DEF RecordStop, JobBuild, Fault, Goto, Leave, Held
  <2>6. ASSUME NEW a \in Agent, RetriggerRead(a) PROVE HeldIsFresh'
    BY <2>6 DEF RetriggerRead, Goto, dbVars, Held, JobBuild
  <2>7. ASSUME NEW a \in Agent, RetriggerWrite(a) PROVE HeldIsFresh'
    BY <2>7 DEF RetriggerWrite, Goto, Held, JobBuild
  <2>8. ASSUME NEW a \in Agent, RecordSuccess(a) PROVE HeldIsFresh'
    BY <2>8 DEF RecordSuccess, Goto, SetBuildStatus, Fault, JobBuild, Held
  <2>9. ASSUME NEW a \in Agent, RecordFailure(a) PROVE HeldIsFresh'
    BY <2>9 DEF RecordFailure, Goto, SetBuildStatus, Fault, JobBuild, Held
  <2>10. ASSUME NEW a \in Agent, Close(a) PROVE HeldIsFresh'
    BY <2>10 DEF Close, Leave, Goto, dbVars, Held, JobBuild
  <2>11. ASSUME NEW a \in Agent, Cancel(a) PROVE HeldIsFresh'
    BY <2>11 DEF Cancel, Leave, Goto, dbVars, Held, JobBuild
  <2>12. ASSUME NEW a \in Agent, RecordCancel(a) PROVE HeldIsFresh'
    BY <2>12 DEF RecordCancel, Leave, SetBuildStatus, Fault, JobBuild, Goto, Held
  <2>13. ASSUME NEW a \in Agent, Break(a) PROVE HeldIsFresh'
    BY <2>13 DEF Break, JobBuild, Fault, Goto, dbVars, Held
  <2>14. ASSUME NEW a \in Agent, RecordBreak(a) PROVE HeldIsFresh'
    BY <2>14 DEF RecordBreak, Leave, SetBuildStatus, Fault, JobBuild, Goto, Held
  <2>15. ASSUME NEW a \in Agent, Crash(a) PROVE HeldIsFresh'
    BY <2>15 DEF Crash, Fault, Leave, Goto, dbVars, Held, JobBuild
  <2>16. ASSUME NEW a \in Agent, Restart(a) PROVE HeldIsFresh'
    BY <2>16 DEF Restart, Goto, dbVars, Held, JobBuild
  <2>17. ASSUME NEW r \in Run, Expire(r) PROVE HeldIsFresh'
    BY <2>17 DEF Expire, Held, agentVars, JobBuild
  <2>18. ASSUME WatchdogRead PROVE HeldIsFresh'
    BY <2>18 DEF WatchdogRead, dbVars, agentVars, Held, JobBuild
  <2>19. ASSUME WatchdogCommit PROVE HeldIsFresh'
    BY <2>19 DEF WatchdogCommit, SeenBuilds, agentVars, Held, JobBuild
  <2>20. ASSUME WatchdogFail PROVE HeldIsFresh'
    BY <2>20 DEF WatchdogFail, Fault, dbVars, agentVars, Held, JobBuild
  <2>21. ASSUME NEW b \in Build, StopRequest(b) PROVE HeldIsFresh'
    BY <2>21 DEF StopRequest, agentVars, Held, JobBuild
  <2>22. ASSUME NEW b \in Build, RestartRequest(b) PROVE HeldIsFresh'
    BY <2>22 DEF RestartRequest, agentVars, Held, JobBuild
  <2>23. CASE UNCHANGED vars
    BY <2>23 DEF vars, dbVars, agentVars, Held, JobBuild
  <2>24. QED
    BY <2>1, <2>2, <2>3, <2>4, <2>5, <2>6, <2>7, <2>8, <2>9, <2>10, <2>11, <2>12, <2>13, <2>14, <2>15, <2>16, <2>17, <2>18, <2>19, <2>20, <2>21, <2>22, <2>23
    DEF Next, AgentNext, WatchdogNext, UserNext
<1>3. HeldIsFresh => RescueNeedsOlderRun
  BY DEF HeldIsFresh, RescueNeedsOlderRun, WorkersOf, Working
<1>4. QED
  BY <1>1, <1>2, <1>3, TypeCorrect, PTL DEF Spec

(* A stopped or successful build rests until a user restarts it.           *)
THEOREM FinishedBuildsRest == Spec => RestsUntilRestart
<1>1. TypeOK /\ TypeOK' /\ ExclusiveClaim /\ [Next]_vars => [RestsOrRestart]_vars
  <2> SUFFICES ASSUME TypeOK, TypeOK', ExclusiveClaim, [Next]_vars, vars' # vars PROVE RestsOrRestart
    OBVIOUS
  <2> USE SetsAssumption DEF TypeOK, ExclusiveClaim, RestsOrRestart, Claimed
  <2>1. ASSUME NEW a \in Agent, NEW b \in Build, NEW r \in Run, Claim(a, b, r) PROVE RestsOrRestart
    BY <2>1 DEF Claim, WorkersOf, Fault, Goto, Working, JobBuild
  <2>2. ASSUME NEW a \in Agent, Heartbeat(a) PROVE RestsOrRestart
    BY <2>2 DEF Heartbeat, agentVars, WorkersOf, Working, JobBuild
  <2>3. ASSUME NEW a \in Agent, TaskDone(a) PROVE RestsOrRestart
    BY <2>3 DEF TaskDone, Goto, dbVars, WorkersOf, Working, JobBuild
  <2>4. ASSUME NEW a \in Agent, SeeStopping(a) PROVE RestsOrRestart
    BY <2>4 DEF SeeStopping, JobBuild, Goto, dbVars, WorkersOf, Working
  <2>5. ASSUME NEW a \in Agent, RecordStop(a) PROVE RestsOrRestart
    BY <2>5 DEF RecordStop, JobBuild, Fault, Goto, Leave, WorkersOf, Working
  <2>6. ASSUME NEW a \in Agent, RetriggerRead(a) PROVE RestsOrRestart
    BY <2>6 DEF RetriggerRead, Goto, dbVars, WorkersOf, Working, JobBuild
  <2>7. ASSUME NEW a \in Agent, RetriggerWrite(a) PROVE RestsOrRestart
    BY <2>7 DEF RetriggerWrite, Goto, WorkersOf, Working, JobBuild
  <2>8. ASSUME NEW a \in Agent, RecordSuccess(a) PROVE RestsOrRestart
    BY <2>8 DEF RecordSuccess, Goto, SetBuildStatus, Fault, JobBuild, WorkersOf, Working
  <2>9. ASSUME NEW a \in Agent, RecordFailure(a) PROVE RestsOrRestart
    BY <2>9 DEF RecordFailure, Goto, SetBuildStatus, Fault, JobBuild, WorkersOf, Working
  <2>10. ASSUME NEW a \in Agent, Close(a) PROVE RestsOrRestart
    BY <2>10 DEF Close, Leave, Goto, dbVars, WorkersOf, Working, JobBuild
  <2>11. ASSUME NEW a \in Agent, Cancel(a) PROVE RestsOrRestart
    BY <2>11 DEF Cancel, Leave, Goto, dbVars, WorkersOf, Working, JobBuild
  <2>12. ASSUME NEW a \in Agent, RecordCancel(a) PROVE RestsOrRestart
    BY <2>12 DEF RecordCancel, Leave, SetBuildStatus, Fault, JobBuild, Goto, WorkersOf, Working
  <2>13. ASSUME NEW a \in Agent, Break(a) PROVE RestsOrRestart
    BY <2>13 DEF Break, JobBuild, Fault, Goto, dbVars, WorkersOf, Working
  <2>14. ASSUME NEW a \in Agent, RecordBreak(a) PROVE RestsOrRestart
    BY <2>14 DEF RecordBreak, Leave, SetBuildStatus, Fault, JobBuild, Goto, WorkersOf, Working
  <2>15. ASSUME NEW a \in Agent, Crash(a) PROVE RestsOrRestart
    BY <2>15 DEF Crash, Fault, Leave, Goto, dbVars, WorkersOf, Working, JobBuild
  <2>16. ASSUME NEW a \in Agent, Restart(a) PROVE RestsOrRestart
    BY <2>16 DEF Restart, Goto, dbVars, WorkersOf, Working, JobBuild
  <2>17. ASSUME NEW r \in Run, Expire(r) PROVE RestsOrRestart
    BY <2>17 DEF Expire, Held, agentVars, WorkersOf, Working, JobBuild
  <2>18. ASSUME WatchdogRead PROVE RestsOrRestart
    BY <2>18 DEF WatchdogRead, dbVars, agentVars, WorkersOf, Working, JobBuild
  <2>19. ASSUME WatchdogCommit PROVE RestsOrRestart
    BY <2>19 DEF WatchdogCommit, SeenBuilds, agentVars, WorkersOf, Working, JobBuild
  <2>20. ASSUME WatchdogFail PROVE RestsOrRestart
    BY <2>20 DEF WatchdogFail, Fault, dbVars, agentVars, WorkersOf, Working, JobBuild
  <2>21. ASSUME NEW b \in Build, StopRequest(b) PROVE RestsOrRestart
    BY <2>21 DEF StopRequest, agentVars, WorkersOf, Working, JobBuild
  <2>22. ASSUME NEW b \in Build, RestartRequest(b) PROVE RestsOrRestart
    BY <2>22 DEF RestartRequest, agentVars, WorkersOf, Working, JobBuild
  <2>23. QED
    BY <2>1, <2>2, <2>3, <2>4, <2>5, <2>6, <2>7, <2>8, <2>9, <2>10, <2>11, <2>12, <2>13, <2>14, <2>15, <2>16, <2>17, <2>18, <2>19, <2>20, <2>21, <2>22
    DEF Next, AgentNext, WatchdogNext, UserNext
<1>2. QED
  BY <1>1, TypeCorrect, ExclusiveClaims, PTL DEF Spec, RestsUntilRestart

(* Nobody but its agent ends a build which an agent executes.              *)
THEOREM OwnersEndBuilds == Spec => OnlyOwnerEnds
<1>1. TypeOK /\ TypeOK' /\ ExclusiveClaim /\ [Next]_vars => [OwnerEnds]_vars
  <2> SUFFICES ASSUME TypeOK, TypeOK', ExclusiveClaim, [Next]_vars, vars' # vars PROVE OwnerEnds
    OBVIOUS
  <2> USE SetsAssumption DEF TypeOK, ExclusiveClaim, OwnerEnds, Claimed
  <2>1. ASSUME NEW a \in Agent, NEW b \in Build, NEW r \in Run, Claim(a, b, r) PROVE OwnerEnds
    BY <2>1 DEF Claim, WorkersOf, Fault, Goto, Working, JobBuild
  <2>2. ASSUME NEW a \in Agent, Heartbeat(a) PROVE OwnerEnds
    BY <2>2 DEF Heartbeat, agentVars, WorkersOf, Working, JobBuild
  <2>3. ASSUME NEW a \in Agent, TaskDone(a) PROVE OwnerEnds
    BY <2>3 DEF TaskDone, Goto, dbVars, WorkersOf, Working, JobBuild
  <2>4. ASSUME NEW a \in Agent, SeeStopping(a) PROVE OwnerEnds
    BY <2>4 DEF SeeStopping, JobBuild, Goto, dbVars, WorkersOf, Working
  <2>5. ASSUME NEW a \in Agent, RecordStop(a) PROVE OwnerEnds
    BY <2>5 DEF RecordStop, JobBuild, Fault, Goto, Leave, WorkersOf, Working
  <2>6. ASSUME NEW a \in Agent, RetriggerRead(a) PROVE OwnerEnds
    BY <2>6 DEF RetriggerRead, Goto, dbVars, WorkersOf, Working, JobBuild
  <2>7. ASSUME NEW a \in Agent, RetriggerWrite(a) PROVE OwnerEnds
    BY <2>7 DEF RetriggerWrite, Goto, WorkersOf, Working, JobBuild
  <2>8. ASSUME NEW a \in Agent, RecordSuccess(a) PROVE OwnerEnds
    BY <2>8 DEF RecordSuccess, Goto, SetBuildStatus, Fault, JobBuild, WorkersOf, Working
  <2>9. ASSUME NEW a \in Agent, RecordFailure(a) PROVE OwnerEnds
    BY <2>9 DEF RecordFailure, Goto, SetBuildStatus, Fault, JobBuild, WorkersOf, Working
  <2>10. ASSUME NEW a \in Agent, Close(a) PROVE OwnerEnds
    BY <2>10 DEF Close, Leave, Goto, dbVars, WorkersOf, Working, JobBuild
  <2>11. ASSUME NEW a \in Agent, Cancel(a) PROVE OwnerEnds
    BY <2>11 DEF Cancel, Leave, Goto, dbVars, WorkersOf, Working, JobBuild
  <2>12. ASSUME NEW a \in Agent, RecordCancel(a) PROVE OwnerEnds
    BY <2>12 DEF RecordCancel, Leave, SetBuildStatus, Fault, JobBuild, Goto, WorkersOf, Working
  <2>13. ASSUME NEW a \in Agent, Break(a) PROVE OwnerEnds
    BY <2>13 DEF Break, JobBuild, Fault, Goto, dbVars, WorkersOf, Working
  <2>14. ASSUME NEW a \in Agent, RecordBreak(a) PROVE OwnerEnds
    BY <2>14 DEF RecordBreak, Leave, SetBuildStatus, Fault, JobBuild, Goto, WorkersOf, Working
  <2>15. ASSUME NEW a \in Agent, Crash(a) PROVE OwnerEnds
    BY <2>15 DEF Crash, Fault, Leave, Goto, dbVars, WorkersOf, Working, JobBuild
  <2>16. ASSUME NEW a \in Agent, Restart(a) PROVE OwnerEnds
    BY <2>16 DEF Restart, Goto, dbVars, WorkersOf, Working, JobBuild
  <2>17. ASSUME NEW r \in Run, Expire(r) PROVE OwnerEnds
    BY <2>17 DEF Expire, Held, agentVars, WorkersOf, Working, JobBuild
  <2>18. ASSUME WatchdogRead PROVE OwnerEnds
    BY <2>18 DEF WatchdogRead, dbVars, agentVars, WorkersOf, Working, JobBuild
  <2>19. ASSUME WatchdogCommit PROVE OwnerEnds
    BY <2>19 DEF WatchdogCommit, SeenBuilds, agentVars, WorkersOf, Working, JobBuild
  <2>20. ASSUME WatchdogFail PROVE OwnerEnds
    BY <2>20 DEF WatchdogFail, Fault, dbVars, agentVars, WorkersOf, Working, JobBuild
  <2>21. ASSUME NEW b \in Build, StopRequest(b) PROVE OwnerEnds
    BY <2>21 DEF StopRequest, agentVars, WorkersOf, Working, JobBuild
  <2>22. ASSUME NEW b \in Build, RestartRequest(b) PROVE OwnerEnds
    BY <2>22 DEF RestartRequest, agentVars, WorkersOf, Working, JobBuild
  <2>23. QED
    BY <2>1, <2>2, <2>3, <2>4, <2>5, <2>6, <2>7, <2>8, <2>9, <2>10, <2>11, <2>12, <2>13, <2>14, <2>15, <2>16, <2>17, <2>18, <2>19, <2>20, <2>21, <2>22
    DEF Next, AgentNext, WatchdogNext, UserNext
<1>2. QED
  BY <1>1, TypeCorrect, ExclusiveClaims, PTL DEF Spec, OnlyOwnerEnds

-----------------------------------------------------------------------------
(* What a build goes through, by what is stored of it and who executes it. *)
PhaseOf(b) ==
    IF b \in disturbed THEN "disturbed"
    ELSE IF WorkersOf(b) # {} THEN "running"
    ELSE IF buildStatus[b] \in Claimed THEN "orphaned"
    ELSE IF buildStatus[b] = "new" THEN "waiting" ELSE "finished"

OwnersOf(b) == IF b \in disturbed THEN {} ELSE WorkersOf(b)

Life(b) == INSTANCE BuildLife
           WITH Worker <- Agent, phase <- PhaseOf(b), workers <- OwnersOf(b)

LEMMA LifeInit == ASSUME NEW b \in Build, Init PROVE Life(b)!Init
<1>1. b \notin disturbed /\ WorkersOf(b) = {} /\ buildStatus[b] = "new"
  BY DEF Init, WorkersOf, Working
<1>2. PhaseOf(b) = "waiting" /\ OwnersOf(b) = {}
  BY <1>1 DEF PhaseOf, OwnersOf, Claimed
<1>3. QED
  BY <1>2 DEF Life!Init

(* Nobody executes a build in the other phases, so that a step is known by *)
(* the phases it leads from and to.                                        *)
LEMMA LifeMoves ==
    ASSUME NEW b \in Build,
           \/ PhaseOf(b)' = PhaseOf(b) /\ OwnersOf(b)' = OwnersOf(b)
           \/ PhaseOf(b)' = "disturbed"
           \/ PhaseOf(b) = "running"
              /\ PhaseOf(b)' \in {"finished", "waiting", "orphaned"}
           \/ PhaseOf(b) = "waiting" /\ PhaseOf(b)' = "finished"
           \/ PhaseOf(b) = "finished" /\ PhaseOf(b)' = "waiting"
           \/ PhaseOf(b) \in {"waiting", "disturbed"}
              /\ \/ PhaseOf(b)' = "orphaned"
                 \/ PhaseOf(b)' = "running"
                    /\ \E a \in Agent : OwnersOf(b)' = {a}
    PROVE  Life(b)!Step
<1>1. PhaseOf(b)' # "running" => OwnersOf(b)' = {}
  BY DEF PhaseOf, OwnersOf
<1>2. PhaseOf(b) \in Life(b)!Phase
  BY DEF PhaseOf, Life!Phase
<1>3. QED
  BY <1>1, <1>2 DEF Life!Step, Life!Next, Life!Move, Life!Claim, Life!Finish,
     Life!GiveBack, Life!Orphan, Life!Stop, Life!Reopen, Life!Disturb, Life!vars

(* A build which nobody interferes with is waiting, finished or orphaned   *)
(* by its status, or running and claimed.                                  *)
LEMMA PhaseByStatus ==
    ASSUME TypeOK, ExclusiveClaim, NEW b \in Build, b \notin disturbed
    PROVE  /\ buildStatus[b] = "new" =>
                 PhaseOf(b) = "waiting" /\ WorkersOf(b) = {}
           /\ buildStatus[b] \in {"error", "success", "stopped"} =>
                 PhaseOf(b) = "finished" /\ WorkersOf(b) = {}
           /\ buildStatus[b] \in Claimed =>
                 PhaseOf(b) \in {"running", "orphaned"}
           /\ PhaseOf(b) = "running" <=> WorkersOf(b) # {}
<1>1. WorkersOf(b) # {} => buildStatus[b] \in Claimed
  BY DEF ExclusiveClaim, WorkersOf
<1>2. buildStatus[b] \in BuildStatus
  BY DEF TypeOK
<1>3. QED
  BY <1>1, <1>2 DEF PhaseOf, Claimed, BuildStatus

(* An agent claims a build.                                                *)
LEMMA ClaimLife ==
    ASSUME TypeOK, TypeOK', ExclusiveClaim, ExclusiveClaim', NEW b \in Build,
           NEW a \in Agent, NEW c \in Build, NEW r \in Run, Claim(a, c, r)
    PROVE  Life(b)!Step
<1>1. /\ pc[a] = "free" /\ buildStatus[c] = "new" /\ runStatus[r] = "none"
      /\ buildStatus' = [buildStatus EXCEPT ![c] = "active"]
      /\ runBuild' = [runBuild EXCEPT ![r] = c]
      /\ \/ /\ pc' = [pc EXCEPT ![a] = "building"]
            /\ jobRun' = [jobRun EXCEPT ![a] = r]
         \/ UNCHANGED <<pc, jobRun>>
      /\ disturbed' = IF WorkersOf(c) = {} THEN disturbed \ {c} ELSE disturbed
  BY DEF Claim, Goto
<1>2. /\ jobRun[a] = NoRun /\ runBuild[r] = NoBuild
      /\ \A d \in Agent : jobRun[d] # NoRun => jobRun[d] # r
  BY <1>1 DEF TypeOK, JobBuild
<1>3. /\ ~Working(a)
      /\ \A d \in Agent \ {a} : /\ Working(d)' = Working(d)
                                /\ Working(d) => JobBuild(d)' = JobBuild(d)
  BY <1>1, <1>2 DEF Working, JobBuild, TypeOK
<1>4. Working(a)' => JobBuild(a)' = c
  BY <1>1, <1>2 DEF Working, JobBuild, TypeOK
<1>5. CASE b # c
  <2>1. WorkersOf(b)' = WorkersOf(b)
    BY <1>3, <1>4, <1>5 DEF WorkersOf
  <2>2. buildStatus'[b] = buildStatus[b] /\ (b \in disturbed' <=> b \in disturbed)
    BY <1>1, <1>5 DEF TypeOK
  <2>3. PhaseOf(b)' = PhaseOf(b) /\ OwnersOf(b)' = OwnersOf(b)
    BY <2>1, <2>2 DEF PhaseOf, OwnersOf
  <2>4. QED
    BY <2>3, LifeMoves
<1>6. CASE b = c /\ WorkersOf(b) # {}
  <2>1. b \in disturbed
    BY <1>1, <1>6, PhaseByStatus
  <2>2. PhaseOf(b)' = "disturbed"
    BY <1>1, <1>6, <2>1 DEF PhaseOf
  <2>3. QED
    BY <2>2, LifeMoves
<1>7. CASE b = c /\ WorkersOf(b) = {}
  <2>1. PhaseOf(b) \in {"waiting", "disturbed"}
    BY <1>1, <1>7 DEF PhaseOf, Claimed
  <2>2. b \notin disturbed' /\ buildStatus'[b] = "active"
    BY <1>1, <1>7 DEF TypeOK
  <2>3. WorkersOf(b)' = {} \/ WorkersOf(b)' = {a}
    BY <1>3, <1>4, <1>7 DEF WorkersOf
  <2>4. \/ PhaseOf(b)' = "orphaned"
        \/ PhaseOf(b)' = "running" /\ OwnersOf(b)' = {a}
    BY <2>2, <2>3 DEF PhaseOf, OwnersOf, Claimed
  <2>5. QED
    BY <2>1, <2>4, LifeMoves
<1>8. QED
  BY <1>5, <1>6, <1>7

(* The steps which change neither what is stored of builds nor who         *)
(* executes them.                                                          *)
LEMMA QuietLife ==
    ASSUME TypeOK, NEW b \in Build,
           UNCHANGED <<buildStatus, runBuild, disturbed>>,
           \A d \in Agent : Working(d)' = Working(d)
                            /\ (Working(d) => jobRun'[d] = jobRun[d])
    PROVE  Life(b)!Step
<1>1. WorkersOf(b)' = WorkersOf(b)
  BY DEF WorkersOf, JobBuild
<1>2. PhaseOf(b)' = PhaseOf(b) /\ OwnersOf(b)' = OwnersOf(b)
  BY <1>1 DEF PhaseOf, OwnersOf
<1>3. QED
  BY <1>2, LifeMoves

(* The steps in which an agent leaves its build or records its end: the    *)
(* build gets another status, which is not one of a claimed build, or      *)
(* stays behind.                                                           *)
LEMMA LeaveLife ==
    ASSUME TypeOK, TypeOK', ExclusiveClaim, NEW b \in Build, NEW a \in Agent,
           UNCHANGED <<runBuild, disturbed>>, jobRun[a] # NoRun,
           buildStatus' = buildStatus
             \/ \E s \in {"new", "error", "success", "stopped"} :
                   buildStatus' = [buildStatus EXCEPT ![JobBuild(a)] = s],
           buildStatus' # buildStatus => Working(a),
           ~Working(a)',
           \A d \in Agent \ {a} : pc'[d] = pc[d] /\ jobRun'[d] = jobRun[d]
    PROVE  Life(b)!Step
<1>1. JobBuild(a) \in Build
  BY DEF TypeOK, JobBuild
<1>2. CASE b \in disturbed
  <2>1. PhaseOf(b)' = "disturbed"
    BY <1>2 DEF PhaseOf
  <2>2. QED
    BY <2>1, LifeMoves
<1>3. CASE b \notin disturbed /\ Working(a) /\ JobBuild(a) = b
  <2>1. WorkersOf(b) = {a} /\ PhaseOf(b) = "running"
        /\ buildStatus[b] \in Claimed
    BY <1>3, PhaseByStatus DEF WorkersOf, ExclusiveClaim
  <2>2. WorkersOf(b)' = {}
    <3>1. ASSUME NEW d \in Agent, d # a PROVE ~(Working(d) /\ JobBuild(d) = b)'
      BY <2>1, <3>1 DEF WorkersOf, Working, JobBuild
    <3>2. QED
      BY <3>1 DEF WorkersOf
  <2>3. PhaseOf(b)' \in {"finished", "waiting", "orphaned"}
    BY <1>3, <2>2 DEF PhaseOf
  <2>4. QED
    BY <2>1, <2>3, LifeMoves
<1>4. CASE b \notin disturbed /\ ~(Working(a) /\ JobBuild(a) = b)
  <2>1. WorkersOf(b)' = WorkersOf(b)
    BY <1>4 DEF WorkersOf, Working, JobBuild
  <2>2. buildStatus'[b] = buildStatus[b]
    BY <1>1, <1>4 DEF TypeOK
  <2>3. PhaseOf(b)' = PhaseOf(b) /\ OwnersOf(b)' = OwnersOf(b)
    BY <2>1, <2>2 DEF PhaseOf, OwnersOf
  <2>4. QED
    BY <2>3, LifeMoves
<1>5. QED
  BY <1>2, <1>3, <1>4

(* The steps of somebody who has not claimed the build.                    *)
LEMMA OutsideLife ==
    ASSUME TypeOK, TypeOK', ExclusiveClaim, NEW b \in Build,
           UNCHANGED runBuild, disturbed \subseteq disturbed',
           \A d \in Agent : Working(d)' = Working(d)
                            /\ (Working(d) => jobRun'[d] = jobRun[d]),
           b \notin disturbed' =>
             \/ buildStatus'[b] = buildStatus[b]
             \/ {buildStatus[b], buildStatus'[b]} \subseteq Claimed
             \/ {buildStatus[b], buildStatus'[b]}
                    \subseteq {"error", "success", "stopped"}
             \/ buildStatus[b] = "new" /\ buildStatus'[b] = "stopped"
             \/ buildStatus[b] \in {"error", "success", "stopped"}
                /\ buildStatus'[b] = "new"
    PROVE  Life(b)!Step
<1>1. CASE b \in disturbed'
  <2>1. PhaseOf(b)' = "disturbed"
    BY <1>1 DEF PhaseOf
  <2>2. QED
    BY <2>1, LifeMoves
<1>2. CASE b \notin disturbed'
  <2>1. b \notin disturbed
    BY <1>2
  <2>2. WorkersOf(b)' = WorkersOf(b)
    BY DEF WorkersOf, JobBuild
  <2>3. CASE WorkersOf(b) # {}
    <3>1. PhaseOf(b)' = PhaseOf(b) /\ OwnersOf(b)' = OwnersOf(b)
      BY <1>2, <2>1, <2>2, <2>3 DEF PhaseOf, OwnersOf
    <3>2. QED
      BY <3>1, LifeMoves
  <2>4. CASE WorkersOf(b) = {}
    <3>1. OwnersOf(b)' = OwnersOf(b)
      BY <1>2, <2>1, <2>2 DEF OwnersOf
    <3>2. \/ PhaseOf(b)' = PhaseOf(b)
          \/ PhaseOf(b) = "waiting" /\ PhaseOf(b)' = "finished"
          \/ PhaseOf(b) = "finished" /\ PhaseOf(b)' = "waiting"
      BY <1>2, <2>1, <2>2, <2>4 DEF PhaseOf, Claimed
    <3>3. QED
      BY <3>1, <3>2, LifeMoves
  <2>5. QED
    BY <2>3, <2>4
<1>3. QED
  BY <1>1, <1>2

(* Every step of every party is a step in the life of a build, or changes  *)
(* nothing of it.                                                          *)
LEMMA EveryStepInLife ==
    ASSUME TypeOK, TypeOK', ExclusiveClaim, ExclusiveClaim', [Next]_vars,
           NEW b \in Build
    PROVE  Life(b)!Step
<1>1. ASSUME NEW a \in Agent, NEW c \in Build, NEW r \in Run, Claim(a, c, r)
      PROVE  Life(b)!Step
  BY <1>1, ClaimLife
<1>2. ASSUME NEW a \in Agent,
             \/ Heartbeat(a) \/ TaskDone(a) \/ SeeStopping(a)
             \/ RetriggerRead(a) \/ Cancel(a) \/ Close(a) \/ Restart(a)
      PROVE  Life(b)!Step
  <2>1. UNCHANGED <<buildStatus, runBuild, disturbed>>
    BY <1>2 DEF Heartbeat, TaskDone, SeeStopping, RetriggerRead, Cancel, Close,
       Restart, dbVars, Leave
  <2>2. CASE Heartbeat(a)
    BY <2>1, <2>2, QuietLife DEF Heartbeat, agentVars, Working
  <2>3. CASE \/ TaskDone(a) \/ SeeStopping(a) \/ RetriggerRead(a)
             \/ Restart(a)
             \/ Cancel(a) /\ pc'[a] = "cancelled"
    <3>1. UNCHANGED jobRun /\ Working(a)' = Working(a)
          /\ \A d \in Agent \ {a} : pc'[d] = pc[d]
      BY <2>3 DEF TaskDone, SeeStopping, RetriggerRead, Cancel, Restart, Goto,
         Leave, Working, TypeOK
    <3>2. QED
      BY <2>1, <3>1, QuietLife DEF Working
  <2>4. CASE \/ Close(a)
             \/ Cancel(a) /\ pc'[a] # "cancelled"
    <3>1. ~Working(a) /\ ~Working(a)'
          /\ \A d \in Agent \ {a} : pc'[d] = pc[d] /\ jobRun'[d] = jobRun[d]
      BY <2>4 DEF Close, Cancel, Leave, Goto, Working, TypeOK
    <3>2. QED
      BY <2>1, <3>1, QuietLife DEF Working
  <2>5. QED
    BY <1>2, <2>2, <2>3, <2>4
<1>3. ASSUME NEW a \in Agent,
             \/ RecordSuccess(a) \/ RecordFailure(a) \/ RecordCancel(a)
             \/ RecordBreak(a) \/ Crash(a)
             \/ RecordStop(a) /\ pc'[a] \in {"free", "mute"}
      PROVE  Life(b)!Step
  <2>1. CASE Crash(a) /\ jobRun[a] = NoRun
    <3>1. ~Working(a) /\ ~Working(a)'
          /\ \A d \in Agent \ {a} : pc'[d] = pc[d] /\ jobRun'[d] = jobRun[d]
      BY <2>1 DEF Crash, Leave, Goto, Working, TypeOK
    <3>2. QED
      BY <2>1, <3>1, QuietLife DEF Crash, dbVars, Working
  <2>2. CASE ~(Crash(a) /\ jobRun[a] = NoRun)
    <3>1. UNCHANGED <<runBuild, disturbed>> /\ jobRun[a] # NoRun
      BY <1>3, <2>2 DEF RecordSuccess, RecordFailure, RecordCancel,
         RecordBreak, Crash, RecordStop, Goto, dbVars, TypeOK
    <3>2. \/ buildStatus' = buildStatus
          \/ /\ \E s \in {"new", "error", "success", "stopped"} :
                   buildStatus' = [buildStatus EXCEPT ![JobBuild(a)] = s]
             /\ Working(a)
      BY <1>3, <3>1 DEF RecordSuccess, RecordFailure, RecordCancel,
         RecordBreak, Crash, RecordStop, SetBuildStatus, dbVars, Working
    <3>3. ~Working(a)'
          /\ \A d \in Agent \ {a} : pc'[d] = pc[d] /\ jobRun'[d] = jobRun[d]
      BY <1>3, SetsAssumption DEF RecordSuccess, RecordFailure, RecordCancel,
         RecordBreak, Crash, RecordStop, Leave, Goto, Working, TypeOK
    <3>4. QED
      BY <3>1, <3>2, <3>3, LeaveLife
  <2>3. QED
    BY <2>1, <2>2
<1>4. ASSUME NEW a \in Agent, RecordStop(a), pc'[a] \notin {"free", "mute"}
      PROVE  Life(b)!Step
  <2>1. /\ UNCHANGED <<runBuild, jobRun>> /\ JobBuild(a)' = JobBuild(a)
        /\ \/ buildStatus' = [buildStatus EXCEPT ![JobBuild(a)] = "stopped"]
              /\ disturbed' = disturbed \cup {JobBuild(a)}
           \/ UNCHANGED <<buildStatus, disturbed>>
    BY <1>4 DEF RecordStop, Goto, Leave, JobBuild, TypeOK
  <2>2. \A d \in Agent : Working(d)' = Working(d)
    BY <1>4 DEF RecordStop, Goto, Leave, Working, TypeOK
  <2>3. b \notin disturbed' => buildStatus'[b] = buildStatus[b]
    BY <2>1 DEF TypeOK
  <2>4. QED
    <3>1. disturbed \subseteq disturbed'
      BY <2>1
    <3>2. QED
      BY <2>1, <2>2, <2>3, <3>1, OutsideLife
<1>5. ASSUME NEW a \in Agent, RetriggerWrite(a) PROVE Life(b)!Step
  <2>1. UNCHANGED <<runBuild, jobRun>> /\ disturbed \subseteq disturbed'
        /\ pc[a] = "retrigger" /\ pc' = [pc EXCEPT ![a] = "built"]
    BY <1>5 DEF RetriggerWrite, Goto
  <2>2. b \notin disturbed' =>
            \/ buildStatus'[b] = buildStatus[b]
            \/ buildStatus[b] = "error" /\ buildStatus'[b] = "new"
    BY <1>5 DEF RetriggerWrite
  <2>3. QED
    BY <2>1, <2>2, OutsideLife DEF Working, TypeOK
<1>6. ASSUME NEW a \in Agent, Break(a) PROVE Life(b)!Step
  <2>1. UNCHANGED <<runBuild, jobRun, buildStatus>>
        /\ pc' = [pc EXCEPT ![a] = "broken"]
    BY <1>6 DEF Break, Goto, dbVars
  <2>2. CASE pc[a] # "closing"
    BY <1>6, <2>1, <2>2, QuietLife DEF Break, Working, TypeOK
  <2>3. CASE pc[a] = "closing" /\ b = JobBuild(a)
    <3>1. b \in disturbed'
      BY <1>6, <2>3 DEF Break
    <3>2. PhaseOf(b)' = "disturbed"
      BY <3>1 DEF PhaseOf
    <3>3. QED
      BY <3>2, LifeMoves
  <2>4. CASE pc[a] = "closing" /\ b # JobBuild(a)
    <3>1. b \in disturbed' <=> b \in disturbed
      BY <1>6, <2>4 DEF Break
    <3>2. WorkersOf(b)' = WorkersOf(b)
      BY <2>1, <2>4 DEF WorkersOf, Working, JobBuild, TypeOK
    <3>3. PhaseOf(b)' = PhaseOf(b) /\ OwnersOf(b)' = OwnersOf(b)
      BY <2>1, <3>1, <3>2 DEF PhaseOf, OwnersOf
    <3>4. QED
      BY <3>3, LifeMoves
  <2>5. QED
    BY <2>2, <2>3, <2>4
<1>7. ASSUME \/ \E r \in Run : Expire(r)
             \/ WatchdogRead \/ WatchdogFail \/ UNCHANGED vars
      PROVE  Life(b)!Step
  <2>1. UNCHANGED <<buildStatus, runBuild, disturbed, pc, jobRun>>
    BY <1>7 DEF Expire, WatchdogRead, WatchdogFail, vars, dbVars, agentVars
  <2>2. QED
    BY <2>1, QuietLife DEF Working
<1>8. ASSUME WatchdogCommit PROVE Life(b)!Step
  <2>1. UNCHANGED <<runBuild, pc, jobRun>> /\ disturbed \subseteq disturbed'
    BY <1>8 DEF WatchdogCommit, agentVars
  <2>2. b \notin disturbed' => buildStatus'[b] = buildStatus[b]
    BY <1>8 DEF WatchdogCommit
  <2>3. QED
    BY <2>1, <2>2, OutsideLife DEF Working
<1>9. ASSUME NEW c \in Build, StopRequest(c) \/ RestartRequest(c)
      PROVE  Life(b)!Step
  <2>1. UNCHANGED <<runBuild, pc, jobRun, disturbed>>
    BY <1>9 DEF StopRequest, RestartRequest, agentVars
  <2>2. buildStatus[b] \in BuildStatus
    BY DEF TypeOK
  <2>3. \/ buildStatus'[b] = buildStatus[b]
        \/ buildStatus[b] = "new" /\ buildStatus'[b] = "stopped"
        \/ {buildStatus[b], buildStatus'[b]} \subseteq Claimed
        \/ buildStatus[b] \in {"error", "success", "stopped"}
           /\ buildStatus'[b] = "new"
    BY <1>9, <2>2 DEF StopRequest, RestartRequest, Claimed, BuildStatus, TypeOK
  <2>4. QED
    BY <2>1, <2>3, OutsideLife DEF Working
<1>10. QED
  BY <1>1, <1>2, <1>3, <1>4, <1>5, <1>6, <1>7, <1>8, <1>9
  DEF Next, AgentNext, WatchdogNext, UserNext

(* Each build leads the life BuildLife promises, as long as nobody         *)
(* interferes who has not claimed it: one agent at a time, which alone     *)
(* ends it or gives it back, and rest until it is reopened.                *)
THEOREM BuildsLive == \A b \in Build : Spec => Life(b)!Spec
<1> SUFFICES ASSUME NEW b \in Build PROVE Spec => Life(b)!Spec
  OBVIOUS
<1>1. Init => Life(b)!Init
  BY LifeInit
<1>2. TypeOK /\ TypeOK' /\ ExclusiveClaim /\ ExclusiveClaim' /\ [Next]_vars
          => [Life(b)!Next]_(Life(b)!vars)
  BY EveryStepInLife DEF Life!Step
<1>3. QED
  BY <1>1, <1>2, TypeCorrect, ExclusiveClaims, PTL DEF Spec, Life!Spec

=============================================================================
