--------------------------- MODULE BuildLifecycle ---------------------------
(***************************************************************************)
(* The life of a build: the rows of the tables `build` and `run`, the      *)
(* agents that claim and execute builds, the watchdog that takes back      *)
(* builds whose agent went silent, and the users who stop and restart      *)
(* builds.  These parties share nothing but the database: each action is   *)
(* one transaction, or one step between two transactions.                  *)
(*                                                                         *)
(* A read of the database whose result is written back in a later step     *)
(* (watchdog, re-trigger of waiting builds, stop of a build) is two        *)
(* actions; a SELECT ... FOR UPDATE with its write is one.                 *)
(***************************************************************************)
EXTENDS Naturals, FiniteSets

CONSTANTS
    Agent,      \* the agent processes
    Build,      \* the rows of table build
    Run,        \* the ids table run can give out
    PlatformOf, \* the platform of every agent and of every build's profile
    NoRun,      \* "this agent executes nothing"
    NoBuild,    \* the build of a run id which was not given out yet
    Timely,     \* TRUE: a live agent updates its run at least every 60 s
    MaxFaults   \* how many crashes, database failures and errors may occur

ASSUME SetsAssumption == NoRun \notin Run /\ NoBuild \notin Build
ASSUME PlatformAssumption == DOMAIN PlatformOf = Agent \cup Build
ASSUME TimelyAssumption == Timely \in BOOLEAN
ASSUME MaxFaultsAssumption == MaxFaults \in Nat

VARIABLES
    buildStatus, \* column status of table build
    runStatus,   \* column status of table run, "none" before the insert
    runBuild,    \* the build a run belongs to
    fresh,       \* the runs updated within the last 60 seconds
    pc,          \* where an agent is in __process_builds
    jobRun,      \* the run an agent executes (__run_id)
    trig,        \* the waiting builds an agent has read and will set to new
    seen,        \* the stalled runs the watchdog has read, by build status
    disturbed,   \* history: builds changed by someone who did not claim them,
                 \* or whose agent goes on after it recorded an outcome
    faults       \* how many faults occurred

dbVars == <<buildStatus, runStatus, runBuild, fresh>>
agentVars == <<pc, jobRun, trig>>
vars == <<dbVars, agentVars, seen, disturbed, faults>>

BuildStatus == {"new", "active", "error", "success", "stopping", "stopped"}
RunStatus == {"none", "active", "error", "success", "stopped", "stalled"}

(* Where an agent is:                                                      *)
(*   down        not running             free      looking for a build     *)
(*   building    waiting for the docker task                               *)
(*   stopping    has read status stopping and cancels the container        *)
(*   killed      cancelled the container but failed to record it           *)
(*   built       docker task succeeded   retrigger has read waiting builds *)
(*   failed      docker task failed      cancelled the worker is cancelled *)
(*   broken      an unexpected exception is being handled                  *)
(*   closing     outcome recorded, container is being removed              *)
(*   mute        stop recorded, waits for the task, will not record more   *)
Pc == {"down", "free", "building", "stopping", "killed", "built",
       "retrigger", "failed", "cancelled", "broken", "closing", "mute"}

Claimed == {"active", "stopping"}

-----------------------------------------------------------------------------

JobBuild(a) == runBuild[jobRun[a]]

(* The agent executes its run and may still record an outcome. *)
Working(a) == jobRun[a] # NoRun /\ pc[a] \notin {"closing", "mute"}

WorkersOf(b) == {a \in Agent : Working(a) /\ JobBuild(a) = b}

Held(r) == \E a \in Agent : jobRun[a] = r

Fault == faults < MaxFaults /\ faults' = faults + 1

Goto(a, label) == pc' = [pc EXCEPT ![a] = label]

(* Mutant: the `finally` does not reset __run_id. *)
LeaveKeepingRun(a, label) == Goto(a, label) /\ UNCHANGED jobRun

(* The agent forgets its run: the `finally` of __process_builds. *)
Leave(a, label) == /\ Goto(a, label)
                   /\ jobRun' = [jobRun EXCEPT ![a] = NoRun]

(* Mutant: only the build is written, the run stays active. *)
SetStatusOfBuildOnly(a, status, rStatus) ==
    /\ buildStatus' = [buildStatus EXCEPT ![JobBuild(a)] = status]
    /\ UNCHANGED <<runStatus, faults>>

(* __set_build_status: run and build are written in one transaction; an    *)
(* OperationalError is logged and the outcome is never recorded.           *)
SetBuildStatus(a, status, rStatus) ==
    \/ /\ buildStatus' = [buildStatus EXCEPT ![JobBuild(a)] = status]
       /\ runStatus' = [runStatus EXCEPT ![jobRun[a]] = rStatus]
       /\ UNCHANGED faults
    \/ Fault /\ UNCHANGED <<buildStatus, runStatus>>

Init ==
    /\ buildStatus = [b \in Build |-> "new"]
    /\ runStatus = [r \in Run |-> "none"]
    /\ runBuild = [r \in Run |-> NoBuild]
    /\ fresh = {}
    /\ pc = [a \in Agent |-> "free"]
    /\ jobRun = [a \in Agent |-> NoRun]
    /\ trig = [a \in Agent |-> {}]
    /\ seen = [r \in Run |-> "no"]
    /\ disturbed = {}
    /\ faults = 0

-----------------------------------------------------------------------------
(* The agents. *)

(* Claim a new build of the own platform and insert its run.  When reading *)
(* the parameters of the build fails after the commit, the claim is        *)
(* abandoned: the build stays active and nobody works on it.               *)
Claim(a, b, r) ==
    /\ pc[a] = "free"
    /\ buildStatus[b] = "new" /\ PlatformOf[a] = PlatformOf[b]
    /\ runStatus[r] = "none"
    /\ buildStatus' = [buildStatus EXCEPT ![b] = "active"]
    /\ runStatus' = [runStatus EXCEPT ![r] = "active"]
    /\ runBuild' = [runBuild EXCEPT ![r] = b]
    /\ fresh' = fresh \cup {r}
    /\ \/ /\ Goto(a, "building")
          /\ jobRun' = [jobRun EXCEPT ![a] = r]
          /\ UNCHANGED faults
       \/ Fault /\ UNCHANGED <<pc, jobRun>>
    /\ disturbed' = IF WorkersOf(b) = {} THEN disturbed \ {b} ELSE disturbed
    /\ UNCHANGED <<trig, seen>>

(* One round of the 10 second loop: column `updated` of the run is set. *)
Heartbeat(a) ==
    /\ pc[a] \in {"building", "killed", "mute"}
    /\ fresh' = fresh \cup {jobRun[a]}
    /\ UNCHANGED <<buildStatus, runStatus, runBuild, agentVars, seen,
                   disturbed, faults>>

(* builder_task.result() returns, or raises BuildFailed; it may do so after *)
(* the container was cancelled, too.                                       *)
TaskDone(a) ==
    /\ pc[a] \in {"building", "killed"}
    /\ \E label \in {"built", "failed"} : Goto(a, label)
    /\ UNCHANGED <<dbVars, jobRun, trig, seen, disturbed, faults>>

(* __cancel_stopping_build, first half: the build is found in status       *)
(* stopping and the container is cancelled.                                *)
SeeStopping(a) ==
    /\ pc[a] \in {"building", "killed"}
    /\ buildStatus[JobBuild(a)] = "stopping"
    /\ Goto(a, "stopping")
    /\ UNCHANGED <<dbVars, jobRun, trig, seen, disturbed, faults>>

(* __cancel_stopping_build, second half: the stop is recorded and then     *)
(* published.  When the database fails before the commit the loop goes on  *)
(* although the container is cancelled.  Publishing reads the rows again   *)
(* and may fail after the commit: the loop goes on with the stop recorded, *)
(* or the exception is handled as any other.  When only the end of the     *)
(* session fails the id of the build is gone and the loop goes on without  *)
(* it.                                                                     *)
RecordStop(a) ==
    /\ pc[a] = "stopping"
    /\ \/ /\ buildStatus' = [buildStatus EXCEPT ![JobBuild(a)] = "stopped"]
          /\ runStatus' = [runStatus EXCEPT ![jobRun[a]] = "stopped"]
          /\ \/ /\ Leave(a, "free")
                /\ UNCHANGED <<disturbed, faults>>
             \/ /\ Fault
                /\ \E label \in {"killed", "broken"} : Goto(a, label)
                /\ disturbed' = disturbed \cup {JobBuild(a)}
                /\ UNCHANGED jobRun
             \/ Fault /\ Goto(a, "mute") /\ UNCHANGED <<jobRun, disturbed>>
       \/ Fault /\ Goto(a, "killed")
          /\ UNCHANGED <<buildStatus, runStatus, jobRun, disturbed>>
    /\ UNCHANGED <<runBuild, fresh, trig, seen>>

(* process_success reads the failed builds which wait for what was built.  *)
(* Which of the failed builds these are is not modelled here.              *)
RetriggerRead(a) ==
    /\ pc[a] = "built"
    /\ \E waiting \in SUBSET {b \in Build : buildStatus[b] = "error"} :
            trig' = [trig EXCEPT ![a] = waiting]
    /\ Goto(a, "retrigger")
    /\ UNCHANGED <<dbVars, jobRun, seen, disturbed, faults>>

(* ... and sets them to new, whatever their status is by now. *)
RetriggerWrite(a) ==
    /\ pc[a] = "retrigger"
    /\ buildStatus' = [b \in Build |-> IF b \in trig[a] THEN "new"
                                       ELSE buildStatus[b]]
    /\ disturbed' = disturbed \cup {b \in trig[a] : buildStatus[b] # "error"}
    /\ trig' = [trig EXCEPT ![a] = {}]
    /\ Goto(a, "built")
    /\ UNCHANGED <<runStatus, runBuild, fresh, jobRun, seen, faults>>

(* The success is recorded.  A container which was cancelled ends without  *)
(* an error and without output and is recorded the same way.               *)
RecordSuccess(a) ==
    /\ pc[a] \in {"built", "killed"}
    /\ SetBuildStatus(a, "success", "success")
    /\ Goto(a, "closing")
    /\ UNCHANGED <<runBuild, fresh, jobRun, trig, seen, disturbed>>

RecordFailure(a) ==
    /\ pc[a] = "failed"
    /\ SetBuildStatus(a, "error", "error")
    /\ Goto(a, "closing")
    /\ UNCHANGED <<runBuild, fresh, jobRun, trig, seen, disturbed>>

(* The container was removed, the agent looks for the next build. *)
Close(a) ==
    /\ pc[a] \in {"closing", "mute"}
    /\ Leave(a, "free")
    /\ UNCHANGED <<dbVars, trig, seen, disturbed, faults>>

(* The worker is cancelled where it awaits something: the docker task, or  *)
(* the next trigger.                                                       *)
Cancel(a) ==
    /\ \/ pc[a] \in {"building", "killed"} /\ Goto(a, "cancelled")
          /\ UNCHANGED jobRun
       \/ pc[a] \in {"free", "mute"} /\ Leave(a, "down")
    /\ UNCHANGED <<dbVars, trig, seen, disturbed, faults>>

RecordCancel(a) ==
    /\ pc[a] = "cancelled"
    /\ SetBuildStatus(a, "new", "stopped")
    /\ Leave(a, "down")
    /\ UNCHANGED <<runBuild, fresh, trig, seen, disturbed>>

(* Any other exception: in the docker task, while the container is         *)
(* cancelled, while the output is processed or the container removed.  In  *)
(* the last case the outcome of the build may be recorded already and      *)
(* somebody else may have claimed it since; or the worker was cancelled,   *)
(* and goes on as if it was not.                                           *)
Break(a) ==
    /\ pc[a] \in {"building", "stopping", "killed", "built", "retrigger",
                  "failed", "cancelled", "closing"}
    /\ Fault
    /\ Goto(a, "broken")
    /\ trig' = [trig EXCEPT ![a] = {}]
    /\ disturbed' = IF pc[a] = "closing" THEN disturbed \cup {JobBuild(a)}
                    ELSE disturbed
    /\ UNCHANGED <<dbVars, jobRun, seen>>

RecordBreak(a) ==
    /\ pc[a] = "broken"
    /\ SetBuildStatus(a, "new", "error")
    /\ Leave(a, "free")
    /\ UNCHANGED <<runBuild, fresh, trig, seen, disturbed>>

Crash(a) ==
    /\ pc[a] # "down"
    /\ Fault
    /\ Leave(a, "down")
    /\ trig' = [trig EXCEPT ![a] = {}]
    /\ UNCHANGED <<dbVars, seen, disturbed>>

Restart(a) ==
    /\ pc[a] = "down"
    /\ Goto(a, "free")
    /\ UNCHANGED <<dbVars, jobRun, trig, seen, disturbed, faults>>

-----------------------------------------------------------------------------
(* The watchdog. *)

(* 60 seconds pass without an update of the run. *)
Expire(r) ==
    /\ r \in fresh
    /\ Timely => ~Held(r)
    /\ fresh' = fresh \ {r}
    /\ UNCHANGED <<buildStatus, runStatus, runBuild, agentVars, seen,
                   disturbed, faults>>

(* Mutants of the queries: which builds with a run that satisfies P are    *)
(* found.  The age of the run is ignored, the stopping builds are          *)
(* forgotten, or the active ones are.                                      *)
ReadBuilds(P(_), states) ==
    /\ seen = [r \in Run |-> "no"]
    /\ seen' = [r \in Run |->
                   IF /\ runStatus[r] # "none" /\ P(r)
                      /\ buildStatus[runBuild[r]] \in states
                   THEN buildStatus[runBuild[r]] ELSE "no"]
    /\ UNCHANGED <<dbVars, agentVars, disturbed, faults>>

ReadAnyAge == ReadBuilds(LAMBDA r : TRUE, Claimed)
ReadActiveOnly == ReadBuilds(LAMBDA r : r \notin fresh, {"active"})
ReadStoppingOnly == ReadBuilds(LAMBDA r : r \notin fresh, {"stopping"})

(* Both queries of __process_stalled_runs.  They look at the age of a run  *)
(* and at the status of its build, not at the status of the run.           *)
WatchdogRead ==
    /\ seen = [r \in Run |-> "no"]
    /\ seen' = [r \in Run |->
                   IF /\ runStatus[r] # "none" /\ r \notin fresh
                      /\ buildStatus[runBuild[r]] \in Claimed
                   THEN buildStatus[runBuild[r]] ELSE "no"]
    /\ UNCHANGED <<dbVars, agentVars, disturbed, faults>>

SeenBuilds(status) == {runBuild[r] : r \in {s \in Run : seen[s] = status}}

WatchdogCommit ==
    /\ seen # [r \in Run |-> "no"]
    /\ runStatus' = [r \in Run |-> IF seen[r] # "no" THEN "stalled"
                                   ELSE runStatus[r]]
    /\ buildStatus' = [b \in Build |->
                          IF b \in SeenBuilds("active") THEN "new"
                          ELSE IF b \in SeenBuilds("stopping") THEN "stopped"
                          ELSE buildStatus[b]]
    /\ disturbed' = disturbed \cup SeenBuilds("active")
                              \cup SeenBuilds("stopping")
    /\ seen' = [r \in Run |-> "no"]
    /\ UNCHANGED <<runBuild, fresh, agentVars, faults>>

(* The watchdog crashes or its transaction fails and is rolled back. *)
WatchdogFail ==
    /\ seen # [r \in Run |-> "no"]
    /\ Fault
    /\ seen' = [r \in Run |-> "no"]
    /\ UNCHANGED <<dbVars, agentVars, disturbed>>

-----------------------------------------------------------------------------
(* The users: PATCH of a build, update_build under a row lock. *)

(* Mutant: a build is stopped although an agent executes it. *)
StopAtOnce(b) ==
    /\ buildStatus[b] \in {"new", "active"}
    /\ buildStatus' = [buildStatus EXCEPT ![b] = "stopped"]
    /\ UNCHANGED <<runStatus, runBuild, fresh, agentVars, seen, disturbed,
                   faults>>

StopRequest(b) ==
    /\ \/ /\ buildStatus[b] = "new"
          /\ buildStatus' = [buildStatus EXCEPT ![b] = "stopped"]
       \/ /\ buildStatus[b] = "active"
          /\ buildStatus' = [buildStatus EXCEPT ![b] = "stopping"]
    /\ UNCHANGED <<runStatus, runBuild, fresh, agentVars, seen, disturbed,
                   faults>>

(* Mutant: a build may be restarted while it is executed. *)
RestartAnyBuild(b) ==
    /\ buildStatus' = [buildStatus EXCEPT ![b] = "new"]
    /\ UNCHANGED <<runStatus, runBuild, fresh, agentVars, seen, disturbed,
                   faults>>

RestartRequest(b) ==
    /\ buildStatus[b] \notin Claimed
    /\ buildStatus' = [buildStatus EXCEPT ![b] = "new"]
    /\ UNCHANGED <<runStatus, runBuild, fresh, agentVars, seen, disturbed,
                   faults>>

-----------------------------------------------------------------------------

AgentNext(a) ==
    \/ \E b \in Build, r \in Run : Claim(a, b, r)
    \/ Heartbeat(a) \/ TaskDone(a)
    \/ SeeStopping(a) \/ RecordStop(a)
    \/ RetriggerRead(a) \/ RetriggerWrite(a) \/ RecordSuccess(a)
    \/ RecordFailure(a) \/ Close(a)
    \/ Cancel(a) \/ RecordCancel(a)
    \/ Break(a) \/ RecordBreak(a)
    \/ Crash(a) \/ Restart(a)

WatchdogNext == WatchdogRead \/ WatchdogCommit \/ WatchdogFail

UserNext(b) == StopRequest(b) \/ RestartRequest(b)

Next ==
    \/ \E a \in Agent : AgentNext(a)
    \/ \E r \in Run : Expire(r)
    \/ WatchdogNext
    \/ \E b \in Build : UserNext(b)

Spec == Init /\ [][Next]_vars

(* Time passes, the watchdog runs every minute and a live agent executes   *)
(* its next statement.  The docker task of a build may run forever, nobody *)
(* restarts a crashed agent and no user does anything.  The loop over the  *)
(* packages of a build, RetriggerRead and RetriggerWrite, is finite.       *)
Fairness ==
    /\ \A a \in Agent : /\ WF_vars(SeeStopping(a))
                        /\ WF_vars(RecordStop(a))
                        /\ WF_vars(RetriggerWrite(a))
                        /\ SF_vars(RecordSuccess(a))
                        /\ WF_vars(RecordFailure(a))
                        /\ WF_vars(RecordCancel(a))
                        /\ WF_vars(RecordBreak(a))
                        /\ WF_vars(pc[a] = "closing" /\ Close(a))
    /\ \A r \in Run : WF_vars(Expire(r) /\ ~Held(r))
    /\ WF_vars(WatchdogRead)
    /\ WF_vars(WatchdogCommit)

FairSpec == Spec /\ Fairness

-----------------------------------------------------------------------------
(* Properties *)

(* Every variable has its type; an agent has a run exactly while it is     *)
(* between the claim and the `finally` of __process_builds; a run id is    *)
(* given out together with its build.                                      *)
TypeOK ==
    /\ buildStatus \in [Build -> BuildStatus]
    /\ runStatus \in [Run -> RunStatus]
    /\ runBuild \in [Run -> Build \cup {NoBuild}]
    /\ fresh \subseteq Run
    /\ pc \in [Agent -> Pc]
    /\ jobRun \in [Agent -> Run \cup {NoRun}]
    /\ trig \in [Agent -> SUBSET Build]
    /\ seen \in [Run -> {"no"} \cup Claimed]
    /\ disturbed \subseteq Build
    /\ faults \in 0..MaxFaults
    /\ \A a \in Agent : (jobRun[a] = NoRun) <=> (pc[a] \in {"down", "free"})
    /\ \A a \in Agent : jobRun[a] # NoRun => JobBuild(a) # NoBuild
    /\ \A r \in Run : (runBuild[r] = NoBuild) <=> (runStatus[r] = "none")
    /\ \A r \in Run : runBuild[r] = NoBuild => seen[r] = "no" /\ r \notin fresh

(* Claims are exclusive: unless somebody else changed a claimed build, or  *)
(* its agent went on with it after it recorded an outcome (an error while  *)
(* the outcome was published or the container removed), at most one agent  *)
(* executes it, and while an agent executes it its status is active or     *)
(* stopping and the agent's run is active.  SKIP LOCKED, the guards of     *)
(* update_build and the writes of the agents together give this.           *)
ExclusiveClaim ==
    \A b \in Build \ disturbed : \A a \in WorkersOf(b) :
        /\ WorkersOf(b) = {a}
        /\ buildStatus[b] \in Claimed
        /\ runStatus[jobRun[a]] = "active"

(* A recorded outcome has evidence: a build in status success or error has *)
(* a run which ended that way, whatever the watchdog relabels and whoever  *)
(* writes last.                                                            *)
OutcomeHasRun ==
    \A b \in Build : buildStatus[b] \in {"success", "error"} =>
        \E r \in Run : runBuild[r] = b /\ runStatus[r] = buildStatus[b]

(* With timely updates the watchdog is about to take back a build which a  *)
(* live agent executes only if that build was claimed before: the run that *)
(* misleads it is an older one.                                            *)
RescueNeedsOlderRun ==
    Timely => \A r \in Run : seen[r] # "no" =>
        \A a \in WorkersOf(runBuild[r]) : jobRun[a] # r

(* What RestsUntilRestart says of a step. *)
RestsOrRestart ==
    \A b \in Build \ (disturbed \cup disturbed') :
        /\ buildStatus[b] \in {"stopped", "success"}
        /\ buildStatus'[b] # buildStatus[b]
        => RestartRequest(b)

(* A stopped or successful build rests until a user restarts it, unless    *)
(* somebody changes it who did not claim it, or the agent which recorded   *)
(* the outcome goes on with the build because of an error after that.      *)
RestsUntilRestart == [][RestsOrRestart]_vars

(* What OnlyOwnerEnds says of a step. *)
OwnerEnds ==
    \A b \in Build \ (disturbed \cup disturbed') : \A a \in WorkersOf(b) :
        buildStatus'[b] \notin Claimed => pc'[a] # pc[a]

(* Nobody but its agent ends a build: while an agent executes a build, the *)
(* status of the build leaves active and stopping only by a step of that   *)
(* agent, or the build counts as disturbed.  The watchdog and the users    *)
(* write the same column.                                                  *)
OnlyOwnerEnds == [][OwnerEnds]_vars

(* The watchdog takes back only builds whose agent is gone, when live      *)
(* agents update their runs in time.  The code does otherwise: the runs of *)
(* earlier executions match the query "all stalled runs of active builds"  *)
(* as soon as the build is executed again.                                 *)
RescueOnlyOrphans ==
    Timely => \A r \in Run : seen[r] # "no" => WorkersOf(runBuild[r]) = {}

(* A build whose container was cancelled is never recorded as success.     *)
(* The code does otherwise when the database fails while the stop is       *)
(* recorded.                                                               *)
KilledIsNoSuccess ==
    [][\A a \in Agent : pc[a] = "killed" /\ pc'[a] = "closing"
           => buildStatus'[JobBuild(a)] # "success"]_vars

(* A request to stop a build takes effect, whatever crashes. *)
StopTakesEffect ==
    \A b \in Build : buildStatus[b] = "stopping" ~> buildStatus[b] # "stopping"

(* A claimed build which no live agent executes is taken back. *)
OrphanRecovered ==
    \A b \in Build : buildStatus[b] \in Claimed /\ WorkersOf(b) = {}
                     ~> buildStatus[b] \notin Claimed \/ WorkersOf(b) # {}

=============================================================================
