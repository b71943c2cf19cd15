------------------------ MODULE CommitPipelineProofs ------------------------
(***************************************************************************)
(* Proofs of the safety properties of CommitPipeline, for any lines,       *)
(* commits and profiles, and any number of crashes and lost requests.      *)
(***************************************************************************)
EXTENDS CommitPipeline, TLAPS

(* Every step keeps the types. *)
LEMMA TypeStep == TypeOK /\ [Next]_vars => TypeOK'
<1> SUFFICES ASSUME TypeOK, [Next]_vars PROVE TypeOK'
  OBVIOUS
<1> USE DEF TypeOK, CommitStatus, commitVars, crawlerVars, schedulerVars,
            agentVars
<1>1. CASE CrawlBegin
  BY <1>1 DEF CrawlBegin
<1>2. CASE CrawlWrite
  <2>1. newest' \in [Line -> Row \cup {NoCommit}]
    <3>1. ASSUME NEW l \in Line, \E r \in dirty : LineOf(r) = l /\ view[r] = "new"
          PROVE  (CHOOSE r \in dirty : LineOf(r) = l /\ view[r] = "new") \in Row
      BY <3>1
    <3>2. QED
      BY <1>2, <3>1 DEF CrawlWrite
  <2>2. QED
    BY <1>2, <2>1 DEF CrawlWrite
<1>3. CASE CrawlTrigger
  <2>1. wanted' \in BOOLEAN
    BY <1>3 DEF CrawlTrigger
  <2>2. faults' \in 0..MaxFaults
    BY <1>3, FaultsAssumption DEF CrawlTrigger, Fault
  <2>3. QED
    BY <1>3, <2>1, <2>2 DEF CrawlTrigger
<1>4. CASE CrawlEnd
  BY <1>4 DEF CrawlEnd
<1>5. CASE CrawlAbort
  BY <1>5, FaultsAssumption DEF CrawlAbort, Fault
<1>6. ASSUME NEW row \in Row, CrawlCommit(row) PROVE TypeOK'
  BY <1>6 DEF CrawlCommit
<1>7. CASE SchedulerBegin
  BY <1>7 DEF SchedulerBegin
<1>8. CASE SchedulerRead
  BY <1>8 DEF SchedulerRead
<1>9. CASE SchedulerWrite
  <2>1. again' \in BOOLEAN
    BY <1>9 DEF SchedulerWrite
  <2>2. build' \in [BuildRow -> [new : Nat, claimed : Nat]]
    BY <1>9 DEF SchedulerWrite
  <2>3. QED
    BY <1>9, <2>1, <2>2 DEF SchedulerWrite
<1>10. CASE SchedulerCount
  BY <1>10 DEF SchedulerCount
<1>11. ASSUME NEW q \in {"linux", "windows"}, SchedulerTrigger(q) PROVE TypeOK'
  <2>1. faults' \in 0..MaxFaults
    BY <1>11, FaultsAssumption DEF SchedulerTrigger, Fault
  <2>2. agentWanted' \in [Platform -> BOOLEAN]
    BY <1>11 DEF SchedulerTrigger
  <2>3. QED
    BY <1>11, <2>1, <2>2 DEF SchedulerTrigger
<1>12. CASE SchedulerAbort
  <2>1. wanted' \in BOOLEAN
    BY <1>12 DEF SchedulerAbort
  <2>2. faults' \in 0..MaxFaults
    BY <1>12, FaultsAssumption DEF SchedulerAbort, Fault
  <2>3. QED
    BY <1>12, <2>1, <2>2 DEF SchedulerAbort
<1>13. ASSUME NEW q \in Platform, AgentBegin(q) PROVE TypeOK'
  BY <1>13 DEF AgentBegin
<1>14. ASSUME NEW q \in Platform, AgentClaim(q) PROVE TypeOK'
  <2>1. PICK x \in BuildRow :
            /\ build[x].new > 0
            /\ build' = [build EXCEPT ![x] = [new |-> @.new - 1,
                                             claimed |-> @.claimed + 1]]
    BY <1>14 DEF AgentClaim, Claimable, NewBuilds
  <2>2. build' \in [BuildRow -> [new : Nat, claimed : Nat]]
    BY <2>1
  <2>3. QED
    BY <1>14, <2>2 DEF AgentClaim
<1>15. ASSUME NEW q \in Platform, AgentEnd(q) PROVE TypeOK'
  BY <1>15 DEF AgentEnd
<1>16. CASE UNCHANGED vars
  BY <1>16 DEF vars
<1>17. QED
  BY <1>1, <1>2, <1>3, <1>4, <1>5, <1>6, <1>7, <1>8, <1>9, <1>10, <1>11,
     <1>12, <1>13, <1>14, <1>15, <1>16
  DEF Next, CrawlerNext, SchedulerStep, AgentStep

(* Type correctness, for instances of any size.                            *)
THEOREM TypeCorrect == Spec => []TypeOK
<1>1. Init => TypeOK
  <2> SUFFICES ASSUME Init PROVE TypeOK
    OBVIOUS
  <2>1. /\ wanted \in BOOLEAN /\ again \in BOOLEAN
        /\ agentWanted \in [Platform -> BOOLEAN]
    <3>1. TRUE \in BOOLEAN /\ FALSE \in BOOLEAN
      OBVIOUS
    <3>2. wanted = TRUE /\ again = FALSE /\ agentWanted = [q \in Platform |-> TRUE]
      BY DEF Init
    <3>3. [q \in Platform |-> TRUE] \in [Platform -> BOOLEAN]
      BY <3>1
    <3>4. QED
      BY <3>1, <3>2, <3>3
  <2>2. build \in [BuildRow -> [new : Nat, claimed : Nat]]
    BY DEF Init
  <2>3. QED
    BY <2>1, <2>2, FaultsAssumption DEF Init, TypeOK, CommitStatus
<1>2. QED
  BY <1>1, TypeStep, PTL DEF Spec

-----------------------------------------------------------------------------
(* The crawler's transaction and the builds.  What the crawler has written *)
(* but not committed is new or retired; it inserts only commits which are  *)
(* not there, for nobody else does.  What the scheduler has read has no    *)
(* builds, although it may have been retired meanwhile.                    *)
Written ==
    /\ crawler # "open" => dirty = {}
    /\ crawler = "open" => \A r \in Row : view[r] = "none" => status[r] = "none"
    /\ \A r \in dirty : \/ view[r] = "old"
                        \/ view[r] = "new" /\ status[r] = "none"

Unscheduled ==
    /\ \A r \in todo : status[r] # "none"
    /\ \A x \in BuildRow : x[1] \in todo => Builds(x) = 0

Scheduled == Written /\ Unscheduled /\ BuildsMatchStatus

(* A step stores the builds of a commit exactly when it makes it building. *)
LEMMA ScheduledStep == TypeOK /\ Scheduled /\ [Next]_vars => Scheduled'
<1> SUFFICES ASSUME TypeOK, Scheduled, [Next]_vars PROVE Scheduled'
  OBVIOUS
<1> USE DEF TypeOK, CommitStatus, Scheduled, Written, Unscheduled,
            BuildsMatchStatus, Builds, Needed
<1>0. \A x \in BuildRow : /\ x[1] \in Row
                          /\ build[x].new \in Nat /\ build[x].claimed \in Nat
  BY DEF BuildRow
<1>1. CASE CrawlBegin
  BY <1>1 DEF CrawlBegin, commitVars, schedulerVars
<1>2. CASE CrawlWrite
  <2>1. Written'
    BY <1>2 DEF CrawlWrite
  <2>2. \A r \in Row : \/ status'[r] = status[r]
                       \/ status'[r] = "old"
                       \/ status'[r] = "new" /\ status[r] = "none"
    BY <1>2 DEF CrawlWrite
  <2>3. build' = build /\ todo' = todo
    BY <1>2 DEF CrawlWrite, schedulerVars
  <2>4. QED
    BY <2>1, <2>2, <2>3, <1>0
<1>3. CASE CrawlTrigger
  BY <1>3 DEF CrawlTrigger, commitVars
<1>4. CASE CrawlEnd
  BY <1>4 DEF CrawlEnd, commitVars, schedulerVars
<1>5. CASE CrawlAbort
  BY <1>5 DEF CrawlAbort, commitVars, schedulerVars
<1>6. ASSUME NEW row \in Row, CrawlCommit(row) PROVE Scheduled'
  BY <1>6 DEF CrawlCommit, commitVars, schedulerVars, Current
<1>7. CASE SchedulerBegin
  BY <1>7 DEF SchedulerBegin, commitVars, crawlerVars
<1>8. CASE SchedulerRead
  BY <1>8, <1>0 DEF SchedulerRead, commitVars, crawlerVars
<1>9. CASE SchedulerWrite
  <2>1. /\ \A r \in Row : status'[r] = IF r \in todo THEN "building" ELSE status[r]
        /\ \A x \in BuildRow :
              build'[x] = IF Due(x) THEN [build[x] EXCEPT !.new = @ + 1]
                          ELSE build[x]
        /\ todo' = {} /\ UNCHANGED <<view, dirty, crawler>>
    BY <1>9 DEF SchedulerWrite, crawlerVars
  <2>2. ASSUME NEW x \in BuildRow
        PROVE  Builds(x)' = IF Due(x) THEN 1 ELSE Builds(x)
    <3>1. CASE Due(x)
      <4>1. build'[x] = [build[x] EXCEPT !.new = @ + 1]
        BY <2>1, <3>1
      <4>2. build[x].new = 0 /\ build[x].claimed = 0
        BY <3>1, <1>0 DEF Due
      <4>3. build[x] \in [new : Nat, claimed : Nat]
        OBVIOUS
      <4>4. build'[x].new = 1 /\ build'[x].claimed = 0
        BY <4>1, <4>2, <4>3
      <4>5. QED
        BY <3>1, <4>4
    <3>2. CASE ~Due(x)
      BY <2>1, <3>2
    <3>3. QED
      BY <3>1, <3>2
  <2>3. Written'
    BY <2>1
  <2>4. QED
    BY <2>1, <2>2, <2>3, <1>0 DEF Due
<1>10. CASE SchedulerCount
  BY <1>10 DEF SchedulerCount, commitVars, crawlerVars
<1>11. ASSUME NEW q \in {"linux", "windows"}, SchedulerTrigger(q)
       PROVE  Scheduled'
  BY <1>11 DEF SchedulerTrigger, commitVars, crawlerVars
<1>12. CASE SchedulerAbort
  BY <1>12 DEF SchedulerAbort, commitVars, crawlerVars
<1>13. ASSUME NEW q \in Platform, AgentBegin(q) PROVE Scheduled'
  BY <1>13 DEF AgentBegin, commitVars, crawlerVars, schedulerVars
<1>14. ASSUME NEW q \in Platform, AgentClaim(q) PROVE Scheduled'
  <2>1. PICK y \in BuildRow :
            /\ build[y].new > 0
            /\ build' = [build EXCEPT ![y] = [new |-> @.new - 1,
                                             claimed |-> @.claimed + 1]]
    BY <1>14 DEF AgentClaim, Claimable, NewBuilds
  <2>2. /\ build'[y].new = build[y].new - 1
        /\ build'[y].claimed = build[y].claimed + 1
        /\ \A x \in BuildRow \ {y} : build'[x] = build[x]
    BY <2>1
  <2>3. \A x \in BuildRow : Builds(x)' = Builds(x)
    BY <2>2, <1>0
  <2>4. QED
    BY <1>14, <2>3 DEF AgentClaim, commitVars, crawlerVars, schedulerVars
<1>15. ASSUME NEW q \in Platform, AgentEnd(q) PROVE Scheduled'
  BY <1>15 DEF AgentEnd, commitVars, crawlerVars, schedulerVars
<1>16. CASE UNCHANGED vars
  BY <1>16 DEF vars, commitVars, crawlerVars, schedulerVars
<1>17. QED
  BY <1>1, <1>2, <1>3, <1>4, <1>5, <1>6, <1>7, <1>8, <1>9, <1>10, <1>11,
     <1>12, <1>13, <1>14, <1>15, <1>16
  DEF Next, CrawlerNext, SchedulerStep, AgentStep

LEMMA ScheduledInit == Init => Scheduled
  BY DEF Init, Scheduled, Written, Unscheduled, BuildsMatchStatus, Builds,
         Needed, BuildRow

(* Every commit is scheduled at most once and with all of its builds,      *)
(* although the scheduler sets commits to building which the crawler has   *)
(* retired since, and the crawler retires commits it saw as new.           *)
THEOREM ScheduledOnce == Spec => []BuildsMatchStatus
<1>1. Scheduled => BuildsMatchStatus
  BY DEF Scheduled
<1>2. QED
  BY <1>1, TypeCorrect, ScheduledInit, ScheduledStep, PTL DEF Spec

-----------------------------------------------------------------------------
(* The commit inserted last.  Where the crawler has touched a line there   *)
(* is one commit it has just inserted, which retired all others it saw.    *)
Replaced ==
    /\ crawler # "open" => dirty = {}
    /\ \A r \in dirty : \E n \in dirty : LineOf(n) = LineOf(r) /\ view[n] = "new"
    /\ \A l \in Line : newest[l] # NoCommit => LineOf(newest[l]) = l
    /\ NewestIsCurrent

(* A step which retires the newest commit of a line inserts a newer one.  *)
LEMMA ReplacedStep == TypeOK /\ Replaced /\ [Next]_vars => Replaced'
<1> SUFFICES ASSUME TypeOK, Replaced, [Next]_vars PROVE Replaced'
  OBVIOUS
<1> USE DEF TypeOK, CommitStatus, Replaced, NewestIsCurrent, Current,
            commitVars, crawlerVars
<1>0. \A r \in Row : LineOf(r) \in Line
  BY DEF Row, LineOf
<1>1. CASE CrawlBegin
  BY <1>1 DEF CrawlBegin
<1>2. CASE CrawlWrite
  <2>1. ASSUME NEW l \in Line, newest'[l] # NoCommit
        PROVE  Current(status'[newest'[l]])
    <3>1. CASE \E r \in dirty : LineOf(r) = l /\ view[r] = "new"
      <4>1. newest'[l] = CHOOSE r \in dirty : LineOf(r) = l /\ view[r] = "new"
        BY <1>2, <3>1 DEF CrawlWrite
      <4>2. newest'[l] \in dirty /\ view[newest'[l]] = "new"
        BY <4>1, <3>1
      <4>3. QED
        BY <1>2, <4>2 DEF CrawlWrite
    <3>2. CASE ~\E r \in dirty : LineOf(r) = l /\ view[r] = "new"
      <4>1. newest'[l] = newest[l] /\ newest[l] \in Row
        BY <1>2, <2>1, <3>2 DEF CrawlWrite
      <4>2. LineOf(newest[l]) = l
        BY <2>1, <4>1
      <4>3. newest[l] \notin dirty
        BY <3>2, <4>2
      <4>4. QED
        BY <1>2, <2>1, <4>1, <4>3 DEF CrawlWrite
    <3>3. QED
      BY <3>1, <3>2
  <2>2. ASSUME NEW l \in Line, newest'[l] # NoCommit
        PROVE  LineOf(newest'[l]) = l
    <3>1. CASE \E r \in dirty : LineOf(r) = l /\ view[r] = "new"
      BY <1>2, <3>1 DEF CrawlWrite
    <3>2. CASE ~\E r \in dirty : LineOf(r) = l /\ view[r] = "new"
      BY <1>2, <2>2, <3>2 DEF CrawlWrite
    <3>3. QED
      BY <3>1, <3>2
  <2>3. QED
    BY <1>2, <2>1, <2>2 DEF CrawlWrite
<1>3. CASE CrawlTrigger
  BY <1>3 DEF CrawlTrigger
<1>4. CASE CrawlEnd
  BY <1>4 DEF CrawlEnd
<1>5. CASE CrawlAbort
  BY <1>5 DEF CrawlAbort
<1>6. ASSUME NEW row \in Row, CrawlCommit(row) PROVE Replaced'
  BY <1>6, <1>0 DEF CrawlCommit
<1>7. CASE SchedulerBegin \/ SchedulerRead \/ SchedulerCount \/ SchedulerAbort
  BY <1>7 DEF SchedulerBegin, SchedulerRead, SchedulerCount, SchedulerAbort
<1>8. CASE SchedulerWrite
  BY <1>8 DEF SchedulerWrite
<1>9. ASSUME NEW q \in {"linux", "windows"}, SchedulerTrigger(q)
      PROVE  Replaced'
  BY <1>9 DEF SchedulerTrigger
<1>10. ASSUME NEW q \in Platform, AgentStep(q) PROVE Replaced'
  BY <1>10 DEF AgentStep, AgentBegin, AgentClaim, AgentEnd
<1>11. CASE UNCHANGED vars
  BY <1>11 DEF vars
<1>12. QED
  BY <1>1, <1>2, <1>3, <1>4, <1>5, <1>6, <1>7, <1>8, <1>9, <1>10, <1>11
  DEF Next, CrawlerNext, SchedulerStep

(* The commit crawled last on a line is never old: its builds are wanted,  *)
(* and neither the scheduler's writes nor the crawler's next transaction   *)
(* on other lines retire it.                                               *)
THEOREM NewestStaysCurrent == Spec => []NewestIsCurrent
<1>1. Init => Replaced
  BY DEF Init, Replaced, NewestIsCurrent
<1>2. Replaced => NewestIsCurrent
  BY DEF Replaced
<1>3. QED
  BY <1>1, <1>2, TypeCorrect, ReplacedStep, PTL DEF Spec

-----------------------------------------------------------------------------
(* Triggers.  When the scheduler has read the new commits, another one is  *)
(* waiting for the next iteration and not for a further round of this one, *)
(* for `again` is assigned anew.                                           *)
Announced ==
    faults = 0 => \A r \in Row : status[r] = "new" =>
        \/ r \in todo \/ scheduler = "read"
        \/ again /\ scheduler \in {"count", "linux", "windows"}
        \/ wanted \/ crawler = "trigger"

(* Every step announces what it stores, or keeps what was announced.       *)
LEMMA AnnouncedStep ==
    TypeOK /\ Announced /\ BuildNotForgotten /\ [Next]_vars
        => Announced' /\ BuildNotForgotten'
<1> SUFFICES ASSUME TypeOK, Announced, BuildNotForgotten, [Next]_vars
             PROVE  Announced' /\ BuildNotForgotten'
  OBVIOUS
<1> USE FaultsAssumption
    DEF TypeOK, CommitStatus, Announced, BuildNotForgotten, Fault,
        commitVars, crawlerVars, schedulerVars, agentVars
<1>0. \A x \in BuildRow : PlatformOf[x[2]] \in Platform \cap {"linux", "windows"}
  BY PlatformAssumption DEF BuildRow
<1>1. CASE CrawlBegin \/ CrawlEnd
  BY <1>1 DEF CrawlBegin, CrawlEnd, NewBuilds
<1>2. CASE CrawlWrite
  BY <1>2 DEF CrawlWrite, NewBuilds
<1>3. CASE CrawlTrigger
  BY <1>3 DEF CrawlTrigger, NewBuilds
<1>4. CASE CrawlAbort \/ SchedulerAbort
  <2>1. faults' # 0
    BY <1>4 DEF CrawlAbort, SchedulerAbort
  <2>2. QED
    BY <2>1
<1>5. ASSUME NEW row \in Row, CrawlCommit(row)
      PROVE  Announced' /\ BuildNotForgotten'
  BY <1>5 DEF CrawlCommit, NewBuilds
<1>6. CASE SchedulerBegin \/ SchedulerRead
  <2>1. UNCHANGED <<status, newest, build, agent, agentWanted, faults>>
        /\ scheduler \notin {"count", "linux", "windows"}
    BY <1>6 DEF SchedulerBegin, SchedulerRead
  <2>2. Announced'
    <3>1. CASE SchedulerBegin
      BY <2>1, <3>1 DEF SchedulerBegin
    <3>2. CASE SchedulerRead
      BY <2>1, <3>2 DEF SchedulerRead
    <3>3. QED
      BY <1>6, <3>1, <3>2
  <2>3. BuildNotForgotten'
    <3>1. NewBuilds' = NewBuilds
      BY <2>1 DEF NewBuilds
    <3>2. ASSUME faults' = 0, NEW x \in NewBuilds
          PROVE  agent[PlatformOf[x[2]]] = "busy" \/ agentWanted[PlatformOf[x[2]]]
      BY <2>1, <3>2, <1>0 DEF NewBuilds
    <3>3. QED
      BY <2>1, <3>1, <3>2
  <2>4. QED
    BY <2>2, <2>3
<1>7. CASE SchedulerWrite
  BY <1>7 DEF SchedulerWrite, NewBuilds
<1>8. CASE SchedulerCount
  BY <1>8, <1>0 DEF SchedulerCount, NewBuilds
<1>9. ASSUME NEW q \in {"linux", "windows"}, SchedulerTrigger(q)
      PROVE  Announced' /\ BuildNotForgotten'
  <2>1. Announced'
    BY <1>9 DEF SchedulerTrigger
  <2>2. BuildNotForgotten'
    BY <1>9, <1>0 DEF SchedulerTrigger, NewBuilds
  <2>3. QED
    BY <2>1, <2>2
<1>10. ASSUME NEW q \in Platform, AgentBegin(q)
       PROVE  Announced' /\ BuildNotForgotten'
  BY <1>10, <1>0 DEF AgentBegin, NewBuilds
<1>11. ASSUME NEW q \in Platform, AgentClaim(q)
       PROVE  Announced' /\ BuildNotForgotten'
  <2>1. PICK y \in BuildRow :
            build' = [build EXCEPT ![y] = [new |-> @.new - 1,
                                           claimed |-> @.claimed + 1]]
    BY <1>11 DEF AgentClaim, Claimable, NewBuilds
  <2>2. NewBuilds' \subseteq NewBuilds
    BY <1>11 DEF AgentClaim, Claimable, NewBuilds
  <2>3. QED
    BY <1>11, <2>2 DEF AgentClaim
<1>12. ASSUME NEW q \in Platform, AgentEnd(q)
       PROVE  Announced' /\ BuildNotForgotten'
  BY <1>12, <1>0 DEF AgentEnd, Claimable, NewBuilds
<1>13. CASE UNCHANGED vars
  BY <1>13 DEF vars, NewBuilds
<1>14. QED
  BY <1>1, <1>2, <1>3, <1>4, <1>5, <1>6, <1>7, <1>8, <1>9, <1>10, <1>11,
     <1>12, <1>13
  DEF Next, CrawlerNext, SchedulerStep, AgentStep

(* At first nothing is stored. *)
LEMMA AnnouncedInit == Init => Announced /\ BuildNotForgotten
  BY DEF Init, Announced, BuildNotForgotten, NewBuilds

(* A new commit is always on its way to the scheduler, and a new build to  *)
(* its agents: without a lost request or a crash no interleaving of the    *)
(* three services and their triggers leaves one behind.                    *)
THEOREM CommitsRemembered == Spec => []CommitNotForgotten
<1>1. Announced => CommitNotForgotten
  BY DEF Announced, CommitNotForgotten
<1>2. QED
  BY <1>1, TypeCorrect, AnnouncedInit, AnnouncedStep, PTL DEF Spec

(* The same for a build and the agents of its platform.                    *)
THEOREM BuildsRemembered == Spec => []BuildNotForgotten
  BY TypeCorrect, AnnouncedInit, AnnouncedStep, PTL DEF Spec

-----------------------------------------------------------------------------
(* The life of a build, for which BuildLife has one worker: the agents of  *)
(* its platform.                                                           *)
PhaseOf(x) == IF Builds(x) = 0 THEN "absent"
              ELSE IF build[x].new # 0 THEN "waiting" ELSE "running"

OwnersOf(x) == IF build[x].claimed # 0 THEN {PlatformOf[x[2]]} ELSE {}

Life(x) == INSTANCE BuildLife
           WITH Worker <- Platform, phase <- PhaseOf(x), workers <- OwnersOf(x)

LEMMA LifeInit == ASSUME NEW x \in BuildRow, Init PROVE Life(x)!Init
<1>1. PhaseOf(x) = "absent" /\ OwnersOf(x) = {}
  BY DEF Init, PhaseOf, OwnersOf, Builds
<1>2. QED
  BY <1>1 DEF Life!Init

(* A build is inserted once, before the agents can take it, and claimed    *)
(* once.                                                                   *)
LEMMA EveryStepInLife ==
    ASSUME TypeOK, Scheduled, [Next]_vars, NEW x \in BuildRow
    PROVE  Life(x)!Step
<1>0. /\ build[x] \in [new : Nat, claimed : Nat]
      /\ Builds(x) <= 1
  <2>1. Builds(x) <= IF Needed(x) THEN 1 ELSE 0
    BY DEF Scheduled, BuildsMatchStatus
  <2>2. build[x] \in [new : Nat, claimed : Nat]
    BY DEF TypeOK
  <2>3. QED
    BY <2>1, <2>2 DEF Builds
<1>1. ASSUME build'[x] = build[x] PROVE Life(x)!Step
  BY <1>1 DEF PhaseOf, OwnersOf, Builds, Life!Step, Life!vars
<1>2. CASE SchedulerWrite
  <2>1. CASE Due(x)
    <3>1. build'[x] = [build[x] EXCEPT !.new = @ + 1]
      BY <1>2, <2>1 DEF SchedulerWrite
    <3>2. build[x].new = 0 /\ build[x].claimed = 0
      BY <1>0, <2>1 DEF Due, Scheduled, Unscheduled, Builds
    <3>3. build'[x].new = 1 /\ build'[x].claimed = 0
      BY <1>0, <3>1, <3>2
    <3>4. PhaseOf(x) = "absent" /\ PhaseOf(x)' = "waiting" /\ OwnersOf(x)' = {}
      BY <3>2, <3>3 DEF PhaseOf, OwnersOf, Builds
    <3>5. QED
      BY <3>4 DEF Life!Step, Life!Next, Life!Insert, Life!Move
  <2>2. CASE ~Due(x)
    BY <1>1, <1>2, <2>2 DEF SchedulerWrite
  <2>3. QED
    BY <2>1, <2>2
<1>3. ASSUME NEW q \in Platform, AgentClaim(q) PROVE Life(x)!Step
  <2>1. PICK y \in BuildRow :
            /\ build[y].new > 0
            /\ build' = [build EXCEPT ![y] = [new |-> @.new - 1,
                                             claimed |-> @.claimed + 1]]
    BY <1>3 DEF AgentClaim, Claimable, NewBuilds
  <2>2. CASE x = y
    <3>1. build[x].new = 1 /\ build[x].claimed = 0
      BY <1>0, <2>1, <2>2 DEF Builds
    <3>2. build'[x].new = 0 /\ build'[x].claimed = 1
      BY <2>1, <2>2, <3>1 DEF TypeOK
    <3>3. /\ PhaseOf(x) = "waiting" /\ PhaseOf(x)' = "running"
          /\ OwnersOf(x)' = {PlatformOf[x[2]]}
      BY <3>1, <3>2 DEF PhaseOf, OwnersOf, Builds
    <3>4. PlatformOf[x[2]] \in Platform
      BY PlatformAssumption DEF BuildRow
    <3>5. QED
      BY <3>3, <3>4 DEF Life!Step, Life!Next, Life!Claim
  <2>3. CASE x # y
    BY <1>1, <2>1, <2>3 DEF TypeOK
  <2>4. QED
    BY <2>2, <2>3
<1>4. CASE UNCHANGED build
  BY <1>1, <1>4
<1>5. QED
  BY <1>2, <1>3, <1>4
  DEF Next, CrawlerNext, SchedulerStep, AgentStep, CrawlBegin, CrawlWrite,
      CrawlTrigger, CrawlEnd, CrawlAbort, CrawlCommit, SchedulerBegin,
      SchedulerRead, SchedulerCount, SchedulerTrigger, SchedulerAbort,
      AgentBegin, AgentEnd, vars

(* Whatever crashes or is lost, each build a commit needs leads the life   *)
(* BuildLife promises: the scheduler inserts it once, and one agent claims *)
(* it.                                                                     *)
THEOREM BuildsLive == \A x \in BuildRow : Spec => Life(x)!Spec
<1> SUFFICES ASSUME NEW x \in BuildRow PROVE Spec => Life(x)!Spec
  OBVIOUS
<1>1. Init => Life(x)!Init
  BY LifeInit
<1>2. TypeOK /\ Scheduled /\ [Next]_vars => [Life(x)!Next]_(Life(x)!vars)
  BY EveryStepInLife DEF Life!Step
<1>3. QED
  BY <1>1, <1>2, TypeCorrect, ScheduledInit, ScheduledStep, PTL
  DEF Spec, Life!Spec

-----------------------------------------------------------------------------
(* The flags and the requests.  As seen by the crawler, the scheduler is   *)
(* what Wakeup promises; so are the agents of a platform, as seen by the   *)
(* scheduler, which triggers both platforms one after the other.           *)
SchedulerMode == IF scheduler = "idle" THEN "idle" ELSE "busy"
ToScheduler == IF crawler = "trigger" THEN 1 ELSE 0
ToAgents(q) == IF scheduler = q \/ (scheduler = "linux" /\ q = "windows")
               THEN 1 ELSE 0

Asking == INSTANCE Wakeup WITH mode <- SchedulerMode, inflight <- ToScheduler

Asked(q) == INSTANCE Wakeup WITH mode <- agent[q], wanted <- agentWanted[q],
                                 inflight <- ToAgents(q)

SchedulerServes == [Asking!Next]_(Asking!vars)
AgentsServe(q) == [Asked(q)!Next]_(Asked(q)!vars)

(* A step which nothing fails in leaves what Wakeup sees, or is a step of  *)
(* it.                                                                     *)
LEMMA SchedulerServesStep ==
    ASSUME TypeOK, [Next]_vars, faults' = faults
    PROVE  SchedulerServes
<1> USE DEF SchedulerServes, Asking!Next, Asking!vars, SchedulerMode,
            ToScheduler
<1>1. CASE CrawlTrigger
  <2>1. wanted' = TRUE
    BY <1>1, FaultsAssumption DEF CrawlTrigger, Fault, TypeOK
  <2>2. wanted' = (SchedulerMode # "stopped")
    <3>1. (SchedulerMode # "stopped") = TRUE
      OBVIOUS
    <3>2. QED
      BY <2>1, <3>1, Zenon
  <2>3. ToScheduler = 1 /\ ToScheduler' = 0 /\ UNCHANGED SchedulerMode
    BY <1>1 DEF CrawlTrigger
  <2>4. ToScheduler > 0 /\ ToScheduler' = ToScheduler - 1
    BY <2>3
  <2>5. Asking!Arrive
    BY <2>2, <2>3, <2>4, Zenon DEF Asking!Arrive
  <2>6. QED
    BY <2>5
<1>2. CASE CrawlWrite
  BY <1>2 DEF CrawlWrite, schedulerVars, Asking!Trigger
<1>3. CASE SchedulerBegin
  BY <1>3 DEF SchedulerBegin, crawlerVars, Asking!Begin
<1>4. CASE \/ SchedulerRead \/ SchedulerWrite \/ SchedulerCount
           \/ \E q \in {"linux", "windows"} : SchedulerTrigger(q)
  <2>1. UNCHANGED <<crawler, wanted>> /\ scheduler # "idle"
    BY <1>4 DEF SchedulerRead, SchedulerWrite, SchedulerCount,
       SchedulerTrigger, crawlerVars
  <2>2. QED
    BY <2>1 DEF Asking!End
<1>5. CASE CrawlAbort \/ SchedulerAbort
  BY <1>5, FaultsAssumption DEF CrawlAbort, SchedulerAbort, Fault, TypeOK
<1>6. CASE \/ CrawlBegin \/ CrawlEnd \/ \E row \in Row : CrawlCommit(row)
           \/ \E q \in Platform : AgentStep(q)
           \/ UNCHANGED vars
  <2>1. UNCHANGED <<wanted, scheduler>>
        /\ (crawler' = "trigger" <=> crawler = "trigger")
    BY <1>6 DEF CrawlBegin, CrawlEnd, CrawlCommit, AgentStep, AgentBegin,
       AgentClaim, AgentEnd, crawlerVars, schedulerVars, vars
  <2>2. QED
    BY <2>1
<1>7. QED
  BY <1>1, <1>2, <1>3, <1>4, <1>5, <1>6 DEF Next, CrawlerNext, SchedulerStep

LEMMA AgentsServeStep ==
    ASSUME TypeOK, [Next]_vars, faults' = faults, NEW q \in Platform
    PROVE  AgentsServe(q)
<1> USE PlatformAssumption DEF AgentsServe, Asked!Next, Asked!vars, ToAgents
<1>1. ASSUME NEW t \in {"linux", "windows"}, SchedulerTrigger(t)
      PROVE  AgentsServe(q)
  <2>1. /\ scheduler = t /\ UNCHANGED agent
        /\ scheduler' = IF t = "linux" THEN "windows"
                        ELSE IF again THEN "read" ELSE "idle"
        /\ agentWanted' = IF t \in Platform THEN [agentWanted EXCEPT ![t] = TRUE]
                          ELSE agentWanted
    BY <1>1, FaultsAssumption DEF SchedulerTrigger, Fault, TypeOK
  <2>2. CASE q = t
    <3>1. agentWanted'[q] = TRUE
      BY <2>1, <2>2 DEF TypeOK
    <3>2. scheduler = q /\ scheduler' # q
          /\ ~(scheduler' = "linux" /\ q = "windows")
      BY <2>1, <2>2
    <3>3. agentWanted'[q] = (agent[q] # "stopped")
      <4>1. (agent[q] # "stopped") = TRUE
        BY DEF TypeOK
      <4>2. QED
        BY <3>1, <4>1, Zenon
    <3>4. Asked(q)!Arrive
      <4>1. UNCHANGED agent[q]
        BY <2>1
      <4>2. ToAgents(q) = 1 /\ ToAgents(q)' = 0
        BY <3>2
      <4>3. QED
        BY <3>3, <4>1, <4>2 DEF Asked!Arrive
    <3>5. QED
      BY <3>4
  <2>3. CASE q # t
    BY <2>1, <2>3 DEF TypeOK
  <2>4. QED
    BY <2>2, <2>3
<1>2. CASE SchedulerCount
  BY <1>2 DEF SchedulerCount, agentVars, Asked!Trigger
<1>3. ASSUME NEW p \in Platform, AgentBegin(p) PROVE AgentsServe(q)
  BY <1>3 DEF AgentBegin, schedulerVars, Asked!Begin, TypeOK
<1>4. ASSUME NEW p \in Platform, AgentEnd(p) PROVE AgentsServe(q)
  BY <1>4 DEF AgentEnd, schedulerVars, Asked!End, TypeOK
<1>5. CASE SchedulerBegin \/ SchedulerRead \/ SchedulerWrite
  BY <1>5 DEF SchedulerBegin, SchedulerRead, SchedulerWrite, agentVars
<1>6. CASE CrawlAbort \/ SchedulerAbort
  BY <1>6, FaultsAssumption DEF CrawlAbort, SchedulerAbort, Fault, TypeOK
<1>7. CASE \/ CrawlBegin \/ CrawlWrite \/ CrawlTrigger \/ CrawlEnd
           \/ \E row \in Row : CrawlCommit(row)
           \/ \E p \in Platform : AgentClaim(p)
           \/ UNCHANGED vars
  <2>1. UNCHANGED <<scheduler, agent, agentWanted>>
    BY <1>7 DEF CrawlBegin, CrawlWrite, CrawlTrigger, CrawlEnd, CrawlCommit,
       AgentClaim, agentVars, schedulerVars, vars
  <2>2. QED
    BY <2>1
<1>8. QED
  BY <1>1, <1>2, <1>3, <1>4, <1>5, <1>6, <1>7
  DEF Next, CrawlerNext, SchedulerStep, AgentStep

(* What the pipeline takes from Worker is what Worker gives: unless a      *)
(* request is lost or somebody crashes, the flags of the scheduler and of  *)
(* the agents take part in the steps of Wakeup and in no others.           *)
THEOREM TriggersServed ==
    Spec => /\ Asking!Init /\ \A q \in Platform : Asked(q)!Init
            /\ [][faults' = faults =>
                    SchedulerServes /\ \A q \in Platform : AgentsServe(q)]_vars
<1>1. Init => Asking!Init /\ \A q \in Platform : Asked(q)!Init
  BY PlatformAssumption DEF Init, Asking!Init, Asked!Init, SchedulerMode,
     ToScheduler, ToAgents
<1>2. TypeOK /\ [Next]_vars =>
          [faults' = faults =>
              SchedulerServes /\ \A q \in Platform : AgentsServe(q)]_vars
  BY SchedulerServesStep, AgentsServeStep
<1>3. QED
  BY <1>1, <1>2, TypeCorrect, PTL DEF Spec

=============================================================================
