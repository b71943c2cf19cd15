--------------------------- MODULE CommitPipeline ---------------------------
(***************************************************************************)
(* From a pushed commit to a claimed build: the crawler inserts commits    *)
(* and retires older ones, the scheduler turns new commits into builds,    *)
(* the agents empty the queue of builds; each wakes the next one up by an  *)
(* HTTP request which may get lost.  Crawler and scheduler work on         *)
(* snapshots of the table `commit` (REPEATABLE READ) and write them back   *)
(* when they commit.                                                       *)
(*                                                                         *)
(* Each service is a Worker; of what Wakeup promises for it one flag is    *)
(* left here, which says that an iteration of its work() is due.           *)
(***************************************************************************)
EXTENDS Integers, FiniteSets

CONSTANTS
    Line,       \* pairs of a repository and a channel
    Sha,        \* the commits of a repository
    Profile,    \* the build profiles
    ProfilesOf, \* the profiles a line is built with, its labels permitting
    Platform,   \* the platforms, one service of agents for each
    PlatformOf, \* the platform of a profile
    NoCommit,   \* no commit was crawled yet
    MaxFaults   \* how many crashes and lost requests may occur

Row == Line \X Sha         \* what identifies a row of table commit
BuildRow == Row \X Profile \* ... and rows of table build

ASSUME LineAssumption == ProfilesOf \in [Line -> SUBSET Profile]
ASSUME PlatformAssumption ==
    /\ PlatformOf \in [Profile -> Platform]
    /\ Platform \subseteq {"linux", "windows"}
ASSUME NoCommitAssumption == NoCommit \notin Row
ASSUME FaultsAssumption == MaxFaults \in Nat

VARIABLES
    status,     \* column status of table commit, "none" before the insert
    newest,     \* history: the commit inserted last on a line
    view,       \* the crawler's transaction: the rows as it sees them
    dirty,      \* the rows it has written
    crawler,    \* where the crawler is
    wanted,     \* an iteration of the scheduler is due
    scheduler,  \* where the scheduler is
    todo,       \* the new commits the scheduler has read
    again,      \* new_commits of the scheduler: it goes round once more
    build,      \* how many builds exist of a commit and a profile, by status
    agent,      \* whether the agents of a platform empty the queue
    agentWanted,\* an iteration of these agents is due
    faults

commitVars == <<status, newest>>
crawlerVars == <<view, dirty, crawler>>
schedulerVars == <<wanted, scheduler, todo, again>>
agentVars == <<agent, agentWanted>>
vars == <<commitVars, crawlerVars, schedulerVars, build, agentVars, faults>>

CommitStatus == {"none", "new", "building", "old"}

LineOf(row) == row[1]
Current(s) == s \in {"new", "building"}

Fault == faults < MaxFaults /\ faults' = faults + 1

Init ==
    /\ status = [r \in Row |-> "none"]
    /\ newest = [l \in Line |-> NoCommit]
    /\ view = status /\ dirty = {} /\ crawler = "idle"
    /\ wanted = TRUE /\ scheduler = "idle" /\ todo = {} /\ again = FALSE
    /\ build = [x \in BuildRow |-> [new |-> 0, claimed |-> 0]]
    /\ agent = [q \in Platform |-> "idle"]
    /\ agentWanted = [q \in Platform |-> TRUE]
    /\ faults = 0

-----------------------------------------------------------------------------
(* The crawler. *)

(* A session starts: its first query fixes what the transaction sees. *)
CrawlBegin ==
    /\ crawler = "idle"
    /\ crawler' = "open"
    /\ view' = status /\ dirty' = {}
    /\ UNCHANGED <<commitVars, schedulerVars, build, agentVars, faults>>

(* Mutant: the commits of all lines are retired. *)
CrawlRetiringAll(row) ==
    LET others == {r \in Row : Current(view[r])}
    IN /\ crawler = "open"
       /\ view[row] = "none"
       /\ view' = [r \in Row |-> IF r = row THEN "new"
                                 ELSE IF r \in others THEN "old" ELSE view[r]]
       /\ dirty' = dirty \cup others \cup {row}
       /\ UNCHANGED <<commitVars, crawler, schedulerVars, build, agentVars,
                      faults>>

(* __process_commit for a commit checked out on a line: a commit which is  *)
(* not stored yet is inserted and retires all others of the line.          *)
CrawlCommit(row) ==
    LET others == {r \in Row : LineOf(r) = LineOf(row) /\ Current(view[r])}
    IN /\ crawler = "open"
       /\ view[row] = "none"
       /\ view' = [r \in Row |-> IF r = row THEN "new"
                                 ELSE IF r \in others THEN "old" ELSE view[r]]
       /\ dirty' = dirty \cup others \cup {row}
       /\ UNCHANGED <<commitVars, crawler, schedulerVars, build, agentVars,
                      faults>>

(* session.commit() after a repository with new commits. *)
CrawlWrite ==
    /\ crawler = "open" /\ dirty # {}
    /\ crawler' = "trigger"
    /\ status' = [r \in Row |-> IF r \in dirty THEN view[r] ELSE status[r]]
    /\ newest' = [l \in Line |->
                     IF \E r \in dirty : LineOf(r) = l /\ view[r] = "new"
                     THEN CHOOSE r \in dirty : LineOf(r) = l /\ view[r] = "new"
                     ELSE newest[l]]
    /\ dirty' = {}
    /\ UNCHANGED <<view, schedulerVars, build, agentVars, faults>>

(* Mutant: nobody is triggered. *)
CrawlOn ==
    /\ crawler = "trigger"
    /\ crawler' = "open"
    /\ view' = status
    /\ UNCHANGED <<commitVars, dirty, schedulerVars, build, agentVars, faults>>

(* The scheduler is triggered, or the request is lost; the session goes on *)
(* with the next repository in a new transaction.                          *)
CrawlTrigger ==
    /\ crawler = "trigger"
    /\ crawler' = "open"
    /\ view' = status
    /\ \/ wanted' = TRUE /\ UNCHANGED faults
       \/ Fault /\ UNCHANGED wanted
    /\ UNCHANGED <<commitVars, dirty, scheduler, todo, again, build,
                   agentVars>>

CrawlEnd ==
    /\ crawler = "open" /\ dirty = {}
    /\ crawler' = "idle"
    /\ UNCHANGED <<commitVars, view, dirty, schedulerVars, build, agentVars,
                   faults>>

(* The crawler crashes, or an exception rolls its transaction back. *)
CrawlAbort ==
    /\ crawler # "idle"
    /\ Fault
    /\ crawler' = "idle" /\ dirty' = {}
    /\ UNCHANGED <<commitVars, view, schedulerVars, build, agentVars>>

-----------------------------------------------------------------------------
(* The scheduler. *)

SchedulerBegin ==
    /\ scheduler = "idle" /\ wanted
    /\ scheduler' = "read"
    /\ wanted' = FALSE
    /\ UNCHANGED <<commitVars, crawlerVars, todo, again, build, agentVars,
                   faults>>

(* __process_commits reads the new commits. *)
SchedulerRead ==
    /\ scheduler = "read"
    /\ scheduler' = "write"
    /\ todo' = {r \in Row : status[r] = "new"}
    /\ UNCHANGED <<commitVars, crawlerVars, wanted, again, build, agentVars,
                   faults>>

(* The profiles which share no label with what the repository excludes, and *)
(* the builds of the commits which were read.                              *)
Needed(x) == x[2] \in ProfilesOf[LineOf(x[1])]
Due(x) == x[1] \in todo /\ Needed(x)

(* Mutant: the builds are inserted, the commits stay new. *)
InsertBuildsOnly ==
    /\ scheduler = "write"
    /\ scheduler' = "count"
    /\ build' = [x \in BuildRow |->
                    IF Due(x) THEN [build[x] EXCEPT !.new = @ + 1] ELSE build[x]]
    /\ again' = FALSE
    /\ todo' = {}
    /\ UNCHANGED <<commitVars, crawlerVars, wanted, agentVars, faults>>

(* One transaction inserts the builds of all of them and sets them to      *)
(* building, whatever they are by now.                                     *)
SchedulerWrite ==
    /\ scheduler = "write"
    /\ scheduler' = "count"
    /\ status' = [r \in Row |-> IF r \in todo THEN "building" ELSE status[r]]
    /\ build' = [x \in BuildRow |->
                    IF Due(x) THEN [build[x] EXCEPT !.new = @ + 1] ELSE build[x]]
    /\ again' = \E r \in todo : ProfilesOf[LineOf(r)] # {}
    /\ todo' = {}
    /\ UNCHANGED <<newest, crawlerVars, wanted, agentVars, faults>>

NewBuilds == {x \in BuildRow : build[x].new > 0}

(* Mutant: requests which came during the iteration are forgotten. *)
CountAndForget ==
    /\ scheduler = "count"
    /\ scheduler' = IF NewBuilds # {} THEN "linux"
                    ELSE IF again THEN "read" ELSE "idle"
    /\ wanted' = FALSE
    /\ UNCHANGED <<commitVars, crawlerVars, todo, again, build, agentVars,
                   faults>>

(* Nobody is triggered when there are no new builds. *)
SchedulerCount ==
    /\ scheduler = "count"
    /\ scheduler' = IF NewBuilds # {} THEN "linux"
                    ELSE IF again THEN "read" ELSE "idle"
    /\ UNCHANGED <<commitVars, crawlerVars, wanted, todo, again, build,
                   agentVars, faults>>

(* Mutant: only the Linux agents are triggered. *)
TriggerLinuxOnly(q) ==
    /\ scheduler = q
    /\ scheduler' = IF q = "linux" THEN "windows"
                    ELSE IF again THEN "read" ELSE "idle"
    /\ agentWanted' = IF q = "linux" THEN [agentWanted EXCEPT ![q] = TRUE]
                      ELSE agentWanted
    /\ UNCHANGED <<commitVars, crawlerVars, wanted, todo, again, build, agent,
                   faults>>

(* Both services of agents are triggered, one after the other. *)
SchedulerTrigger(q) ==
    /\ scheduler = q
    /\ scheduler' = IF q = "linux" THEN "windows"
                    ELSE IF again THEN "read" ELSE "idle"
    /\ \/ q \in Platform /\ agentWanted' = [agentWanted EXCEPT ![q] = TRUE]
          /\ UNCHANGED faults
       \/ q \notin Platform /\ UNCHANGED <<agentWanted, faults>>
       \/ Fault /\ UNCHANGED agentWanted
    /\ UNCHANGED <<commitVars, crawlerVars, wanted, todo, again, build, agent>>

(* An exception rolls the transaction back and __process_commits is tried  *)
(* again after a while; a crash ends with a restart, and that with a first *)
(* iteration nobody has to ask for.                                        *)
SchedulerAbort ==
    /\ scheduler # "idle"
    /\ Fault
    /\ \/ scheduler' = "read" /\ UNCHANGED wanted
       \/ scheduler' = "idle" /\ wanted' = TRUE
    /\ todo' = {}
    /\ UNCHANGED <<commitVars, crawlerVars, again, build, agentVars>>

-----------------------------------------------------------------------------
(* The agents of a platform. *)

AgentBegin(q) ==
    /\ agent[q] = "idle" /\ agentWanted[q]
    /\ agent' = [agent EXCEPT ![q] = "busy"]
    /\ agentWanted' = [agentWanted EXCEPT ![q] = FALSE]
    /\ UNCHANGED <<commitVars, crawlerVars, schedulerVars, build, faults>>

(* Mutant: the query does not ask for new builds. *)
AnyBuild(q) == {x \in BuildRow : PlatformOf[x[2]] = q}

Claimable(q) == {x \in NewBuilds : PlatformOf[x[2]] = q}

AgentClaim(q) ==
    /\ agent[q] = "busy"
    /\ \E x \in Claimable(q) :
           build' = [build EXCEPT ![x] = [new |-> @.new - 1,
                                          claimed |-> @.claimed + 1]]
    /\ UNCHANGED <<commitVars, crawlerVars, schedulerVars, agentVars, faults>>

(* Mutant: the agent stops after one build. *)
AgentEndEarly(q) ==
    /\ agent[q] = "busy"
    /\ agent' = [agent EXCEPT ![q] = "idle"]
    /\ UNCHANGED <<commitVars, crawlerVars, schedulerVars, build, agentWanted,
                   faults>>

(* No new build is left.  (A build whose row is locked is skipped as well:  *)
(* another agent claims it, or a user, whose request is not modelled here, *)
(* is changing its status.)                                                *)
AgentEnd(q) ==
    /\ agent[q] = "busy" /\ Claimable(q) = {}
    /\ agent' = [agent EXCEPT ![q] = "idle"]
    /\ UNCHANGED <<commitVars, crawlerVars, schedulerVars, build, agentWanted,
                   faults>>

-----------------------------------------------------------------------------

CrawlerNext == \/ CrawlBegin \/ CrawlWrite \/ CrawlTrigger \/ CrawlEnd
               \/ CrawlAbort \/ \E row \in Row : CrawlCommit(row)

SchedulerStep == \/ SchedulerBegin \/ SchedulerRead \/ SchedulerWrite
                 \/ SchedulerCount
                 \/ \E q \in {"linux", "windows"} : SchedulerTrigger(q)

AgentStep(q) == AgentBegin(q) \/ AgentClaim(q) \/ AgentEnd(q)

Next == \/ CrawlerNext \/ SchedulerStep \/ SchedulerAbort
        \/ \E q \in Platform : AgentStep(q)

(* The services run; nobody needs to push commits, but a transaction which *)
(* has written something is committed and announced.                       *)
Fairness == /\ WF_vars(CrawlWrite) /\ WF_vars(CrawlTrigger)
            /\ WF_vars(SchedulerStep)
            /\ \A q \in Platform : WF_vars(AgentStep(q))

Spec == Init /\ [][Next]_vars /\ Fairness

-----------------------------------------------------------------------------
(* Properties *)

TypeOK ==
    /\ status \in [Row -> CommitStatus]
    /\ newest \in [Line -> Row \cup {NoCommit}]
    /\ view \in [Row -> CommitStatus]
    /\ dirty \subseteq Row
    /\ crawler \in {"idle", "open", "trigger"}
    /\ wanted \in BOOLEAN
    /\ scheduler \in {"idle", "read", "write", "count", "linux", "windows"}
    /\ todo \subseteq Row
    /\ again \in BOOLEAN
    /\ build \in [BuildRow -> [new : Nat, claimed : Nat]]
    /\ agent \in [Platform -> {"idle", "busy"}]
    /\ agentWanted \in [Platform -> BOOLEAN]
    /\ faults \in 0..MaxFaults

(* The commit crawled last on a line is never retired, however the crawler *)
(* and the scheduler overwrite each other's rows.                          *)
NewestIsCurrent ==
    \A l \in Line : newest[l] # NoCommit => Current(status[newest[l]])

Builds(x) == build[x].new + build[x].claimed

(* Every commit is scheduled at most once, with one build for every        *)
(* profile of its line, and exactly when it has become `building`: through *)
(* crashes, retries and stale snapshots no build is missing or doubled.    *)
BuildsMatchStatus ==
    \A x \in BuildRow :
        /\ Builds(x) <= (IF Needed(x) THEN 1 ELSE 0)
        /\ status[x[1]] \in {"none", "new"} => Builds(x) = 0
        /\ status[x[1]] = "building" /\ Needed(x) => Builds(x) = 1

(* Without crashes and lost requests a new commit is always on its way:    *)
(* the scheduler has read it, is about to read, or will be triggered.      *)
CommitNotForgotten ==
    faults = 0 => \A r \in Row : status[r] = "new" =>
        \/ r \in todo \/ scheduler = "read" \/ again
        \/ wanted \/ crawler = "trigger"

(* Without lost requests a new build is always on its way: its agents look *)
(* for builds, will look for builds, or are about to be triggered.         *)
BuildNotForgotten ==
    faults = 0 => \A x \in NewBuilds :
        LET q == PlatformOf[x[2]]
        IN \/ agent[q] = "busy" \/ agentWanted[q]
           \/ scheduler \in {"count", "linux", q}

(* Every commit is built: it is scheduled, or retired by a newer one, and  *)
(* its builds are claimed, unless a request was lost.                      *)
CommitsScheduled ==
    \A r \in Row : status[r] = "new" ~> status[r] # "new" \/ faults > 0

BuildsClaimed ==
    \A x \in BuildRow : build[x].new > 0 ~> build[x].new = 0 \/ faults > 0

(* A line has one commit which is not old: a new commit retires the ones   *)
(* before it.  The code does otherwise when the scheduler read the older   *)
(* commit before the crawler retired it and writes it afterwards.          *)
OneCurrentCommit ==
    \A l \in Line :
        Cardinality({r \in Row : LineOf(r) = l /\ Current(status[r])}) <= 1

=============================================================================
