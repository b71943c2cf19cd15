----------------------------- MODULE CrawlerLoop -----------------------------
(***************************************************************************)
(* The crawler service as a Worker: what its work() does with the payload  *)
(* of a trigger, the timer it sets, and the queue of updates which the     *)
(* HTTP handler fills before it triggers the worker.  What crawling a      *)
(* repository does to the commits is the business of CommitPipeline.       *)
(***************************************************************************)
EXTENDS Worker

CONSTANTS
    AllRepos,  \* the payload ALL_REPOS
    Update,    \* the updates requested by users and by GitHub
    MaxErrors  \* how many times crawling fails with an exception

ASSUME AllReposAssumption == Payload = {AllRepos, NoPayload}
ASSUME MaxErrorsAssumption == MaxErrors \in Nat

VARIABLES
    crawl,     \* where work() of the crawler is
    periodic,  \* __periodic
    repos,     \* the queue __repos
    announced, \* updates put into the queue, trigger() not yet called
    unserved,  \* history: updates no crawl has begun for since they came
    errors     \* how many crawls failed

crawlerVars == <<crawl, periodic, repos, announced, unserved, errors>>
allVars == <<vars, crawlerVars>>

(* Where work() is:                                                        *)
(*   off   not in work()          entry   at its first line                *)
(*   all   crawling all repos     drain   taking the next update           *)
(*   one   crawling an update     done    about to return                  *)
(*   failed  handling an exception                                         *)
Crawl == {"off", "entry", "all", "drain", "one", "done", "failed"}

CrawlerInit ==
    /\ Init
    /\ crawl = "off"
    /\ periodic = TRUE
    /\ repos = <<>>
    /\ announced = {}
    /\ unserved = {}
    /\ errors = 0

-----------------------------------------------------------------------------

(* Mutant: work() is not left when the worker is cancelled. *)
WorkerStepInWork ==
    /\ LoopNext \/ Acquire \/ InterruptWork \/ ControlNext
       \/ \E p \in Payload : TimerExpires(p)
    /\ crawl' = IF task' = "working" /\ task # "working" THEN "entry" ELSE crawl
    /\ UNCHANGED <<periodic, repos, announced, unserved, errors>>

(* Steps of the worker outside of work(); an iteration enters work(). *)
WorkerStep ==
    /\ LoopNext \/ Acquire \/ InterruptWork \/ ControlNext
       \/ \E p \in Payload : TimerExpires(p)
    /\ crawl' = IF task' = "working" /\ task # "working" THEN "entry"
                ELSE IF task' = "finished" THEN "off" ELSE crawl
    /\ UNCHANGED <<periodic, repos, announced, unserved, errors>>

(* The first branch of work(): crawling all repositories starts. *)
EnterAll ==
    /\ crawl = "entry" /\ (payload = AllRepos \/ periodic)
    /\ crawl' = "all"
    /\ periodic' = FALSE
    /\ unserved' = {}
    /\ UNCHANGED <<vars, repos, announced, errors>>

EnterUpdates ==
    /\ crawl = "entry" /\ payload # AllRepos /\ ~periodic
    /\ crawl' = "drain"
    /\ UNCHANGED <<vars, periodic, repos, announced, unserved, errors>>

(* All repositories were crawled: the next time is scheduled. *)
ReturnFromAll ==
    /\ crawl = "all"
    /\ Return(Rescheduled(AllRepos))
    /\ crawl' = "off"
    /\ UNCHANGED <<periodic, repos, announced, unserved, errors>>

(* __get_repos takes the next update; crawling its repository starts. *)
TakeUpdate ==
    /\ crawl = "drain" /\ repos # <<>>
    /\ crawl' = "one"
    /\ repos' = Tail(repos)
    /\ unserved' = unserved \ {Head(repos)}
    /\ UNCHANGED <<vars, periodic, announced, errors>>

UpdateDone ==
    /\ crawl = "one"
    /\ crawl' = "drain"
    /\ UNCHANGED <<vars, periodic, repos, announced, unserved, errors>>

(* Mutant: only one update is taken in an iteration. *)
ReturnEarly ==
    /\ crawl = "drain"
    /\ Return(timers)
    /\ crawl' = "off"
    /\ UNCHANGED <<periodic, repos, announced, unserved, errors>>

ReturnFromUpdates ==
    /\ crawl = "drain" /\ repos = <<>>
    /\ Return(timers)
    /\ crawl' = "off"
    /\ UNCHANGED <<periodic, repos, announced, unserved, errors>>

(* An exception ends the iteration: no timer is set and the updates which  *)
(* are still queued stay where they are.                                   *)
CrawlFails ==
    /\ crawl \in {"all", "one"} /\ ~cancelled
    /\ errors < MaxErrors
    /\ errors' = errors + 1
    /\ crawl' = "failed"
    /\ UNCHANGED <<vars, periodic, repos, announced, unserved>>

ReturnFromFailure ==
    /\ crawl = "failed"
    /\ Return(timers)
    /\ crawl' = "off"
    /\ UNCHANGED <<periodic, repos, announced, unserved, errors>>

(* GET /process_repo: the update is queued, then the worker is triggered.  *)
(* Each update is requested at most once at a time.                        *)
PutUpdate(u) ==
    /\ triggers + Cardinality(announced) < MaxTriggers
    /\ u \notin announced
    /\ repos' = Append(repos, u)
    /\ announced' = announced \cup {u}
    /\ unserved' = unserved \cup {u}
    /\ UNCHANGED <<vars, crawl, periodic, errors>>

AnnounceUpdate(u) ==
    /\ u \in announced
    /\ announced' = announced \ {u}
    /\ Trigger(NoPayload)
    /\ UNCHANGED <<crawl, periodic, repos, unserved, errors>>

Working == \/ EnterAll \/ EnterUpdates \/ TakeUpdate \/ UpdateDone
           \/ ReturnFromAll \/ ReturnFromUpdates \/ ReturnFromFailure

CrawlerNext ==
    \/ WorkerStep \/ Working \/ CrawlFails
    \/ \E u \in Update : PutUpdate(u) \/ AnnounceUpdate(u)

(* The loop, the crawls and the HTTP handlers make progress and time       *)
(* passes; nobody pauses, cancels or triggers the worker out of fairness.  *)
CrawlerFairness ==
    /\ WF_allVars(WorkerStep /\ (Start \/ LoopNext))
    /\ SF_allVars(WorkerStep /\ Acquire)
    /\ WF_allVars(WorkerStep /\ InterruptWork)
    /\ WF_allVars(WorkerStep /\ (SetPaused \/ Resume \/ Release \/ ClearPaused))
    /\ \A p \in Payload : WF_allVars(WorkerStep /\ TimerExpires(p))
    /\ WF_allVars(Working)
    /\ \A u \in Update : WF_allVars(AnnounceUpdate(u))

CrawlerSpec == CrawlerInit /\ [][CrawlerNext]_allVars /\ CrawlerFairness

-----------------------------------------------------------------------------
(* Properties *)

CrawlerTypeOK ==
    /\ TypeOK
    /\ crawl \in Crawl
    /\ periodic \in BOOLEAN
    /\ repos \in Seq(Update)
    /\ announced \subseteq Update
    /\ unserved \subseteq Update
    /\ errors \in 0..MaxErrors
    /\ (crawl # "off") <=> (task = "working")

(* No queued update is stranded: while updates wait to be crawled, an      *)
(* iteration or a callback which leads to one is under way.  Only a crawl  *)
(* that failed or a worker that was cancelled leaves updates behind.       *)
NotStranded ==
    (unserved # {} /\ errors = 0 /\ ~cancelCall) =>
        \/ announced # {}
        \/ \E i \in DOMAIN ready : ready[i].kind \in {"trigger", "wake"}
        \/ task \in {"none", "starting", "main", "scheduled", "acquire"}
        \/ task = "working" /\ (crawl \in {"entry", "drain", "one"}
                                \/ future = "done")

(* Every update is crawled, by itself or with all repositories, after it   *)
(* was requested, while nothing fails.                                     *)
UpdatesServed ==
    \A u \in Update :
        u \in unserved ~> u \notin unserved \/ cancelCall \/ errors > 0

(* All repositories are crawled periodically as long as no crawl fails.    *)
(* The code does otherwise: when the timer expires while another trigger   *)
(* has just completed the future, its payload is dropped, and as only a    *)
(* crawl of all repositories sets the timer it is never set again.         *)
PeriodicCrawl == []<>(crawl = "all" \/ cancelCall)

=============================================================================
