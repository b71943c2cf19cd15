# Verification of Sonja

Sonja builds C/C++ packages: a crawler finds commits in git repositories, a
scheduler turns them into builds, agents execute the builds in docker
containers with Conan, a watchdog takes back builds whose agent went silent,
and a public HTTP API lets users look at builds, stop and restart them and
manage what is built. The services are separate processes. They share a MySQL
database and wake each other up with HTTP requests; a Redis server distributes
events. This directory holds TLA+ models of these services, TLC configurations
which check them on small instances, and TLAPS proofs for instances of any size.

## Inventory

| Component | State | Operations | Talks to |
| --- | --- | --- | --- |
| Worker (`sonja/worker.py`) | loop, task, future, semaphore, flags | `trigger`, `reschedule_internally`, `cancel`, `try_pause`, `resume` | base class of the four services |
| Crawler (`sonja/crawler.py`) | queue of updates, `__periodic`, clones | crawl all, crawl an update, insert and retire commits | git, database, scheduler (HTTP) |
| Scheduler (`sonja/scheduler.py`) | none | commits to builds | database, both agents (HTTP) |
| Agent (`sonja/agent.py`) | id of build and run | claim, update run, log, stop, record outcome | database, builder, manager, Redis |
| Watchdog (`sonja/watchdog.py`) | none | stalled runs | database, both agents |
| Builder (`sonja/builder.py`) | container, log queue, cancel flag and lock | pull, set up, run, cancel, clean up | docker |
| Manager (`sonja/manager.py`) | none | packages, recipes, missing dependencies, re-trigger of failed builds | database |
| Public API (`public/`) | none | stop and restart builds, manage users and everything else, GitHub push | database, crawler, agents |
| Events (`sonja/redis.py`, `public/api/general.py`) | subscriptions | publish, stream | Redis |
| Database (`sonja/model.py`, `sonja/database.py`) | all tables | sessions, transactions, initial data | MySQL |

What is hard in this code, and what makes each part correct:

* **Builds.** Agents, watchdog, users and the re-trigger of waiting builds all
  write `build.status`, some under a lock, some from an older read, some
  without looking. A build must not be executed twice, an outcome must have a
  run that produced it, finished builds must rest, stop requests and crashed
  agents must be dealt with.
* **One execution.** Executor thread and agent share a lock, a flag and a queue;
  docker, MySQL and Redis fail; the build is stopped or the agent shut down at
  any moment. No container may start after a cancellation or be left over, the
  log must be in order and complete, the browser must see it.
* **Worker.** A thread which is triggered, paused and cancelled by other
  threads at any moment. No trigger may be lost, pausing and working exclude
  each other, `cancel()` must always end the thread.
* **Crawler loop.** One trigger may stand for several updates and its payload
  may be dropped. No update may be stranded; the periodic crawl must go on.
* **Crawling.** Refs move while the crawler looks at them, webhooks are late or
  lost, one working copy serves all refs. Only what a ref has pointed to may be
  built, and the newest commit of a channel must be the current one.
* **Commits.** Crawler and scheduler write the same rows from snapshots. No
  build may be lost or doubled, the newest commit must stay current.
* **Delivery.** The chain crawler - scheduler - agents works only by requests
  that may be lost. Nothing may be forgotten while none is.
* **Packages.** Two agents record what is missing and what was built; tables
  have no unique constraints. No waiting build may be forgotten, none may be
  triggered without a reason.
* **Public API.** Requests run in parallel, each with its own snapshot, and a
  DELETE answers before it commits. References must stay valid, somebody must
  be able to log in, what was answered must be done.

`PROJECT.json` lists all components with their sources and, under `hazards`,
each of these difficulties at the line where it bites.

## Modules

| Module | Models |
| --- | --- |
| `BuildLifecycle` | tables `build` and `run`; agents, watchdog, users |
| `BuildLife` | what everybody may rely on about one build (abstract) |
| `BuildExecution` | one build on one agent: coroutine, executor thread, `Builder`, docker, log lines, events, a browser |
| `Dependencies` | `manager.py`: recipes, revisions, packages, what failed builds wait for |
| `Wakeup` | what a worker promises to those who trigger it (abstract) |
| `Worker` | `worker.py` callback by callback; implements `Wakeup` |
| `CrawlerLoop` | extends `Worker` by the `work()` of the crawler, its timer, its queue and the HTTP handler that fills it |
| `Crawling` | what one iteration of the crawler does: git server, clone, table `commit` |
| `CommitPipeline` | table `commit` with the transactions of crawler and scheduler, and the triggers down to the agents |
| `PublicApi` | users, permissions, ecosystems with what belongs to them, initial data |
| `MC...` | constants and symmetry for TLC |
| `...Proofs` | theorems about the module of that name |

How they compose. `CrawlerLoop` is `Worker` with its opaque `working` replaced
by the steps of `Crawler.work`; it is shown to be a `Worker`, and `Worker` to
implement `Wakeup`. `CommitPipeline` keeps of a worker what `Wakeup` promises,
the flag `wanted`, and of `Crawling` that commits are inserted and retired.
`BuildExecution` opens up what `BuildLifecycle` shows as the steps from `Claim`
to `Leave`; `Dependencies` opens up `RetriggerRead` and `RetriggerWrite`, which
take any set of failed builds.

Three modules show builds, from three sides: `BuildLifecycle`, `CommitPipeline`
and `Dependencies`. `BuildLife` is what they have in common, and each of them is
proved to implement it for every one of its builds. That `CommitPipeline` may use
`Wakeup` in place of `Worker` is proved as well (`TriggersServed`). The INSTANCEs
of these refinements stand in the modules of proofs.

Definitions whose comment begins with "Mutant" are not part of a
specification. Each is a plausible mistake in one operation; replacing the
operation by it makes TLC report the property that `PROJECT.json` pairs with it.

### BuildLifecycle

An action is one transaction, or one step between two transactions. A
`SELECT ... FOR UPDATE` with its write (`Claim`, `StopRequest`,
`RestartRequest`) is one action; a read that is written back later is two:
`WatchdogRead`/`WatchdogCommit`, `RetriggerRead`/`RetriggerWrite`,
`SeeStopping`/`RecordStop`. `pc[a]` is the place in `__process_builds`,
`jobRun[a]` is `__run_id`. `fresh` abstracts the column `updated`: the runs
updated less than 60 seconds ago. `Timely` says whether an agent that executes
a run updates it at least every 60 seconds (it tries every 10, but a blocking
docker or database call may take longer).

`disturbed` is a history variable. A build is disturbed while it may have been
changed by someone who did not claim it: by the watchdog, by a re-trigger that
wrote over a status it had not read, or by an agent that met an error after it
had recorded an outcome. It is cleared by a claim while no other agent executes
the build. The invariants about claims are stated for builds that are not
disturbed; what happens to the others is bounded by `OutcomeHasRun`, which
holds for every build, by `RescueNeedsOlderRun`, and by `OrphanRecovered`.

The last of these has two places in the code. A container that cannot be
removed makes the agent set a finished build to new (`Close`, `Break`). And a
stop is committed before it is published, which reads the rows again
(`RecordStop`): when publishing fails the loop goes on with the id of the build
and later writes success, error or new over the stop, or the handler writes new
at once. If only the end of the session fails, the id is cleared already; the
agent (`mute`) waits for its task and records nothing more.

Abstractions: the builds that wait for a package are any subset of the failed
builds; the trigger of the agents by watchdog and API has no counterpart,
because an agent of the model may always look for builds; a commit of
SQLAlchemy that finds a column unchanged writes the same value. A fault is a
crash, a failure of the database, or an unexpected exception, at most
`MaxFaults` of them.

### BuildLife

A build is waiting, then running by one worker, then finished, given back or
orphaned, and is opened again only when it has finished. Somebody who has not
claimed a build may disturb it, and nothing is promised until the next claim.
In `BuildLifecycle` the phase is read off `buildStatus` and the agents that work
on the build; `disturbed` there and `~apart` in `Dependencies` map to the phase
`disturbed`. `CommitPipeline` begins with builds which are absent, and knows of
no disturbance: whatever crawler and scheduler overwrite, no build of a commit
is inserted twice or claimed twice.

### BuildExecution

`thread` is the place of the executor thread in the four methods of `Builder`
which `_run_build` submits one after the other; `Submit` is the coroutine
between two of them, which needs the event loop. `pc` is the place of
`Agent.__process_builds` inside the `with Builder` block: it waits, collects
and stores log lines, looks for a stop, and handles the result. `lock` and
`cancelled` are `__cancel_lock` and `__cancelled`; `stream` is
`__container_logs`; `queue` is the queue of lines between the threads, `batch`
what `get_log_lines` returned, `stored` the table `log_line`. `container` is
docker's view of the container. A line is its number in the output; `Message`
stands for the line that says why a build failed. A commit that is to be
published puts the row into `announce`; `Publish` sends it to the subscriber or
loses it; `Deliver` reads the row the event names, as `subscribe` does.

A fault is an error of docker, MySQL or Redis; a call of docker may raise an
`APIError`, which fails the build, or anything else, which leaves the block. An
error between a commit and the end of its session is `PublishRaises`; what the
agent does then depends on what it was storing, and on `buildId`, which stands
for `__build_id`: without it `__set_build_status` does nothing.

The log stream may break while the container runs, `container.wait()` may fail
at any time and `close()` in `Builder.cancel()` may raise. A thread whose stream
broke waits in `container.wait()`, which no cancellation interrupts; it gets free
when `__exit__` stops the container. If that call fails as well, or `close()` and
then that call, the thread waits as long as the container runs (`Stuck`).
`StopReleases` promises that one fault does no such harm.

What the model shows beside its properties: a shutdown or an unexpected error
never calls `Builder.cancel()`, so the thread may create and even start a
container after `__exit__`; a stop may leak a created container, which never
starts; an error of docker in `__exit__` during a shutdown swallows the
`CancelledError` (`ExitRaises`); after a line could not be stored, the rest of
its batch is lost. Not in the model: a log line longer than the column is an
error each time the build is executed, so the build is given back and executed
again without end.

### Dependencies

A row of the tables is a record of what it stands for and of the agent which
inserted it, `by`, for no unique constraint keeps two agents from inserting the
same package. `report` is what `conan create` printed; `remote` and `latest`
are the Conan server. `Begin` is the first query of a transaction, which fixes
`view`; the long transactions commit in a second action, the short ones are one
action. `process_success` commits after each of its two queries for waiting
builds: `StorePackage`, `TriggerForRecipe`, `StoreRequires`.

`apart` is a history variable: no two agents have handled results at the same
time so far. When they overlap, the code gives no guarantee: both may insert a
row, and a build which records that a package is missing while another agent
finishes that package waits for the next build of it. The properties are about
executions in which results are handled one after the other, with a crash or an
error anywhere.

Not modelled: `current_revision` and the requirements between packages, which
only the web site shows; `process_failure` storing the package of the failed
build itself; the lock file, whose absence ends `process_success` with an
`UnboundLocalError`; a user's restart, which clears what a build waits for (its
status is in `BuildLifecycle`).

### Worker, Wakeup and CrawlerLoop

An action of `Worker` is one callback of the asyncio loop, or one step of the
task of `__work` between points where it may give up the thread; `ready` is the
loop's queue. While the task waits for the semaphore no callback runs, as
`threading.Semaphore.acquire` blocks the thread of the loop. `try_pause` and
`resume` are two steps each, semaphore and flag. One thread pauses, resumes and
cancels, as in the tests and in the shutdown handlers. `CallCancel` is followed by
`Release` and `ClearPaused` if the worker is paused. `Start` and `RunLoop` are
apart, as `cancel()` and `trigger()` may be called before `run()` queues
`__main`. `work()` is one state, `working`; it may set a timer when it returns.
It is assumed to let a `CancelledError` pass, which the agent's does not when
docker fails in `__exit__` (see `BuildExecution`).

`Wakeup` has three variables: what the worker does, whether an iteration is
due, how many triggers are under way. Refinement mapping: an iteration is due
when the task has not begun its first one or when the future is completed; the
triggers under way are the callbacks `__trigger` in the queue. Timers map to
triggers when they expire.

`CrawlerLoop` replaces `working` by the steps of `Crawler.work`: the choice
between all repositories and the queue of updates, taking an update, failing,
returning with or without a timer.

### Crawling

One repository with its refs on the server (`remote`), the crawler's clone
(`clone`, `objects`, `tracking`, `head`) and its rows in table `commit`. A
commit is known by its history (`Ancestry`) and by what it has below the path of
the repository (`Content`). `Process` is one round of the loop over channels and
refs: checkout, `has_diff`, the search for the commit and the insertion which
retires the others. `draft` is what the transaction sees until `Finish`. Users
push forward and backward, delete refs, and move the repository to another
address, which makes the crawler clone it again.

`disturbed` are the channels for which a commit came out of order: a webhook
that arrives after a newer one, or a branch that returns to a commit which is
stored already. The first retires the newer commit; as the newer one then counts
as known it stays old (`crawler.py:274`), and the model shows that no later
crawl repairs it.

An error of git ends a crawl, which stores what it has found (`GitFails`). Any
other exception is caught by `work()`: the transaction is rolled back, and clone
and queue stay (`GiveUp`). `Raise` is one from the database or from a pattern or
key that is not well-formed. `Abort` is the one the code does not expect:
`checkout_sha` and `has_diff` catch `BadName`, which GitPython 3.1.27 (the
version in `requirements.txt`) raises for abbreviated names; for a full hash
that is not in the repository, and the hashes of webhooks and rows are full, it
raises a `ValueError`. A webhook for a commit that is gone therefore ends its
crawl. A current commit that is gone is worse: when the clone was lost and the
branch was force-pushed meanwhile, `has_diff` raises for every new commit of the
channel, every crawl is rolled back with what it found for the other channels of
the repository, the repositories after this one are not crawled at all, and no
timer is set for the next crawl, until somebody changes the table. The comment in the log message says otherwise, `crawler.py:119`: "Commit
'%s' can not be found, assume a diff", and the test of it
(`test_repo_controller.py:61`) uses an abbreviated hash. `Converges` excludes
exactly this state, `Forgotten`; without the exclusion TLC reports the endless
sequence of aborted crawls.

As in the code, refs which were deleted on the server stay in the clone, and
tags are never fetched again. Not modelled: a directory and a file of the same
ref name, which makes every fetch fail; a repository without a path, whose
content is everything and for which `has_diff` is not asked. Every channel is
looked at for every repository, whatever its ecosystem, so one repository is
enough.

### CommitPipeline

A `Row` is a line (repository and channel) with a sha. `view` and `dirty` are
the crawler's transaction: what it sees (REPEATABLE READ) and which rows it
writes when it commits. `todo` is what the scheduler has read. `newest` is a
history variable. `build[x]` counts builds, so that doubled ones are seen.
A trigger is a flag; it is set, or the request is lost (a fault). An agent
looks for builds until it finds none; that it also stops when the only build is
locked by somebody (`skip_locked`, `agent.py:63`) is left out, for who locks a
new build claims it or takes it out of the queue.

### PublicApi

A request runs on a thread with a session of its own. What it reads is the
state at its beginning, `seen`; `before` is history, the rows which referred to
its row at that time. What it writes is checked by the database
against the present: references to rows which are gone are refused, and rows to
which a column that may not be null refers cannot be removed. `Post` and
`PatchUser` commit before they answer, `Delete` answers first; `CommitDelete` is
the end of the dependency `get_session`. `SetUpConfiguration`, `SetUpUser`,
`SetUpEcosystem` and `Populate` are the steps of the start, each a transaction,
with crashes between them. `Derive` stands for crawler and scheduler, which
store commits and builds. The initial user is assumed to be configured: without a
name or a password `create_initial_user` makes none (`database.py:62`). `Clear` is `clear_ecosystems`, which switches the
checks of foreign keys off on a connection that goes back into the pool.

`Known` says which rows the session knows to refer to a row that is deleted, and
sets to null: every relationship has a reverse (`model.py:211`, for instance)
but that from builds to profiles (`model.py:315`). So an ecosystem is removed
with repositories, channels and profiles left over, while a profile with builds
is kept by the database, a repository or channel with commits because their
columns may not be null.

`overlap` is a history variable: two removals of users were under way at the
same time. `remove_but_last_user` counts users in its snapshot, so two users who
remove each other leave nobody, although the API says "Last user can not be
deleted" (`public/api/user.py:73`), until the next start makes the initial user
again. Other facts the model shows: a repository or a channel with commits, or
a profile with builds, cannot be removed, but the DELETE is answered as if it
were; removing an ecosystem leaves its repositories and profiles without one, and
an agent which claims a build of such a profile raises an `AttributeError`
(`agent.py:91`) and leaves the build to the watchdog, which gives it back to be
claimed again; a crash between ecosystem and demo data leaves it unpopulated for good.

Not modelled: two servers that start at the same time; changes of attributes
other than permissions.

## Runs

| Run | Instance | States | Shows |
| --- | --- | --- | --- |
| `build_lifecycle` | 2 agents, 2 builds, 2 runs, 1 fault, timely | 107 000 | claims, outcomes, rest, rescue; liveness of stop and recovery |
| `build_lifecycle_rescue` | 3 runs, no fault | | finding: `RescueOnlyOrphans` is violated |
| `build_lifecycle_killed` | 1 agent, 1 fault | | finding: `KilledIsNoSuccess` is violated |
| `build_execution` | 2 lines, 2 faults | 357 000 | `LogFaithful`, `LeftClean`, `NoStartAfterCancel`; liveness `StopReleases`, `FeedComplete` |
| `crawler_loop` | 2 updates, 2 triggers, 1 pause, 1 failure | 62 000 | semaphore, cancellation, the refinement of `Wakeup`, `NotStranded`, `UpdatesServed` |
| `crawler_periodic` | 2 updates, no failure | | finding: `PeriodicCrawl` is violated |
| `crawling` | branch and tag, 3 commits, 2 channels, 1 rewind, 1 fault | 952 000 | `StoredWasHead`, `HeadCurrent`; liveness `Converges` |
| `commit_pipeline_safety` | 2 lines, 2 commits each, 1 fault | 287 000 | `NewestIsCurrent`, `BuildsMatchStatus`, `CommitNotForgotten` |
| `commit_pipeline_delivery` | 1 line, 2 commits, 2 profiles on 2 platforms, no fault | 91 000 | `BuildNotForgotten`; liveness `CommitsScheduled`, `BuildsClaimed` |
| `commit_pipeline_onecurrent` | 1 line, 2 commits | | finding: `OneCurrentCommit` is violated |
| `dependencies` | 2 agents, 4 builds, 1 interruption | 2 500 000 | `RowsUnique`, `RetriggeredForReason`, `NoneForgotten` |
| `public_api` | 2 threads, 2 users, 5 other rows, 2 crashes | 865 000 | `ReferencesValid`, `SomeUserLeft`, `AcknowledgedDeleteDone` |

Bounds.

* `BuildLifecycle`: two agents and one build are enough for every race about a
  build; the second build is there because one build re-triggers another. Two
  runs are needed for an old run to mislead the watchdog, three to see two
  agents execute the build in consequence.
* `BuildExecution`: two lines are the least that can come in the wrong order or
  lose a rest of a batch, two faults let one failure hide another.
* `CrawlerLoop`: one pause and two triggers suffice because the state of a
  worker between two iterations does not depend on how many there were; the
  second trigger finds the future completed.
* `Crawling`: a branch that is replaced by another commit with the same content,
  a tag which shares a channel with it, and a second channel; one webhook may
  wait while the periodic crawl overtakes it.
* `CommitPipeline`: two lines show that retiring commits keeps to one line; two
  commits on a line are one that retires and one that is retired.
* `Dependencies`: a library with an old and a new commit and with two profiles
  makes all three ways in which a build can wait for it; `app` may be outdated
  and is interrupted like every other build.
* `PublicApi`: two threads and two users are the least that can remove each
  other; a channel is to an ecosystem and to a commit what a repository is.

Actions that use up a bound (`Claim` the run ids, `CrawlCommit` the commits,
`Trigger` the triggers, `ContainerPrints` the lines) stop being enabled; the
properties that are proved hold without bounds.

Symmetry is used where no liveness is checked: over agents, threads or commits.
Deadlock is checked for `BuildLifecycle` and `CommitPipeline`, which never
stop. Everywhere else the system really may stop: a cancelled worker, an agent
that has left its build, a server without users, all builds ended, no more
pushes. What must not get stuck is stated by `CancelEnds`, `UpdatesServed`,
`ImplementsWakeup`, `StopReleases`, `FeedComplete`, `Converges` and
`NoneForgotten`.

Fairness.

* `BuildLifecycle`: a live agent executes its next statement, the watchdog
  (which sets its timer also after a failure) keeps running, and time passes;
  strong fairness of `RecordSuccess` says that the loop over the packages of a
  build ends. Not assumed: that a build ends, that a crashed agent is restarted,
  that a user acts.
* `BuildExecution`: executor thread, agent, loop and event streams go on, the
  thread without the help of a fault. Strong fairness of `Submit`: asyncio runs
  callbacks in the order in which they got ready, so the coroutine that submits
  the next job has its turn although the agent comes back to its own `await`
  again and again. Not assumed: that the container ever prints or exits, or that
  anybody stops it.
* `Worker`: the loop runs its callbacks, `work()` returns or can be
  interrupted, who paused the worker resumes it, and, as strong fairness of
  `Acquire`, the task gets a semaphore that is released again and again.
* `Crawling`: a crawl that has begun goes on. That crawls of everything begin
  again and again is a premise of `Converges`, because the timer may get lost
  (`PeriodicCrawl`).
* `CommitPipeline`: the services run and a transaction which has written
  something is committed; nobody needs to push commits. Without lost requests
  (`faults = 0`) the chain delivers; after a lost one the properties promise
  nothing, and neither does the code.

### Findings

* `RescueOnlyOrphans`: the watchdog looks at the age of *any* run of a build.
  When a build is executed again its old runs make the watchdog set it to new
  at once, although the agent updates its own run; another agent then executes
  it as well.
* `KilledIsNoSuccess`: the container is cancelled before the stop is recorded;
  if that fails, the cancelled build is recorded as a success.
* `PeriodicCrawl`: a trigger whose payload is dropped may be the periodic one,
  and only a periodic crawl sets the timer of the next.
* `OneCurrentCommit`: the scheduler sets a commit to building which the crawler
  has retired since it was read.

## Proofs

TLAPS proves the following for every value of the constants that satisfies the
assumptions named in the modules: any number of agents, builds, lines, commits,
users and threads, and any number of faults. Each module of proofs rests on its
`TypeCorrect`, and each theorem on an invariant which is stronger than the
property, because the property alone does not survive a step.

`BuildLifecycleProofs`

* `TypeCorrect` ties `jobRun` to `pc` and run ids to their builds.
* `ExclusiveClaims` is inductive together with `TypeOK`: a claim takes only new
  builds, and a build that is executed is not new; the writes of an agent reach
  only its own build; whoever else writes makes the build disturbed.
* `OutcomesHaveRuns`: status success or error is only written together with the
  run; a run is relabelled only by the watchdog, which then changes the build.
* `RescueOfOlderRuns` from `HeldIsFresh`: with timely updates the run an agent
  executes is fresh and not seen by the watchdog.
* `SilentBuildsTakenBack` from `ClaimHasRun`: the watchdog finds builds through
  their runs, so a build that was claimed without a run would never be found.
* `FinishedBuildsRest`, `OwnersEndBuilds`: action properties, from the above.
  Like `ExclusiveClaims` they except disturbed builds, among them those whose
  agent goes on after a stop was committed: such a build is changed again, by
  its agent, and the theorems say nothing about it until the next claim.
* `BuildsLive`: the refinement of `BuildLife`, step by step. `LifeMoves` lists
  the changes of phase that are steps of `BuildLife`; every action is shown to
  be one of them, by `ExclusiveClaim` where an agent writes.

`BuildExecutionProofs`

* `TypeCorrect` with `Locked` (the thread has the lock exactly while it starts
  the container and opens its logs) and `Late` (results are looked at after the
  task has ended).
* `NotStarted`: `NoStartAfterCancel` from `Locked`: who has the lock when the
  flag is set has started the container or will see the flag.
* `NothingLeftRunning`: `LeftClean` from `Clean`, which says that a stopped
  build is cancelled before its container is removed.
* `LogsFaithful`: `LogFaithful` from three invariants. `InOrder`: a line moves
  from the stream to the queue, to the batch, to the table, and what has gone
  further is older; the reason of a failure comes when no line can follow.
  `Progress`: while nothing failed, the thread gives up the stream only when it
  has read everything, for the build is not cancelled inside the block. `Lines`:
  while nothing failed, every line read is in the queue, the batch or the table.
* `StopNotBlocked`: `NeverBlocked` from `Released`: a cancelled build opens no
  stream, and its thread waits for a running container only after a call failed,
  and once the agent has passed the points at which it still stops the container
  only after two. `FaultsCount` says that faults are never forgotten.
* `OutcomesExplained` and `OutcomesFinal` from `Reasons`, what is known at each
  place of the agent. An outcome changes only after a fault and with the id of
  the build: success or error into new, a stop into whatever the loop records. A cancelled container counts as success without output:
  this is the case behind `KilledIsNoSuccess`, and `OutcomeExplained` says so.
* `FeedsKept`: `FeedKept` from `Quiet` and `Short`: an event names a committed
  row and is published before the agent stores something else.

`DependenciesProofs`

* `TypeCorrect`, for the tables and for every snapshot.
* `NothingTwice`: `RowsUnique` from `InTurn`: as long as results are handled one
  after the other there is one agent which handles one, and its snapshot is the
  present.
* `OnlyForReason`: `RetriggeredForReason` from `InTurn`.
* `NoneBehind`: a failed build whose requirements are all on the server is not
  left behind, for requirements of any depth. The invariant `Recorded`
  says of every failed build that one of its rows names something that is not
  on the server, or something whose build still owes it a trigger: an agent is
  about to give it, or the build was interrupted after its upload (`Owes`).
* `NoneLeft` is `NoneForgotten`, the property of the run, under the condition
  that what is required requires nothing itself, or that nothing is interrupted.
  One of the two is necessary. Take `app` that requires `library` that requires
  `tool`: `library` is interrupted after its upload; meanwhile a new revision of
  `tool` is stored without the package `library` needs; `library` is executed
  again and fails; `app` stays failed although the package of `library` is
  there, until `library` succeeds. `NoneBehind` names exactly this exception.
* `BuildsLive`: the refinement of `BuildLife`: as long as results are handled
  one after the other, a re-trigger opens only builds which have ended.

`WorkerProofs` (all but the first for `Steps`, a worker without fairness, so
that they hold for the crawler as well)

* `TypeCorrect`; `SingleResumption`: at most one callback moves the task.
* `PauseExclusion`: `PauseExcludesWork` strengthened to `SemaphoreInv`: nobody
  can pause a worker before it released the semaphore for the first time, and
  the flag is set exactly from the end of `try_pause` to the end of `resume`.
  Needs `SingleResumption`, as a second first step would begin to work without
  acquiring the semaphore. `PausedStandsStill`: no iteration begins while the
  worker is paused.
* `CancelsKept`: `TaskQueued` (a task that is to go on has its callback queued)
  and `CancelNotLost`, from `CancelInv`: who cancels the worker is not about to
  pause it, and gives the semaphore back if it paused it before.
* `WorkerImplements`: the safety part of the refinement of `Wakeup`, step by
  step: every step is one of `Wakeup` or leaves its three variables alone. It
  needs `FutureInv`, that the future of an iteration exists while it works, and
  lemmas about how many triggers a queue holds.

`CrawlerLoopProofs`

* `CrawlerTypeCorrect`, `CrawlerIsWorker` (every step of the crawler is one of
  the worker), and by it `CrawlerPausesSafely` and `CrawlerImplements`.
* `UpdatesNotStranded`: `NotStranded` from `Awake` (a waiting task can be woken,
  a woken one has its callback queued, a working one has a future that keeps a
  trigger) and `Kept` (an update for which no crawl has begun is in the queue).

`CrawlingProofs`

* `TypeCorrect`; `OnlyHeadsStored`: `StoredWasHead` from `Heads`, which traces
  refs of the clone, requests and checkouts back to the server.
* `HeadsAreCurrent`: `HeadCurrent` from `Ordered` (on a channel that is not
  disturbed an old commit is one the ref has left for good), `OneCurrent` (a
  channel has at most one current commit) and `Looked` (what was looked at is up
  to date). A crawl that was aborted has not looked at everything.

`CommitPipelineProofs`

* `TypeCorrect`; `ScheduledOnce`: `BuildsMatchStatus` from `Scheduled`, which
  relates what the crawler has written and the scheduler has read to the builds.
* `NewestStaysCurrent` from `Replaced`; `CommitsRemembered` and
  `BuildsRemembered` from `Announced`, that a new row is always ahead of a
  trigger or of a query.
* `BuildsLive`: the refinement of `BuildLife` for every build a commit needs,
  from `Scheduled`, which keeps the scheduler from inserting it twice.
* `TriggersServed`: as long as no fault occurs, a step of the pipeline is a step
  of `Wakeup` for the scheduler and for the agents of each platform, or leaves
  their three variables alone. A lost request has no counterpart in `Wakeup`.

`PublicApiProofs`

* `TypeCorrect`; `ReferencesStayValid` from `References`; `UserStays` from
  `OneRemoval`; `DeletionsDone`, an action property, from `RequestsSound`: what a
  request knows of is what referred to the row when it began, or nothing for a
  profile.

Only model-checked:

* everything under fairness, which is out of reach of the prover. For most of
  these properties the part that is safety is proved, so that what is left to
  TLC is that the steps which are possible are also taken:

| Liveness, model-checked | Proved |
| --- | --- |
| `StopTakesEffect`, `OrphanRecovered` | `SilentBuildsTakenBack` |
| `StopReleases` | `StopNotBlocked` |
| `FeedComplete` | `FeedsKept` |
| `CancelEnds` | `CancelsKept` |
| `UpdatesServed` | `UpdatesNotStranded` |
| `CommitsScheduled`, `BuildsClaimed` | `CommitsRemembered`, `BuildsRemembered` |
| `Converges` | `HeadsAreCurrent` |
| fairness of `Wakeup` in `ImplementsWakeup` | `WorkerImplements`, `CrawlerImplements` |

* that an action is possible (`ENABLED`) in the states these theorems describe.

## Not modelled

* `post()` and `query()` of a worker, which only tests use.
* JSON:API conversion and the schemas: stateless.
* Credentials, SSH, tokens, signatures and hashes: cryptography and generated
  text. Labels and options are reduced to the profiles a line is built with.
* Reading and paging of the API, changes of attributes of one row.
* `reset_database` (tests), rows for the development of the web site (`demo.py`),
  migrations, example packages.
* docker, Conan, git, MySQL and Redis themselves; the models say how the code
  uses them, and `PROJECT.json` marks these definitions as external.
* The events of watchdog, manager and scheduler; the watchdog publishes before
  it commits, which nothing in the repository rules out.
