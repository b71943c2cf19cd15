------------------------------ MODULE Crawling ------------------------------
(***************************************************************************)
(* How the crawler finds commits: a repository on a server, whose refs     *)
(* move, the clone the crawler keeps of it, and the rows of table commit   *)
(* the crawler derives from the clone.  It looks at all matching refs when *)
(* its timer expires, and at a single commit when a webhook names one;     *)
(* requests may come late, in another order than the pushes, or not at     *)
(* all.  Which iteration of the worker does what is left to CrawlerLoop,   *)
(* the scheduler, which the crawler triggers when it has stored commits,   *)
(* to CommitPipeline: here `current` stands for both new and building.     *)
(***************************************************************************)
EXTENDS Naturals, FiniteSets

CONSTANTS
    Ref, Tag,   \* branches and tags; the tags
    Sha,        \* the commits
    Ancestry,   \* for a commit, what its history consists of, itself included
    Content,    \* what a commit has below the path of the repository
    Channel,
    Matching,   \* the refs which match the pattern of a channel
    NoSha,
    MaxRewinds, \* how often a ref is deleted or does not go forward
    MaxWaiting, \* how many requests may wait
    MaxFaults   \* how many crashes, errors and changes of the address of
                \* the repository may occur

ASSUME CrawlingAssumption ==
    /\ Tag \subseteq Ref
    /\ Ancestry \in [Sha -> SUBSET Sha] /\ \A s \in Sha : s \in Ancestry[s]
    /\ DOMAIN Content = Sha
    /\ Matching \in [Channel -> SUBSET Ref]
    /\ NoSha \notin Sha
    /\ MaxRewinds \in Nat /\ MaxFaults \in Nat
    /\ MaxWaiting \in Nat

VARIABLES
    remote,     \* the refs on the server
    rows,       \* table commit: for a channel the status of each commit
    updates,    \* the requests which are waiting
    clone,      \* there is one, of the address of the repository
    objects,    \* the commits in the clone
    tracking,   \* the refs in the clone
    head,       \* the commit which is checked out
    pc,         \* where the crawler is
    request,    \* what it processes
    todo,       \* the channels and refs it has not looked at
    draft,      \* the rows as its transaction sees them
    pushed,     \* history: the commits a ref has pointed to
    disturbed,  \* history: the channels which got commits out of order
    rewinds, faults

server == <<remote, pushed>>
git == <<clone, objects, tracking, head>>
counters == <<rewinds, faults>>
vars == <<server, rows, updates, git, pc, request, todo, draft,
          disturbed, counters>>

(* A request to look at everything comes from the timer or from a user, at *)
(* any time; one by a webhook names a commit and a ref.                    *)
All == [sha |-> NoSha, ref |-> "all"]
Update == [sha : Sha \cup {NoSha}, ref : Ref]

Stored(table, c) == {s \in Sha : table[c][s] # "none"}
CurrentIn(table, c) == {s \in Sha : table[c][s] = "current"}

Empty == /\ objects' = {} /\ head' = NoSha
         /\ tracking' = [r \in Ref |-> NoSha]

Init ==
    /\ remote = [r \in Ref |-> NoSha]
    /\ pushed = [r \in Ref |-> {}]
    /\ rows = [c \in Channel |-> [s \in Sha |-> "none"]]
    /\ updates = {}
    /\ clone = FALSE /\ objects = {} /\ head = NoSha
    /\ tracking = [r \in Ref |-> NoSha]
    /\ pc = "idle" /\ request = All /\ todo = {} /\ draft = rows
    /\ disturbed = {}
    /\ rewinds = 0 /\ faults = 0

-----------------------------------------------------------------------------
(* The server and the users. *)

(* process_push and the crawler's route queue what GitHub sends; a request *)
(* may get lost.                                                           *)
Notify(sha, ref) ==
    \/ updates' = updates \cup {[sha |-> sha, ref |-> ref]}
       /\ Cardinality(updates') <= MaxWaiting
    \/ UNCHANGED updates

Moves(r, s) ==
    /\ remote' = [remote EXCEPT ![r] = s]
    /\ pushed' = [pushed EXCEPT ![r] = @ \cup ({s} \ {NoSha})]
    /\ Notify(s, r)
    /\ UNCHANGED <<rows, git, pc, request, todo, draft, faults>>

(* A branch goes forward, or a ref is created. *)
Forward(r, s) ==
    /\ s \notin pushed[r]
    /\ IF remote[r] \in Sha THEN r \notin Tag /\ remote[r] \in Ancestry[s]
                            ELSE pushed[r] = {}

Push(r, s) ==
    /\ Forward(r, s)
    /\ Moves(r, s)
    /\ UNCHANGED <<disturbed, rewinds>>

(* A ref is deleted or created again, a tag is moved, a branch goes        *)
(* elsewhere.                                                              *)
Rewind(r, s) ==
    /\ rewinds < MaxRewinds
    /\ s # remote[r]
    /\ s \in Sha => ~Forward(r, s)
    /\ rewinds' = rewinds + 1
    /\ disturbed' = IF s \in pushed[r] \/ (r \in Tag /\ s # NoSha)
                    THEN disturbed \cup {c \in Channel : r \in Matching[c]}
                    ELSE disturbed
    /\ Moves(r, s)

(* The repository gets a new address: the clone is one of another address. *)
MoveRepo ==
    /\ clone /\ faults < MaxFaults
    /\ faults' = faults + 1
    /\ clone' = FALSE
    /\ UNCHANGED <<server, rows, updates, objects, tracking, head, pc, request,
                   todo, draft, disturbed, rewinds>>

-----------------------------------------------------------------------------
(* The crawler: __process_all_repos and __process_update. *)

(* The clone is set up: one of another address is replaced by an empty one. *)
PrepareClone ==
    /\ pc' = "fetch"
    /\ clone' = TRUE
    /\ IF clone THEN UNCHANGED <<objects, tracking, head>> ELSE Empty
    /\ UNCHANGED <<server, rows, todo, draft, disturbed, counters>>

CrawlAll ==
    /\ pc = "idle"
    /\ request' = All
    /\ PrepareClone
    /\ UNCHANGED updates

CrawlUpdate ==
    /\ pc = "idle"
    /\ \E u \in updates : request' = u /\ updates' = updates \ {u}
    /\ PrepareClone

Branches == {r \in Ref \ Tag : remote[r] # NoSha}

(* Mutant: branches are treated like tags. *)
FetchedOnce(available) ==
    [r \in Ref |-> IF tracking[r] = NoSha /\ remote[r] \in available
                   THEN remote[r] ELSE tracking[r]]

(* Branches follow the server, but a deleted one is kept; a tag is fetched *)
(* with the history it is part of, and never again.                        *)
Fetched(available) ==
    [r \in Ref |->
        IF r \in Branches THEN remote[r]
        ELSE IF r \in Tag /\ tracking[r] = NoSha /\ remote[r] \in available
             THEN remote[r] ELSE tracking[r]]

(* The refs to look at: the one a webhook names, or all in the clone; the  *)
(* order of the channels and of the refs is left open.                     *)
ToProcess(refs) ==
    {x \in Channel \X Ref :
        /\ x[2] \in Matching[x[1]]
        /\ IF request = All THEN refs[x[2]] # NoSha ELSE x[2] = request.ref}

Fetch ==
    /\ pc = "fetch"
    /\ pc' = "process"
    /\ LET available == objects \cup UNION {Ancestry[remote[r]] : r \in Branches}
       IN /\ objects' = available
          /\ tracking' = Fetched(available)
          /\ todo' = ToProcess(Fetched(available))
    /\ UNCHANGED <<server, rows, updates, clone, head, request, draft,
                   disturbed, counters>>

(* Mutant: what cannot be checked out is processed nevertheless.           *)
AnyCheckout(r) == head' = IF request = All THEN tracking[r]
                          ELSE IF request.sha \in objects THEN request.sha
                          ELSE head

(* checkout_matching_refs resets the clone to a ref, checkout_sha to the    *)
(* commit which a webhook names.                                           *)
CheckoutRef(r) == head' = tracking[r]

CheckoutSha == request.sha \in objects /\ head' = request.sha

Checkout(r) == IF request = All THEN CheckoutRef(r) ELSE CheckoutSha

(* has_diff, when both commits are in the clone. *)
HasDiff(s, past) == Content[s] # Content[past]

(* __process_commit, whether the commit is stored. *)
IsNews(c, s) ==
    /\ draft[c][s] = "none"
    /\ CurrentIn(draft, c) # {} => \E past \in CurrentIn(draft, c) : HasDiff(s, past)

(* Mutant: only commits the new one is based on are retired.               *)
WithCommitOnTop(c, s) ==
    [draft EXCEPT ![c] =
        [x \in Sha |-> IF x = s THEN "current"
                       ELSE IF @[x] = "current" /\ x \in Ancestry[s] THEN "old"
                       ELSE @[x]]]

(* ... and then it retires the others.                                     *)
WithCommit(c, s) ==
    [draft EXCEPT ![c] =
        [x \in Sha |-> IF x = s THEN "current"
                       ELSE IF @[x] = "current" THEN "old" ELSE @[x]]]

(* GitPython raises a ValueError for a full hash which is not in the clone. *)
(* checkout_sha and has_diff expect a BadName, which it raises for shorter *)
(* names only, so that the crawl is over: for a commit a webhook names, or *)
(* for a current commit of a channel with which a new one is compared.     *)
ShaUnknown == request # All /\ request.sha \notin objects
PastUnknown(c, s) == draft[c][s] = "none" /\ ~(CurrentIn(draft, c) \subseteq objects)

(* One round of the loop over channels and refs.  A commit which is stored *)
(* when its branch is elsewhere already has come out of order.             *)
Process(c, r) ==
    /\ pc = "process" /\ <<c, r>> \in todo
    /\ todo' = todo \ {<<c, r>>}
    /\ Checkout(r)
    /\ head' \in Sha
    /\ ~PastUnknown(c, head')
    /\ IF IsNews(c, head')
       THEN /\ draft' = WithCommit(c, head')
            /\ disturbed' = IF head' = tracking[r] THEN disturbed
                            ELSE disturbed \cup {c}
       ELSE UNCHANGED <<draft, disturbed>>
    /\ UNCHANGED <<server, rows, updates, clone, objects, tracking, pc,
                   request, counters>>

(* work() catches what is raised: the transaction is rolled back with what *)
(* was found for other channels, while the clone and the queue are kept.   *)
GiveUp ==
    /\ pc' = "idle" /\ todo' = {} /\ draft' = rows
    /\ UNCHANGED <<server, rows, updates, clone, objects, tracking, request,
                   disturbed, rewinds>>

Abort(c, r) ==
    /\ pc = "process" /\ <<c, r>> \in todo
    /\ \/ ShaUnknown /\ UNCHANGED head
       \/ Checkout(r) /\ head' \in Sha /\ PastUnknown(c, head')
    /\ GiveUp
    /\ UNCHANGED faults

(* The database, or a pattern or key that is not well-formed, raises at any *)
(* time.                                                                   *)
Raise ==
    /\ pc # "idle" /\ faults < MaxFaults
    /\ faults' = faults + 1
    /\ GiveUp
    /\ UNCHANGED head

(* An error of git ends the loop; what was found until then is stored. *)
GitFails ==
    /\ pc \in {"fetch", "process"} /\ faults < MaxFaults
    /\ faults' = faults + 1
    /\ pc' = "failed" /\ todo' = {}
    /\ UNCHANGED <<server, rows, updates, git, request, draft, disturbed,
                   rewinds>>

(* Mutant: nothing is stored after an error, nor what a webhook names.     *)
FinishIfSuccessful ==
    /\ pc \in {"process", "failed"} /\ todo = {}
    /\ pc' = "idle"
    /\ rows' = IF pc = "failed" \/ request # All THEN rows ELSE draft
    /\ UNCHANGED <<server, updates, git, request, todo, draft, disturbed,
                   counters>>

Finish ==
    /\ pc \in {"process", "failed"} /\ todo = {}
    /\ pc' = "idle"
    /\ rows' = draft
    /\ UNCHANGED <<server, updates, git, request, todo, draft, disturbed,
                   counters>>

(* The crawler dies: its transaction, its queue and its clone are gone. *)
Crash ==
    /\ faults < MaxFaults
    /\ faults' = faults + 1
    /\ pc' = "idle" /\ todo' = {} /\ draft' = rows /\ request' = All
    /\ updates' = {}
    /\ clone' = FALSE /\ Empty
    /\ UNCHANGED <<server, rows, disturbed, rewinds>>

-----------------------------------------------------------------------------

Environment ==
    \/ \E r \in Ref, s \in Sha : Push(r, s)
    \/ \E r \in Ref, s \in Sha \cup {NoSha} : Rewind(r, s)
    \/ MoveRepo

Crawl == \/ Fetch \/ Finish
         \/ \E c \in Channel, r \in Ref : Process(c, r) \/ Abort(c, r)

Next == Environment \/ CrawlAll \/ CrawlUpdate \/ Crawl \/ GitFails \/ Raise \/ Crash

(* The crawler goes on with what it has begun. *)
Spec == Init /\ [][Next]_vars /\ WF_vars(Crawl)

-----------------------------------------------------------------------------
(* Properties *)

RowStatus == {"none", "current", "old"}
Table == [Channel -> [Sha -> RowStatus]]

(* The types of the variables; refs and what is checked out are commits of *)
(* the clone, and nothing is drafted outside a transaction.                *)
TypeOK ==
    /\ remote \in [Ref -> Sha \cup {NoSha}]
    /\ pushed \in [Ref -> SUBSET Sha]
    /\ clone \in BOOLEAN
    /\ rows \in Table /\ draft \in Table
    /\ updates \subseteq Update /\ request \in Update \cup {All}
    /\ objects \subseteq Sha
    /\ tracking \in [Ref -> objects \cup {NoSha}]
    /\ head \in objects \cup {NoSha}
    /\ pc \in {"idle", "fetch", "process", "failed"}
    /\ pc = "idle" => draft = rows
    /\ todo \subseteq Channel \X Ref
    /\ disturbed \subseteq Channel
    /\ rewinds \in 0..MaxRewinds
    /\ faults \in 0..MaxFaults

(* A commit is stored for a channel only if a ref which matches the        *)
(* channel has pointed to it: the working copy, which keeps the commit of  *)
(* another ref or channel when a checkout fails, never leaks into it.      *)
StoredWasHead ==
    \A c \in Channel : \A s \in Stored(draft, c) :
        \E r \in Matching[c] : s \in pushed[r]

OneRef(c) == \E r \in Ref : Matching[c] = {r}

(* When all refs have been looked at, a channel with one ref is up to      *)
(* date: it has a current commit, with the content of the ref, and none    *)
(* with another, although requests were lost or delayed, the history was   *)
(* rewritten, the clone was lost or commits were skipped because they do   *)
(* not change the path -- unless a commit came out of order.  (A crawl     *)
(* which raises has not looked at all refs: see Converges.)                *)
HeadCurrent ==
    (pc = "process" /\ todo = {} /\ request = All) =>
        \A c \in Channel \ disturbed : OneRef(c) =>
            \A r \in Matching[c] : tracking[r] # NoSha =>
                {Content[s] : s \in CurrentIn(draft, c)} = {Content[tracking[r]]}

(* A channel with one branch gets up to date after the last push and the   *)
(* last fault and stays so, unless a commit came out of order, provided    *)
(* that the crawler looks at everything again and again.  (CrawlerLoop is  *)
(* about that: a timer which gets lost, or a user who asks.)               *)
UpToDate(c) ==
    \A r \in Matching[c] : remote[r] # NoSha =>
        \E s \in CurrentIn(rows, c) : Content[s] = Content[remote[r]]

(* But once the clone is lost, a channel may be left with a current commit *)
(* that no branch leads to any more.  Every crawl which finds a new commit *)
(* for it raises then, and no channel gets new commits.                    *)
Forgotten(c) ==
    ~(CurrentIn(rows, c) \subseteq
          objects \cup UNION {Ancestry[remote[r]] : r \in Branches})

Converges == []<><<CrawlAll>>_vars =>
    \A c \in Channel :
        (OneRef(c) /\ Matching[c] \cap Tag = {}) =>
            <>[](\/ c \in disturbed \/ UpToDate(c)
                 \/ \E d \in Channel : Forgotten(d))

=============================================================================
