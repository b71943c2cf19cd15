---------------------------- MODULE Dependencies ----------------------------
(***************************************************************************)
(* Builds which need packages of other builds: what the manager of an      *)
(* agent stores about the result of a build, and how it wakes the builds   *)
(* which failed because something was missing.                             *)
(*                                                                         *)
(* The tables recipe, recipe_revision and package are sets of rows.  They  *)
(* have no unique constraint on what a row stands for: a row is looked up  *)
(* in the snapshot of a transaction and inserted if it is not there, so    *)
(* two agents can insert a row each; `by` keeps their rows apart.          *)
(* The Conan server, to which the containers upload, is `remote`.          *)
(***************************************************************************)
EXTENDS Naturals, FiniteSets

CONSTANTS
    Agent,
    Build,      \* the rows of table build
    RecipeOf,   \* the recipe a build makes a package of
    RevisionOf, \* the revision of the recipe, by the commit of the build
    ProfileOf,  \* the profile of the build, which gives the package its id
    Needs,      \* the recipes of which it requires a package
    Outdated,   \* the builds whose commit may be retired
    MaxFaults,  \* how many executions may be interrupted
    NoBuild, NoView, NoRevision

Recipe == {RecipeOf[b] : b \in Build}
Revision == {RevisionOf[b] : b \in Build}
Profile == {ProfileOf[b] : b \in Build}

ASSUME BuildAssumption ==
    /\ DOMAIN RecipeOf = Build /\ DOMAIN RevisionOf = Build
    /\ DOMAIN ProfileOf = Build
    /\ Needs \in [Build -> SUBSET Recipe]
    /\ Outdated \subseteq Build
    /\ NoBuild \notin Build /\ NoRevision \notin Revision
    /\ MaxFaults \in Nat

VARIABLES
    recipes, revisions, packages, \* the tables
    missingRecipes,  \* table missing_recipe: the rows a build waits for
    missingPackages, \* table missing_package
    status,     \* column status of table build
    retired,    \* the builds whose commit is not in status building
    remote,     \* the packages on the Conan server
    latest,     \* the revision of a recipe which was uploaded last
    pc,         \* where an agent is
    job,        \* the build it executes
    report,     \* what Conan has reported about that build
    view,       \* what its transaction sees
    apart,      \* history: results were handled one after the other so far
    faults      \* how many executions were interrupted

tables == <<recipes, revisions, packages>>
waiting == <<missingRecipes, missingPackages>>
server == <<remote, latest>>
vars == <<tables, waiting, status, retired, server, pc, job, report, view,
          apart, faults>>

(* A package as Conan names it, and the rows of the tables. *)
Key == Recipe \X Revision \X Profile
RecipeRow == [recipe : Recipe, by : Agent]
RevisionRow == [of : RecipeRow, revision : Revision, by : Agent]
PackageRow == [of : RevisionRow, id : Profile, by : Agent]

(* The transactions of process_failure and of process_success (which       *)
(* commits after each of its two queries for waiting builds), and the      *)
(* status which is written last.  In the long ones, which look up all the  *)
(* rows, snapshot and commit are two steps; the short ones are one step.   *)
Handling == {"failure", "package", "recipe", "requires", "error", "success"}
Transaction == {"failure", "package"}

NoReport == [recipes |-> {}, packages |-> {}]

-----------------------------------------------------------------------------
(* Looking a row up in a snapshot, or making it. *)

RecipeIn(v, r, a) ==
    LET found == {x \in v.recipes : x.recipe = r}
    IN IF found = {} THEN [recipe |-> r, by |-> a] ELSE CHOOSE x \in found : TRUE

(* Mutant: a row is inserted without looking for one. *)
NewRevision(v, r, s, a) ==
    [of |-> RecipeIn(v, r, a), revision |-> s, by |-> a]

RevisionIn(v, r, s, a) ==
    LET row == RecipeIn(v, r, a)
        found == {x \in v.revisions : x.of = row /\ x.revision = s}
    IN IF found = {} THEN [of |-> row, revision |-> s, by |-> a]
                     ELSE CHOOSE x \in found : TRUE

PackageIn(v, key, a) ==
    LET row == RevisionIn(v, key[1], key[2], a)
        found == {x \in v.packages : x.of = row /\ x.id = key[3]}
    IN IF found = {} THEN [of |-> row, id |-> key[3], by |-> a]
                     ELSE CHOOSE x \in found : TRUE

(* The rows of some packages, with the rows they refer to, are stored. *)
Store(someRecipes, someRevisions, somePackages) ==
    LET allRevisions == someRevisions \cup {x.of : x \in somePackages}
    IN /\ packages' = packages \cup somePackages
       /\ revisions' = revisions \cup allRevisions
       /\ recipes' = recipes \cup someRecipes \cup {x.of : x \in allRevisions}

OwnKey(b) == <<RecipeOf[b], RevisionOf[b], ProfileOf[b]>>

Init ==
    /\ recipes = {} /\ revisions = {} /\ packages = {}
    /\ missingRecipes = [b \in Build |-> {}]
    /\ missingPackages = [b \in Build |-> {}]
    /\ status = [b \in Build |-> "new"] /\ retired = {}
    /\ remote = {} /\ latest = [r \in Recipe |-> NoRevision]
    /\ pc = [a \in Agent |-> "free"] /\ job = [a \in Agent |-> NoBuild]
    /\ report = [a \in Agent |-> NoReport] /\ view = [a \in Agent |-> NoView]
    /\ apart = TRUE /\ faults = 0

-----------------------------------------------------------------------------
(* The container: claim a build and run Conan. *)

Claim(a, b) ==
    /\ pc[a] = "free" /\ status[b] = "new"
    /\ status' = [status EXCEPT ![b] = "active"]
    /\ pc' = [pc EXCEPT ![a] = "building"]
    /\ job' = [job EXCEPT ![a] = b]
    /\ UNCHANGED <<tables, waiting, retired, server, report, view>>

Required(b) == {<<r, latest[r], ProfileOf[b]>> : r \in Needs[b]}
LackingRecipes(b) == {r \in Needs[b] : latest[r] = NoRevision}
LackingPackages(b) ==
    {k \in Required(b) : k[2] # NoRevision /\ k \notin remote}

(* Conan takes the latest revision of what is required and reports what it *)
(* does not find.                                                          *)
ConanFails(a) ==
    LET b == job[a]
    IN /\ pc[a] = "building"
       /\ LackingRecipes(b) \cup LackingPackages(b) # {}
       /\ report' = [report EXCEPT ![a] = [recipes |-> LackingRecipes(b),
                                           packages |-> LackingPackages(b)]]
       /\ pc' = [pc EXCEPT ![a] = "failure"]
       /\ UNCHANGED <<tables, waiting, status, retired, server, job, view>>

(* Everything is there: the package is built and uploaded.                 *)
ConanSucceeds(a) ==
    LET b == job[a]
    IN /\ pc[a] = "building"
       /\ Required(b) \subseteq remote
       /\ remote' = remote \cup {OwnKey(b)}
       /\ latest' = [latest EXCEPT ![RecipeOf[b]] = RevisionOf[b]]
       /\ report' = [report EXCEPT ![a] = [recipes |-> {},
                                           packages |-> Required(b)]]
       /\ pc' = [pc EXCEPT ![a] = "package"]
       /\ UNCHANGED <<tables, waiting, status, retired, job, view>>

-----------------------------------------------------------------------------
(* The manager. *)

Snapshot ==
    [recipes |-> recipes, revisions |-> revisions, packages |-> packages,
     missingRecipes |-> missingRecipes, missingPackages |-> missingPackages,
     status |-> status, retired |-> retired]

(* The first query of a transaction fixes what it sees. *)
Begin(a) ==
    /\ pc[a] \in Transaction /\ view[a] = NoView
    /\ view' = [view EXCEPT ![a] = Snapshot]
    /\ UNCHANGED <<tables, waiting, status, retired, server, pc, job, report>>

Commit(a, from, to) ==
    /\ pc[a] = from
    /\ from \in Transaction => view[a] # NoView
    /\ pc' = [pc EXCEPT ![a] = to]
    /\ view' = [view EXCEPT ![a] = NoView]
    /\ UNCHANGED <<retired, server, job, report>>

(* process_failure: the build is linked with rows for what it misses.      *)
StoreFailure(a) ==
    LET b == job[a]
        own == RevisionIn(view[a], RecipeOf[b], RevisionOf[b], a)
        lackingRecipes == {RecipeIn(view[a], r, a) : r \in report[a].recipes}
        lackingPackages == {PackageIn(view[a], k, a) : k \in report[a].packages}
    IN /\ Commit(a, "failure", "error")
       /\ Store(lackingRecipes, {own}, lackingPackages)
       /\ missingRecipes' = [missingRecipes EXCEPT ![b] = lackingRecipes]
       /\ missingPackages' = [missingPackages EXCEPT ![b] = lackingPackages]
       /\ UNCHANGED status

(* Mutant: the queries do not look at the status of the build. *)
AnyStatus(v) == Build \ v.retired

(* The failed builds of current commits the transaction sees. *)
Failed(v) == {b \in Build : v.status[b] = "error" /\ b \notin v.retired}

(* __trigger_builds_for_package: builds which wait for this package, or    *)
(* for any package of a different revision of the same recipe.             *)
WaitingForPackage(v, row) ==
    {b \in Failed(v) : \E m \in v.missingPackages[b] :
        \/ m = row
        \/ m.of.of = row.of.of /\ m.of.revision # row.of.revision}

WaitingForRecipe(v, row) == {b \in Failed(v) : row \in v.missingRecipes[b]}

(* The builds the query has found are set to new, whatever they are now.   *)
Retrigger(builds) ==
    status' = [b \in Build |-> IF b \in builds THEN "new" ELSE status[b]]

(* process_success up to the commit in __trigger_builds_for_package.       *)
StorePackage(a) ==
    LET b == job[a]
        row == PackageIn(view[a], OwnKey(b), a)
    IN /\ Commit(a, "package", "recipe")
       /\ Store({}, {}, {row})
       /\ missingRecipes' = [missingRecipes EXCEPT ![b] = {}]
       /\ missingPackages' = [missingPackages EXCEPT ![b] = {}]
       /\ Retrigger(WaitingForPackage(view[a], row))

(* Mutant: builds which wait for the recipe are not looked for. *)
SkipRecipe(a) ==
    /\ Commit(a, "recipe", "requires")
    /\ UNCHANGED <<tables, waiting, status>>

(* ... up to the commit in __trigger_builds_for_recipe ... *)
TriggerForRecipe(a) ==
    /\ Commit(a, "recipe", "requires")
    /\ Retrigger(WaitingForRecipe(Snapshot,
                                  RecipeIn(Snapshot, RecipeOf[job[a]], a)))
    /\ UNCHANGED <<tables, waiting>>

(* ... and the end: the packages the lock file names are stored. *)
StoreRequires(a) ==
    /\ Commit(a, "requires", "success")
    /\ Store({}, {}, {PackageIn(Snapshot, k, a) : k \in report[a].packages})
    /\ UNCHANGED <<waiting, status>>

(* The agent forgets its build. *)
Forget(a) ==
    /\ pc' = [pc EXCEPT ![a] = "free"]
    /\ job' = [job EXCEPT ![a] = NoBuild]
    /\ report' = [report EXCEPT ![a] = NoReport]
    /\ view' = [view EXCEPT ![a] = NoView]

(* Mutant: the agent keeps the build. *)
RecordStatusOnly(a) ==
    /\ pc[a] \in {"error", "success"}
    /\ status' = [status EXCEPT ![job[a]] = pc[a]]
    /\ pc' = [pc EXCEPT ![a] = "free"]
    /\ UNCHANGED <<tables, waiting, retired, server, job, report, view>>

(* __set_build_status. *)
RecordStatus(a) ==
    /\ pc[a] \in {"error", "success"}
    /\ status' = [status EXCEPT ![job[a]] = pc[a]]
    /\ Forget(a)
    /\ UNCHANGED <<tables, waiting, retired, server>>

(* The handling of a result is interrupted, by an exception or by the end  *)
(* of the agent: an open transaction is rolled back, what was committed    *)
(* stays, and the build is set to new, by the agent or by the watchdog.    *)
Interrupt(a) ==
    /\ pc[a] \in Handling /\ faults < MaxFaults
    /\ faults' = faults + 1
    /\ status' = [status EXCEPT ![job[a]] = "new"]
    /\ Forget(a)
    /\ UNCHANGED <<tables, waiting, retired, server>>

(* The crawler retires the commit of a build. *)
Retire(b) ==
    /\ b \in Outdated \ retired
    /\ retired' = retired \cup {b}
    /\ UNCHANGED <<tables, waiting, status, server, pc, job, report, view>>

-----------------------------------------------------------------------------

AgentStep(a) ==
    \/ \E b \in Build : Claim(a, b)
    \/ ConanFails(a) \/ ConanSucceeds(a) \/ Begin(a)
    \/ StoreFailure(a) \/ StorePackage(a) \/ TriggerForRecipe(a)
    \/ StoreRequires(a) \/ RecordStatus(a)

(* Two agents are between what Conan told them and its last consequence.   *)
Overlap == \E a1, a2 \in Agent : a1 # a2 /\ {pc[a1], pc[a2]} \subseteq Handling

NoteOverlap == apart' = (apart /\ ~Overlap')

Next == /\ \/ /\ (\E a \in Agent : AgentStep(a)) \/ (\E b \in Build : Retire(b))
              /\ UNCHANGED faults
           \/ \E a \in Agent : Interrupt(a)
        /\ NoteOverlap

Spec == Init /\ [][Next]_vars

-----------------------------------------------------------------------------
(* Properties *)

BuildStatus == {"new", "active", "error", "success"}

View == [recipes : SUBSET RecipeRow, revisions : SUBSET RevisionRow,
         packages : SUBSET PackageRow,
         missingRecipes : [Build -> SUBSET RecipeRow],
         missingPackages : [Build -> SUBSET PackageRow],
         status : [Build -> BuildStatus], retired : SUBSET Build]

(* The types of the variables; an agent has a build unless it is free, and *)
(* a row refers to rows which are stored.                                  *)
TypeOK ==
    /\ recipes \subseteq RecipeRow
    /\ revisions \subseteq RevisionRow /\ {x.of : x \in revisions} \subseteq recipes
    /\ packages \subseteq PackageRow /\ {x.of : x \in packages} \subseteq revisions
    /\ missingRecipes \in [Build -> SUBSET recipes]
    /\ missingPackages \in [Build -> SUBSET packages]
    /\ status \in [Build -> BuildStatus]
    /\ retired \subseteq Build
    /\ remote \subseteq Key
    /\ latest \in [Recipe -> Revision \cup {NoRevision}]
    /\ pc \in [Agent -> Handling \cup {"free", "building"}]
    /\ job \in [Agent -> Build \cup {NoBuild}]
    /\ \A a \in Agent : job[a] = NoBuild <=> pc[a] = "free"
    /\ report \in [Agent -> [recipes : SUBSET Recipe, packages : SUBSET Key]]
    /\ DOMAIN view = Agent
    /\ \A a \in Agent : view[a] = NoView \/ (/\ view[a] \in View
                                             /\ pc[a] \in Transaction)
    /\ apart \in BOOLEAN /\ faults \in 0..MaxFaults

(* While results are handled one after the other nothing is stored twice:  *)
(* what one agent has inserted the next one finds.                         *)
RowsUnique == apart =>
    /\ \A x, y \in recipes : x.recipe = y.recipe => x = y
    /\ \A x, y \in revisions :
          x.of = y.of /\ x.revision = y.revision => x = y
    /\ \A x, y \in packages : x.of = y.of /\ x.id = y.id => x = y

(* Unless it is interrupted, an agent sets only failed builds to new, and  *)
(* only when it has just built what they wait for: their recipe, this very *)
(* package, or a package of another revision of the recipe.                *)
RetriggeredForReason ==
    [][\A b \in Build :
          (apart' /\ faults' = faults /\ status[b] # "new"
                  /\ status'[b] = "new") =>
            /\ status[b] = "error"
            /\ \E a \in Agent :
                 /\ job[a] # NoBuild
                 /\ LET r == RecipeOf[job[a]]
                    IN \/ \E m \in missingRecipes[b] : m.recipe = r
                       \/ \E m \in missingPackages[b] :
                             /\ m.of.of.recipe = r
                             /\ \/ m.id = ProfileOf[job[a]]
                                \/ m.of.revision # RevisionOf[job[a]]]_vars

(* No build waits forever for what is there: while a failed build of a     *)
(* current commit has all its requirements on the Conan server, a build of *)
(* one of them is unfinished.  So none is left when all builds have ended, *)
(* in whatever order they were taken, provided that results were handled   *)
(* one after the other, and that nothing was interrupted or what is        *)
(* required requires nothing itself.                                       *)
NoneForgotten == apart =>
    \A b \in Build \ retired :
        status[b] = "error" /\ Required(b) \subseteq remote =>
            \E p \in Build : /\ RecipeOf[p] \in Needs[b]
                             /\ status[p] \in {"new", "active"}

=============================================================================
