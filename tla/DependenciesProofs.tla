------------------------- MODULE DependenciesProofs -------------------------
(***************************************************************************)
(* Proofs about Dependencies for any builds, requirements and agents, and  *)
(* any number of interruptions.                                            *)
(***************************************************************************)
EXTENDS Dependencies, TLAPS

-----------------------------------------------------------------------------
(* Looking up rows. *)

(* The tables of a snapshot. *)
Tables(v) == /\ v.recipes \subseteq RecipeRow
             /\ v.revisions \subseteq RevisionRow
             /\ v.packages \subseteq PackageRow

(* Looking up a recipe returns a row of that recipe, a stored one if there *)
(* is one.                                                                 *)
LEMMA RecipeFound ==
    ASSUME NEW v, Tables(v), NEW a \in Agent, NEW r \in Recipe
    PROVE  /\ RecipeIn(v, r, a) \in RecipeRow
           /\ RecipeIn(v, r, a).recipe = r
           /\ (\E x \in v.recipes : x.recipe = r)
                 => RecipeIn(v, r, a) \in v.recipes
<1> DEFINE found == {x \in v.recipes : x.recipe = r}
<1>1. CASE found = {}
  <2>1. RecipeIn(v, r, a) = [recipe |-> r, by |-> a]
    BY <1>1 DEF RecipeIn
  <2>2. QED
    BY <1>1, <2>1 DEF RecipeRow
<1>2. CASE found # {}
  <2>1. RecipeIn(v, r, a) = CHOOSE x \in found : TRUE
    BY <1>2 DEF RecipeIn
  <2>2. RecipeIn(v, r, a) \in found
    BY <1>2, <2>1
  <2>3. QED
    BY <2>2 DEF Tables
<1>3. QED
  BY <1>1, <1>2

(* Looking up a revision: a row which refers to the row of the recipe. *)
LEMMA RevisionFound ==
    ASSUME NEW v, Tables(v), NEW a \in Agent, NEW r \in Recipe,
           NEW s \in Revision
    PROVE  /\ RevisionIn(v, r, s, a) \in RevisionRow
           /\ RevisionIn(v, r, s, a).of = RecipeIn(v, r, a)
           /\ RevisionIn(v, r, s, a).revision = s
           /\ (\E x \in v.revisions : x.of = RecipeIn(v, r, a) /\ x.revision = s)
                 => RevisionIn(v, r, s, a) \in v.revisions
<1> DEFINE row == RecipeIn(v, r, a)
           found == {x \in v.revisions : x.of = row /\ x.revision = s}
<1>r. row \in RecipeRow
  BY RecipeFound
<1>1. CASE found = {}
  <2>1. RevisionIn(v, r, s, a) = [of |-> row, revision |-> s, by |-> a]
    BY <1>1 DEF RevisionIn
  <2>2. QED
    BY <1>1, <1>r, <2>1 DEF RevisionRow
<1>2. CASE found # {}
  <2>1. RevisionIn(v, r, s, a) = CHOOSE x \in found : TRUE
    BY <1>2 DEF RevisionIn
  <2>2. RevisionIn(v, r, s, a) \in found
    BY <1>2, <2>1
  <2>3. QED
    BY <2>2 DEF Tables
<1>3. QED
  BY <1>1, <1>2

(* Looking up a package: a row which refers to the row of the revision. *)
LEMMA PackageFound ==
    ASSUME NEW v, Tables(v), NEW a \in Agent, NEW k \in Key
    PROVE  /\ PackageIn(v, k, a) \in PackageRow
           /\ PackageIn(v, k, a).of = RevisionIn(v, k[1], k[2], a)
           /\ PackageIn(v, k, a).id = k[3]
           /\ (\E x \in v.packages :
                  x.of = RevisionIn(v, k[1], k[2], a) /\ x.id = k[3])
                 => PackageIn(v, k, a) \in v.packages
<1> DEFINE row == RevisionIn(v, k[1], k[2], a)
           found == {x \in v.packages : x.of = row /\ x.id = k[3]}
<1>k. k[1] \in Recipe /\ k[2] \in Revision /\ k[3] \in Profile
  BY DEF Key
<1>r. row \in RevisionRow
  BY <1>k, RevisionFound
<1>1. CASE found = {}
  <2>1. PackageIn(v, k, a) = [of |-> row, id |-> k[3], by |-> a]
    BY <1>1 DEF PackageIn
  <2>2. QED
    BY <1>1, <1>k, <1>r, <2>1 DEF PackageRow
<1>2. CASE found # {}
  <2>1. PackageIn(v, k, a) = CHOOSE x \in found : TRUE
    BY <1>2 DEF PackageIn
  <2>2. PackageIn(v, k, a) \in found
    BY <1>2, <2>1
  <2>3. QED
    BY <2>2 DEF Tables
<1>3. QED
  BY <1>1, <1>2

-----------------------------------------------------------------------------
(* Type correctness. *)

(* What a transaction stores keeps the tables and their references. *)
TablesOK ==
    /\ recipes \subseteq RecipeRow
    /\ revisions \subseteq RevisionRow /\ {x.of : x \in revisions} \subseteq recipes
    /\ packages \subseteq PackageRow /\ {x.of : x \in packages} \subseteq revisions

(* Storing rows of the right types stores the rows they refer to as well. *)
LEMMA StoreKeeps ==
    ASSUME TablesOK, NEW R \in SUBSET RecipeRow, NEW V \in SUBSET RevisionRow,
           NEW P \in SUBSET PackageRow, Store(R, V, P)
    PROVE  /\ TablesOK'
           /\ recipes \cup R \subseteq recipes'
           /\ revisions \subseteq revisions'
           /\ packages \cup P \subseteq packages'
<1> DEFINE all == V \cup {x.of : x \in P}
<1>1. /\ packages' = packages \cup P
      /\ revisions' = revisions \cup all
      /\ recipes' = recipes \cup R \cup {x.of : x \in all}
  BY DEF Store
<1>2. all \subseteq RevisionRow
  BY DEF PackageRow
<1>3. {x.of : x \in all} \subseteq RecipeRow
  BY <1>2 DEF RevisionRow
<1>4. packages' \subseteq PackageRow /\ revisions' \subseteq RevisionRow
      /\ recipes' \subseteq RecipeRow
  BY <1>1, <1>2, <1>3 DEF TablesOK
<1> HIDE DEF all
<1>5. {x.of : x \in revisions'} \subseteq recipes'
  BY <1>1 DEF TablesOK
<1>6. {x.of : x \in packages'} \subseteq revisions'
  BY <1>1 DEF TablesOK, all
<1>7. QED
  BY <1>1, <1>4, <1>5, <1>6 DEF TablesOK

(* What an agent sees in its transaction are tables, as is what is stored. *)
LEMMA ViewTables ==
    ASSUME TypeOK
    PROVE  /\ \A a \in Agent : view[a] # NoView => Tables(view[a])
           /\ Tables(Snapshot)
           /\ Snapshot \in View
<1>1. \A a \in Agent : view[a] # NoView => Tables(view[a])
  BY DEF TypeOK, View, Tables
<1>2. Tables(Snapshot)
  BY DEF TypeOK, Snapshot, Tables
<1>3. missingRecipes \in [Build -> SUBSET RecipeRow]
  BY DEF TypeOK
<1>4. missingPackages \in [Build -> SUBSET PackageRow]
  BY DEF TypeOK
<1>5. Snapshot \in View
  BY <1>3, <1>4 DEF TypeOK, Snapshot, View
<1>6. QED
  BY <1>1, <1>2, <1>5

(* The job of an agent is a build, whose recipe, revision and profile are  *)
(* those of its package.                                                   *)
LEMMA JobTypes ==
    ASSUME TypeOK, NEW a \in Agent, pc[a] # "free"
    PROVE  /\ job[a] \in Build
           /\ RecipeOf[job[a]] \in Recipe
           /\ RevisionOf[job[a]] \in Revision
           /\ ProfileOf[job[a]] \in Profile
           /\ OwnKey(job[a]) \in Key
<1>1. job[a] \in Build
  BY DEF TypeOK
<1>2. QED
  BY <1>1 DEF Recipe, Revision, Profile, OwnKey, Key

(* The types besides those of the tables. *)
RestOK ==
    /\ missingRecipes \in [Build -> SUBSET recipes]
    /\ missingPackages \in [Build -> SUBSET packages]
    /\ status \in [Build -> BuildStatus]
    /\ retired \subseteq Build
    /\ remote \subseteq Key
    /\ latest \in [Recipe -> Revision \cup {NoRevision}]

AgentsOK ==
    /\ pc \in [Agent -> Handling \cup {"free", "building"}]
    /\ job \in [Agent -> Build \cup {NoBuild}]
    /\ \A a \in Agent : job[a] = NoBuild <=> pc[a] = "free"
    /\ report \in [Agent -> [recipes : SUBSET Recipe, packages : SUBSET Key]]
    /\ DOMAIN view = Agent
    /\ \A a \in Agent : view[a] = NoView \/ (/\ view[a] \in View
                                             /\ pc[a] \in Transaction)

(* The steps of an agent that change what all agents see. *)
LEMMA StoreFailureTypes ==
    ASSUME TypeOK, NEW a \in Agent, StoreFailure(a)
    PROVE  TablesOK' /\ RestOK' /\ AgentsOK'
<1> DEFINE b == job[a]
           own == RevisionIn(view[a], RecipeOf[b], RevisionOf[b], a)
           lackingRecipes == {RecipeIn(view[a], r, a) : r \in report[a].recipes}
           lackingPackages == {PackageIn(view[a], k, a) : k \in report[a].packages}
<1>1. pc[a] = "failure" /\ view[a] # NoView
  BY DEF StoreFailure, Commit, Transaction
<1>2. Tables(view[a])
  BY <1>1, ViewTables
<1>3. report[a].recipes \subseteq Recipe /\ report[a].packages \subseteq Key
  BY DEF TypeOK
<1>4. own \in RevisionRow
  BY <1>1, <1>2, JobTypes, RevisionFound
<1>5. lackingRecipes \subseteq RecipeRow
  BY <1>2, <1>3, RecipeFound
<1>6. lackingPackages \subseteq PackageRow
  BY <1>2, <1>3, PackageFound
<1>7. /\ Store(lackingRecipes, {own}, lackingPackages)
      /\ missingRecipes' = [missingRecipes EXCEPT ![b] = lackingRecipes]
      /\ missingPackages' = [missingPackages EXCEPT ![b] = lackingPackages]
      /\ UNCHANGED status
      /\ Commit(a, "failure", "error")
  BY DEF StoreFailure
<1> HIDE DEF own, lackingRecipes, lackingPackages
<1>8. /\ TablesOK' /\ recipes \cup lackingRecipes \subseteq recipes'
      /\ packages \cup lackingPackages \subseteq packages'
  <2>1. TablesOK /\ {own} \in SUBSET RevisionRow
    BY <1>4 DEF TypeOK, TablesOK
  <2>2. /\ lackingRecipes \in SUBSET RecipeRow
        /\ lackingPackages \in SUBSET PackageRow
        /\ Store(lackingRecipes, {own}, lackingPackages)
    BY <1>5, <1>6, <1>7
  <2>3. QED
    BY <2>1, <2>2, StoreKeeps
<1>9. /\ missingRecipes' \in [Build -> SUBSET recipes']
      /\ missingPackages' \in [Build -> SUBSET packages']
  BY <1>7, <1>8 DEF TypeOK
<1>10. RestOK'
  BY <1>7, <1>9 DEF Commit, server, TypeOK, RestOK
<1>11. AgentsOK'
  BY <1>1, <1>7 DEF Commit, TypeOK, AgentsOK, Handling, Transaction
<1>12. QED
  BY <1>8, <1>10, <1>11

(* The transaction of a successful build which stores its package. *)
LEMMA StorePackageTypes ==
    ASSUME TypeOK, NEW a \in Agent, StorePackage(a)
    PROVE  TablesOK' /\ RestOK' /\ AgentsOK'
<1> DEFINE b == job[a]
           row == PackageIn(view[a], OwnKey(b), a)
<1>1. pc[a] = "package" /\ view[a] # NoView
  BY DEF StorePackage, Commit, Transaction
<1>2. row \in PackageRow
  BY <1>1, ViewTables, JobTypes, PackageFound
<1>3. /\ Store({}, {}, {row})
      /\ missingRecipes' = [missingRecipes EXCEPT ![b] = {}]
      /\ missingPackages' = [missingPackages EXCEPT ![b] = {}]
      /\ Retrigger(WaitingForPackage(view[a], row))
      /\ Commit(a, "package", "recipe")
  BY DEF StorePackage
<1> HIDE DEF row
<1>4. /\ TablesOK' /\ recipes \subseteq recipes'
      /\ packages \subseteq packages'
  BY <1>2, <1>3, StoreKeeps DEF TypeOK, TablesOK
<1>5. /\ missingRecipes' \in [Build -> SUBSET recipes']
      /\ missingPackages' \in [Build -> SUBSET packages']
  BY <1>3, <1>4 DEF TypeOK
<1>6. status' \in [Build -> BuildStatus]
  BY <1>3 DEF Retrigger, TypeOK, BuildStatus
<1>7. RestOK'
  BY <1>3, <1>5, <1>6 DEF Commit, server, TypeOK, RestOK
<1>8. AgentsOK'
  BY <1>1, <1>3 DEF Commit, TypeOK, AgentsOK, Handling, Transaction
<1>9. QED
  BY <1>4, <1>7, <1>8

(* The one which stores the packages it required. *)
LEMMA StoreRequiresTypes ==
    ASSUME TypeOK, NEW a \in Agent, StoreRequires(a)
    PROVE  TablesOK' /\ RestOK' /\ AgentsOK'
<1> DEFINE rows == {PackageIn(Snapshot, k, a) : k \in report[a].packages}
<1>1. report[a].packages \subseteq Key
  BY DEF TypeOK
<1>2. rows \subseteq PackageRow
  BY <1>1, ViewTables, PackageFound
<1>3. /\ Store({}, {}, rows)
      /\ UNCHANGED <<waiting, status>>
      /\ Commit(a, "requires", "success")
  BY DEF StoreRequires
<1> HIDE DEF rows
<1>4. /\ TablesOK' /\ recipes \subseteq recipes'
      /\ packages \subseteq packages'
  BY <1>2, <1>3, StoreKeeps DEF TypeOK, TablesOK
<1>5. /\ missingRecipes' \in [Build -> SUBSET recipes']
      /\ missingPackages' \in [Build -> SUBSET packages']
  BY <1>3, <1>4 DEF waiting, TypeOK
<1>6. RestOK'
  BY <1>3, <1>5 DEF Commit, server, TypeOK, RestOK
<1>7. AgentsOK'
  BY <1>3 DEF Commit, TypeOK, AgentsOK, Handling, Transaction
<1>8. QED
  BY <1>4, <1>6, <1>7

(* Every step of an agent keeps the types. *)
LEMMA AgentTypes ==
    ASSUME TypeOK, NEW a \in Agent, AgentStep(a)
    PROVE  TablesOK' /\ RestOK' /\ AgentsOK'
<1>0. TablesOK /\ RestOK /\ AgentsOK
  BY DEF TypeOK, TablesOK, RestOK, AgentsOK
<1>1. ASSUME NEW b \in Build, Claim(a, b)
      PROVE  TablesOK' /\ RestOK' /\ AgentsOK'
  <2>1. TablesOK'
    BY <1>0, <1>1 DEF Claim, tables, TablesOK
  <2>2. RestOK'
    BY <1>0, <1>1 DEF Claim, tables, waiting, server, RestOK, BuildStatus
  <2>3. pc' \in [Agent -> Handling \cup {"free", "building"}]
        /\ job' \in [Agent -> Build \cup {NoBuild}]
    BY <1>0, <1>1 DEF Claim, AgentsOK
  <2>4. AgentsOK'
    BY <1>0, <1>1, <2>3, BuildAssumption DEF Claim, AgentsOK, Transaction
  <2>5. QED
    BY <2>1, <2>2, <2>4
<1>2. ASSUME ConanFails(a) PROVE TablesOK' /\ RestOK' /\ AgentsOK'
  <2>1. TablesOK' /\ RestOK'
    BY <1>0, <1>2 DEF ConanFails, tables, waiting, server, TablesOK, RestOK
  <2>2. LackingRecipes(job[a]) \subseteq Recipe
    BY <1>2, JobTypes, BuildAssumption DEF ConanFails, LackingRecipes
  <2>3. LackingPackages(job[a]) \subseteq Key
    <3>1. job[a] \in Build /\ ProfileOf[job[a]] \in Profile
      BY <1>2, JobTypes DEF ConanFails
    <3>2. Needs[job[a]] \subseteq Recipe
      BY <3>1, BuildAssumption
    <3>3. ASSUME NEW r \in Needs[job[a]], latest[r] # NoRevision
          PROVE  <<r, latest[r], ProfileOf[job[a]]>> \in Key
      BY <1>0, <3>1, <3>2, <3>3 DEF RestOK, Key
    <3>4. QED
      BY <3>3 DEF LackingPackages, Required
  <2>4. report' \in [Agent -> [recipes : SUBSET Recipe, packages : SUBSET Key]]
    BY <1>0, <1>2, <2>2, <2>3 DEF ConanFails, AgentsOK
  <2>5. AgentsOK'
    BY <1>0, <1>2, <2>4 DEF ConanFails, AgentsOK, Handling, Transaction
  <2>6. QED
    BY <2>1, <2>5
<1>3. ASSUME ConanSucceeds(a) PROVE TablesOK' /\ RestOK' /\ AgentsOK'
  <2>1. TablesOK'
    BY <1>0, <1>3 DEF ConanSucceeds, tables, TablesOK
  <2>2. /\ OwnKey(job[a]) \in Key /\ RevisionOf[job[a]] \in Revision
        /\ Required(job[a]) \subseteq Key
    BY <1>0, <1>3, JobTypes DEF ConanSucceeds, RestOK
  <2>3. RestOK'
    <3>1. remote' \subseteq Key
          /\ latest' \in [Recipe -> Revision \cup {NoRevision}]
      BY <1>0, <1>3, <2>2 DEF ConanSucceeds, RestOK
    <3>2. UNCHANGED <<recipes, packages, missingRecipes, missingPackages,
                      status, retired>>
      BY <1>3 DEF ConanSucceeds, tables, waiting
    <3>3. QED
      BY <1>0, <3>1, <3>2 DEF RestOK
  <2>4. report' \in [Agent -> [recipes : SUBSET Recipe, packages : SUBSET Key]]
    BY <1>0, <1>3, <2>2 DEF ConanSucceeds, AgentsOK
  <2>5. AgentsOK'
    BY <1>0, <1>3, <2>4 DEF ConanSucceeds, AgentsOK, Handling, Transaction
  <2>6. QED
    BY <2>1, <2>3, <2>5
<1>4. ASSUME Begin(a) PROVE TablesOK' /\ RestOK' /\ AgentsOK'
  <2>1. TablesOK' /\ RestOK'
    BY <1>0, <1>4 DEF Begin, tables, waiting, server, TablesOK, RestOK
  <2>2. AgentsOK'
    BY <1>0, <1>4, ViewTables DEF Begin, AgentsOK
  <2>3. QED
    BY <2>1, <2>2
<1>5. ASSUME TriggerForRecipe(a) PROVE TablesOK' /\ RestOK' /\ AgentsOK'
  <2>1. Commit(a, "recipe", "requires") /\ UNCHANGED <<tables, waiting>>
    BY <1>5 DEF TriggerForRecipe
  <2>2. status' \in [Build -> BuildStatus]
    BY <1>0, <1>5 DEF TriggerForRecipe, Retrigger, RestOK, BuildStatus
  <2>3. TablesOK' /\ RestOK'
    BY <1>0, <2>1, <2>2 DEF Commit, tables, waiting, server, TablesOK, RestOK
  <2>4. AgentsOK'
    BY <1>0, <2>1 DEF Commit, AgentsOK, Handling, Transaction
  <2>5. QED
    BY <2>3, <2>4
<1>6. ASSUME RecordStatus(a) PROVE TablesOK' /\ RestOK' /\ AgentsOK'
  <2>1. TablesOK'
    BY <1>0, <1>6 DEF RecordStatus, tables, TablesOK
  <2>2. RestOK'
    BY <1>0, <1>6 DEF RecordStatus, tables, waiting, server, RestOK,
       BuildStatus
  <2>3. report' \in [Agent -> [recipes : SUBSET Recipe, packages : SUBSET Key]]
    BY <1>0, <1>6 DEF RecordStatus, Forget, NoReport, AgentsOK
  <2>4. AgentsOK'
    BY <1>0, <1>6, <2>3 DEF RecordStatus, Forget, AgentsOK
  <2>5. QED
    BY <2>1, <2>2, <2>4
<1>7. QED
  BY <1>1, <1>2, <1>3, <1>4, <1>5, <1>6, StoreFailureTypes, StorePackageTypes,
     StoreRequiresTypes DEF AgentStep

(* Every step keeps the types. *)
LEMMA TypeStep == TypeOK /\ [Next]_vars => TypeOK'
<1> SUFFICES ASSUME TypeOK, [Next]_vars PROVE TypeOK'
  OBVIOUS
<1>0. TablesOK /\ RestOK /\ AgentsOK
  BY DEF TypeOK, TablesOK, RestOK, AgentsOK
<1>1. TablesOK' /\ RestOK' /\ AgentsOK'
  <2>1. ASSUME NEW b \in Build, Retire(b)
        PROVE  TablesOK' /\ RestOK' /\ AgentsOK'
    BY <1>0, <2>1 DEF Retire, tables, waiting, server, TablesOK, RestOK,
       AgentsOK
  <2>2. ASSUME NEW a \in Agent, Interrupt(a)
        PROVE  TablesOK' /\ RestOK' /\ AgentsOK'
    <3>1. TablesOK' /\ RestOK'
      BY <1>0, <2>2 DEF Interrupt, tables, waiting, server, TablesOK, RestOK,
         BuildStatus
    <3>2. report' \in [Agent -> [recipes : SUBSET Recipe,
                                 packages : SUBSET Key]]
      BY <1>0, <2>2 DEF Interrupt, Forget, NoReport, AgentsOK
    <3>3. AgentsOK'
      BY <1>0, <2>2, <3>2 DEF Interrupt, Forget, AgentsOK
    <3>4. QED
      BY <3>1, <3>3
  <2>3. CASE UNCHANGED vars
    BY <1>0, <2>3 DEF vars, tables, waiting, server, TablesOK, RestOK, AgentsOK
  <2>4. QED
    BY <2>1, <2>2, <2>3, AgentTypes DEF Next
<1>2. faults' \in 0..MaxFaults
  BY BuildAssumption DEF TypeOK, Next, Interrupt, vars
<1>3. apart' \in BOOLEAN
  BY DEF TypeOK, Next, NoteOverlap, vars
<1>4. QED
  BY <1>1, <1>2, <1>3 DEF TypeOK, TablesOK, RestOK, AgentsOK

(* The first state has the right types. *)
LEMMA TypeInit == Init => TypeOK
<1> SUFFICES ASSUME Init PROVE TypeOK
  OBVIOUS
<1>1. report \in [Agent -> [recipes : SUBSET Recipe, packages : SUBSET Key]]
  BY DEF Init, NoReport
<1>2. faults \in 0..MaxFaults /\ apart \in BOOLEAN
  BY BuildAssumption DEF Init
<1>3. QED
  BY <1>1, <1>2 DEF Init, TypeOK, BuildStatus

(* Type correctness: every row refers to rows which are stored, an agent   *)
(* has a build exactly while it is not free.                               *)
THEOREM TypeCorrect == Spec => []TypeOK
  BY TypeInit, TypeStep, PTL DEF Spec

-----------------------------------------------------------------------------
(* While results are handled one after the other.                          *)

(* Then no two agents are between what Conan told them and its last        *)
(* consequence, and what the one of them sees is what is stored; but a     *)
(* build may have been claimed meanwhile.                                  *)
OneHandles ==
    \A a1, a2 \in Agent :
        pc[a1] \in Handling /\ pc[a2] \in Handling => a1 = a2

Current(v) ==
    /\ v.recipes = recipes /\ v.revisions = revisions /\ v.packages = packages
    /\ v.missingRecipes = missingRecipes
    /\ v.missingPackages = missingPackages
    /\ \A b \in Build : v.status[b] = "error" => status[b] = "error"

Unique ==
    /\ \A x, y \in recipes : x.recipe = y.recipe => x = y
    /\ \A x, y \in revisions :
          x.of = y.of /\ x.revision = y.revision => x = y
    /\ \A x, y \in packages : x.of = y.of /\ x.id = y.id => x = y

InTurn ==
    apart => /\ OneHandles
             /\ \A a \in Agent : view[a] # NoView => Current(view[a])
             /\ Unique

(* Looking up what a row stands for returns the row. *)
Canonical(v, a, R, V, P) ==
    /\ \A x \in R : x = RecipeIn(v, x.recipe, a)
    /\ \A x \in V : x = RevisionIn(v, x.of.recipe, x.revision, a)
    /\ \A x \in P : x = PackageIn(v, <<x.of.of.recipe, x.of.revision, x.id>>, a)

(* What is looked up in tables which have no row twice.                    *)
LEMMA FoundCanonical ==
    ASSUME NEW v, Tables(v), NEW a \in Agent
    PROVE  /\ \A r \in Recipe : RecipeIn(v, r, a)
                 = RecipeIn(v, RecipeIn(v, r, a).recipe, a)
           /\ \A r \in Recipe, s \in Revision : RevisionIn(v, r, s, a)
                 = RevisionIn(v, RevisionIn(v, r, s, a).of.recipe,
                              RevisionIn(v, r, s, a).revision, a)
           /\ \A k \in Key : PackageIn(v, k, a)
                 = PackageIn(v, <<PackageIn(v, k, a).of.of.recipe,
                                  PackageIn(v, k, a).of.revision,
                                  PackageIn(v, k, a).id>>, a)
<1>1. ASSUME NEW r \in Recipe PROVE RecipeIn(v, r, a).recipe = r
  BY RecipeFound
<1>2. ASSUME NEW r \in Recipe, NEW s \in Revision
      PROVE  /\ RevisionIn(v, r, s, a).of.recipe = r
             /\ RevisionIn(v, r, s, a).revision = s
  BY <1>1, RevisionFound
<1>3. ASSUME NEW k \in Key
      PROVE  /\ PackageIn(v, k, a).of.of.recipe = k[1]
             /\ PackageIn(v, k, a).of.revision = k[2]
             /\ PackageIn(v, k, a).id = k[3]
             /\ k = <<k[1], k[2], k[3]>>
  <2>1. k[1] \in Recipe /\ k[2] \in Revision /\ k = <<k[1], k[2], k[3]>>
    BY DEF Key
  <2>2. QED
    BY <1>2, <2>1, PackageFound
<1>4. QED
  BY <1>1, <1>2, <1>3

(* The stored rows are the ones a transaction finds.                       *)
LEMMA StoredCanonical ==
    ASSUME TypeOK, Unique, NEW v, Tables(v), NEW a \in Agent,
           v.recipes = recipes, v.revisions = revisions, v.packages = packages
    PROVE  Canonical(v, a, recipes, revisions, packages)
<1>1. ASSUME NEW x \in recipes PROVE x = RecipeIn(v, x.recipe, a)
  <2>1. x.recipe \in Recipe
    BY DEF TypeOK, RecipeRow
  <2>2. RecipeIn(v, x.recipe, a) \in recipes
        /\ RecipeIn(v, x.recipe, a).recipe = x.recipe
    BY <2>1, RecipeFound
  <2>3. QED
    BY <2>2 DEF Unique
<1>2. ASSUME NEW x \in revisions
      PROVE  x = RevisionIn(v, x.of.recipe, x.revision, a)
  <2>1. x.of \in recipes /\ x.revision \in Revision /\ x.of.recipe \in Recipe
    BY DEF TypeOK, RevisionRow, RecipeRow
  <2>2. x.of = RecipeIn(v, x.of.recipe, a)
    BY <1>1, <2>1
  <2>3. /\ RevisionIn(v, x.of.recipe, x.revision, a) \in revisions
        /\ RevisionIn(v, x.of.recipe, x.revision, a).of = x.of
        /\ RevisionIn(v, x.of.recipe, x.revision, a).revision = x.revision
    BY <2>1, <2>2, RevisionFound
  <2>4. QED
    BY <2>3 DEF Unique
<1>3. ASSUME NEW x \in packages
      PROVE  x = PackageIn(v, <<x.of.of.recipe, x.of.revision, x.id>>, a)
  <2> DEFINE k == <<x.of.of.recipe, x.of.revision, x.id>>
  <2>1. x.of \in revisions /\ x.id \in Profile
    BY DEF TypeOK, PackageRow
  <2>2. x.of.of.recipe \in Recipe /\ x.of.revision \in Revision
    BY <2>1 DEF TypeOK, RevisionRow, RecipeRow
  <2>3. k \in Key /\ k[1] = x.of.of.recipe /\ k[2] = x.of.revision
        /\ k[3] = x.id
    BY <2>1, <2>2 DEF Key
  <2>4. x.of = RevisionIn(v, k[1], k[2], a)
    BY <1>2, <2>1, <2>3
  <2> HIDE DEF k
  <2>5. /\ PackageIn(v, k, a) \in packages
        /\ PackageIn(v, k, a).of = x.of
        /\ PackageIn(v, k, a).id = x.id
    BY <2>1, <2>3, <2>4, PackageFound
  <2>6. QED
    BY <2>5 DEF Unique, k
<1>4. QED
  BY <1>1, <1>2, <1>3 DEF Canonical

(* Storing what was looked up stores nothing twice.                        *)
LEMMA StoreUnique ==
    ASSUME TypeOK, Unique, NEW v, Tables(v), NEW a \in Agent,
           v.recipes = recipes, v.revisions = revisions, v.packages = packages,
           NEW R \in SUBSET RecipeRow, NEW V \in SUBSET RevisionRow,
           NEW P \in SUBSET PackageRow, Store(R, V, P),
           Canonical(v, a, R, V, P),
           \A x \in P : x.of = RevisionIn(v, x.of.of.recipe, x.of.revision, a),
           \A x \in V \cup {y.of : y \in P} :
               x.of = RecipeIn(v, x.of.recipe, a)
    PROVE  Unique'
<1> DEFINE all == V \cup {x.of : x \in P}
<1>1. /\ packages' = packages \cup P
      /\ revisions' = revisions \cup all
      /\ recipes' = recipes \cup R \cup {x.of : x \in all}
  BY DEF Store
<1>2. Canonical(v, a, recipes, revisions, packages)
  BY StoredCanonical
<1>3. \A x \in recipes' : x = RecipeIn(v, x.recipe, a)
  BY <1>1, <1>2 DEF Canonical
<1>4. \A x \in revisions' : x = RevisionIn(v, x.of.recipe, x.revision, a)
  BY <1>1, <1>2 DEF Canonical
<1>5. \A x \in packages' :
          x = PackageIn(v, <<x.of.of.recipe, x.of.revision, x.id>>, a)
  BY <1>1, <1>2 DEF Canonical
<1>6. QED
  BY <1>3, <1>4, <1>5 DEF Unique

(* A package which was looked up, and the rows it refers to.               *)
LEMMA PackagesCanonical ==
    ASSUME NEW v, Tables(v), NEW a \in Agent, NEW k \in Key
    PROVE  LET x == PackageIn(v, k, a)
           IN /\ x = PackageIn(v, <<x.of.of.recipe, x.of.revision, x.id>>, a)
              /\ x.of = RevisionIn(v, x.of.of.recipe, x.of.revision, a)
              /\ x.of.of = RecipeIn(v, x.of.of.recipe, a)
<1>1. k[1] \in Recipe /\ k[2] \in Revision
  BY DEF Key
<1>2. /\ PackageIn(v, k, a).of = RevisionIn(v, k[1], k[2], a)
      /\ RevisionIn(v, k[1], k[2], a).of = RecipeIn(v, k[1], a)
  BY <1>1, PackageFound, RevisionFound
<1>3. QED
  BY <1>1, <1>2, FoundCanonical

(* The three transactions that store rows store nothing twice.             *)
LEMMA StepsUnique ==
    ASSUME TypeOK, InTurn, apart, NEW a \in Agent,
           StoreFailure(a) \/ StorePackage(a) \/ StoreRequires(a)
    PROVE  Unique'
<1>0. Unique
  BY DEF InTurn
<1>1. CASE StoreFailure(a)
  <2> DEFINE b == job[a]
             v == view[a]
             own == RevisionIn(v, RecipeOf[b], RevisionOf[b], a)
             lackingRecipes == {RecipeIn(v, r, a) : r \in report[a].recipes}
             lackingPackages == {PackageIn(v, k, a) : k \in report[a].packages}
  <2>1. pc[a] = "failure" /\ v # NoView
    BY <1>1 DEF StoreFailure, Commit, Transaction
  <2>2. /\ Tables(v) /\ v.recipes = recipes /\ v.revisions = revisions
        /\ v.packages = packages
    BY <2>1, ViewTables DEF InTurn, Current
  <2>3. /\ report[a].recipes \subseteq Recipe /\ report[a].packages \subseteq Key
        /\ RecipeOf[b] \in Recipe /\ RevisionOf[b] \in Revision
    BY <2>1, JobTypes DEF TypeOK
  <2>4. Store(lackingRecipes, {own}, lackingPackages)
    BY <1>1 DEF StoreFailure
  <2> HIDE DEF b, v
  <2>5. lackingRecipes \in SUBSET RecipeRow
    BY <2>2, <2>3, RecipeFound
  <2>6. {own} \in SUBSET RevisionRow
    BY <2>2, <2>3, RevisionFound
  <2>7. lackingPackages \in SUBSET PackageRow
    BY <2>2, <2>3, PackageFound
  <2>8. \A x \in lackingRecipes : x = RecipeIn(v, x.recipe, a)
    BY <2>2, <2>3, FoundCanonical
  <2>9. /\ own = RevisionIn(v, own.of.recipe, own.revision, a)
        /\ own.of = RecipeIn(v, own.of.recipe, a)
    BY <2>2, <2>3, FoundCanonical, RevisionFound
  <2>10. \A x \in lackingPackages :
            /\ x = PackageIn(v, <<x.of.of.recipe, x.of.revision, x.id>>, a)
            /\ x.of = RevisionIn(v, x.of.of.recipe, x.of.revision, a)
            /\ x.of.of = RecipeIn(v, x.of.of.recipe, a)
    BY <2>2, <2>3, PackagesCanonical
  <2> HIDE DEF own, lackingRecipes, lackingPackages
  <2>11. Canonical(v, a, lackingRecipes, {own}, lackingPackages)
    BY <2>8, <2>9, <2>10 DEF Canonical
  <2>12. \A x \in {own} \cup {y.of : y \in lackingPackages} :
             x.of = RecipeIn(v, x.of.recipe, a)
    BY <2>9, <2>10
  <2>13. QED
    BY <1>0, <2>2, <2>4, <2>5, <2>6, <2>7, <2>10, <2>11, <2>12, StoreUnique
<1>2. ASSUME NEW v, Tables(v), v.recipes = recipes, v.revisions = revisions,
             v.packages = packages, NEW keys \in SUBSET Key,
             Store({}, {}, {PackageIn(v, k, a) : k \in keys})
      PROVE  Unique'
  <2> DEFINE rows == {PackageIn(v, k, a) : k \in keys}
  <2>1. rows \in SUBSET PackageRow
    BY <1>2, PackageFound
  <2>2. \A x \in rows :
            /\ x = PackageIn(v, <<x.of.of.recipe, x.of.revision, x.id>>, a)
            /\ x.of = RevisionIn(v, x.of.of.recipe, x.of.revision, a)
            /\ x.of.of = RecipeIn(v, x.of.of.recipe, a)
    BY <1>2, PackagesCanonical
  <2>3. Store({}, {}, rows)
    BY <1>2
  <2> HIDE DEF rows
  <2>4. Canonical(v, a, {}, {}, rows)
    BY <2>2 DEF Canonical
  <2>5. \A x \in {} \cup {y.of : y \in rows} : x.of = RecipeIn(v, x.of.recipe, a)
    BY <2>2
  <2>6. {} \in SUBSET RecipeRow /\ {} \in SUBSET RevisionRow
    OBVIOUS
  <2>7. QED
    BY <1>0, <1>2, <2>1, <2>2, <2>3, <2>4, <2>5, <2>6, StoreUnique
<1>3. CASE StorePackage(a)
  <2>1. pc[a] = "package" /\ view[a] # NoView
    BY <1>3 DEF StorePackage, Commit, Transaction
  <2>2. /\ Tables(view[a]) /\ view[a].recipes = recipes
        /\ view[a].revisions = revisions /\ view[a].packages = packages
    BY <2>1, ViewTables DEF InTurn, Current
  <2>3. {OwnKey(job[a])} \in SUBSET Key
    BY <2>1, JobTypes
  <2>4. {PackageIn(view[a], k, a) : k \in {OwnKey(job[a])}}
            = {PackageIn(view[a], OwnKey(job[a]), a)}
    OBVIOUS
  <2>5. Store({}, {}, {PackageIn(view[a], k, a) : k \in {OwnKey(job[a])}})
    BY <1>3, <2>4 DEF StorePackage
  <2>6. QED
    BY <1>2, <2>2, <2>3, <2>5
<1>4. CASE StoreRequires(a)
  <2>1. /\ Tables(Snapshot) /\ Snapshot.recipes = recipes
        /\ Snapshot.revisions = revisions /\ Snapshot.packages = packages
    BY ViewTables DEF Snapshot
  <2>2. report[a].packages \in SUBSET Key
    BY DEF TypeOK
  <2>3. Store({}, {}, {PackageIn(Snapshot, k, a) : k \in report[a].packages})
    BY <1>4 DEF StoreRequires
  <2>4. QED
    BY <1>2, <2>1, <2>2, <2>3
<1>5. QED
  BY <1>1, <1>3, <1>4

(* Everything else that an agent alone in handling a result could break.   *)
LEMMA InTurnStep == TypeOK /\ InTurn /\ [Next]_vars => InTurn'
<1> SUFFICES ASSUME TypeOK, InTurn, [Next]_vars, apart'
             PROVE  InTurn'
  BY DEF InTurn
<1>0. CASE UNCHANGED vars
  BY <1>0 DEF vars, tables, waiting, server, InTurn, OneHandles, Current, Unique
<1>1. CASE Next
  <2>0. apart /\ ~Overlap'
    BY <1>1 DEF Next, NoteOverlap
  <2>1. OneHandles /\ Unique
        /\ \A c \in Agent : view[c] # NoView => Current(view[c])
    BY <2>0 DEF InTurn
  <2>2. OneHandles'
    BY <2>0 DEF Overlap, OneHandles
  <2>3. ASSUME NEW a \in Agent, pc[a] \in Handling,
               view' = [view EXCEPT ![a] = NoView]
        PROVE  \A c \in Agent : view'[c] = NoView
    <3>1. \A c \in Agent : view[c] # NoView => c = a
      BY <2>1, <2>3 DEF OneHandles, TypeOK, Transaction, Handling
    <3>2. QED
      BY <2>3, <3>1 DEF TypeOK
  <2>4. ASSUME NEW a \in Agent,
               \/ StoreFailure(a) \/ StorePackage(a) \/ StoreRequires(a)
               \/ TriggerForRecipe(a) \/ RecordStatus(a) \/ Interrupt(a)
        PROVE  \A c \in Agent : view'[c] = NoView
    BY <2>3, <2>4 DEF StoreFailure, StorePackage, StoreRequires,
       TriggerForRecipe, RecordStatus, Interrupt, Commit, Forget, Handling
  <2>5. ASSUME NEW a \in Agent,
               StoreFailure(a) \/ StorePackage(a) \/ StoreRequires(a)
        PROVE  InTurn'
    BY <2>0, <2>2, <2>4, <2>5, StepsUnique DEF InTurn
  <2>6. ASSUME NEW a \in Agent,
               TriggerForRecipe(a) \/ RecordStatus(a) \/ Interrupt(a)
        PROVE  InTurn'
    <3>1. UNCHANGED tables
      BY <2>6 DEF TriggerForRecipe, RecordStatus, Interrupt
    <3>2. Unique'
      BY <2>1, <3>1 DEF tables, Unique
    <3>3. QED
      BY <2>2, <2>4, <2>6, <3>2 DEF InTurn
  <2>7. ASSUME UNCHANGED <<tables, waiting, view>>,
               \A b \in Build : status[b] = "error" => status'[b] = "error"
        PROVE  InTurn'
    <3>1. Unique'
      BY <2>1, <2>7 DEF tables, Unique
    <3>2. \A c \in Agent : view'[c] # NoView => Current(view[c])'
      BY <2>1, <2>7 DEF tables, waiting, Current
    <3>3. QED
      BY <2>2, <3>1, <3>2 DEF InTurn
  <2>8. ASSUME NEW a \in Agent, NEW b \in Build, Claim(a, b) PROVE InTurn'
    BY <2>7, <2>8 DEF Claim, TypeOK
  <2>9. ASSUME NEW a \in Agent, ConanFails(a) \/ ConanSucceeds(a)
        PROVE  InTurn'
    BY <2>7, <2>9 DEF ConanFails, ConanSucceeds
  <2>10. ASSUME NEW b \in Build, Retire(b) PROVE InTurn'
    BY <2>7, <2>10 DEF Retire
  <2>11. ASSUME NEW a \in Agent, Begin(a) PROVE InTurn'
    <3>1. Unique'
      BY <2>1, <2>11 DEF Begin, tables, Unique
    <3>2. Current(Snapshot)
      BY DEF Snapshot, Current
    <3>3. \A c \in Agent : view'[c] # NoView => Current(view'[c])
      BY <2>1, <2>11, <3>2 DEF Begin, TypeOK
    <3>4. UNCHANGED <<recipes, revisions, packages, missingRecipes,
                      missingPackages, status>>
      BY <2>11 DEF Begin, tables, waiting
    <3>5. \A c \in Agent : view'[c] # NoView => Current(view[c])'
      BY <3>3, <3>4 DEF Current
    <3>6. QED
      BY <2>2, <3>1, <3>5 DEF InTurn
  <2>12. QED
    BY <1>1, <2>5, <2>6, <2>8, <2>9, <2>10, <2>11 DEF Next, AgentStep
<1>2. QED
  BY <1>0, <1>1

(* The first state. *)
LEMMA InTurnInit == Init => InTurn
  BY DEF Init, InTurn, OneHandles, Unique, Handling

(* No row is stored twice while results are handled one after the other.   *)
THEOREM NothingTwice == Spec => []RowsUnique
<1>1. Init => TypeOK /\ InTurn
  BY TypeInit, InTurnInit
<1>2. InTurn => RowsUnique
  BY DEF InTurn, Unique, RowsUnique
<1>3. QED
  BY <1>1, <1>2, TypeStep, InTurnStep, PTL DEF Spec

(* A build is set to new by another one only when it had failed for want   *)
(* of what this one has just built.                                        *)
THEOREM OnlyForReason == Spec => RetriggeredForReason
<1> DEFINE Reason ==
        \A b \in Build :
          (apart' /\ faults' = faults /\ status[b] # "new"
                  /\ status'[b] = "new") =>
            /\ status[b] = "error"
            /\ \E a \in Agent :
                 /\ job[a] # NoBuild
                 /\ LET r == RecipeOf[job[a]]
                    IN \/ \E m \in missingRecipes[b] : m.recipe = r
                       \/ \E m \in missingPackages[b] :
                             /\ m.of.of.recipe = r
                             /\ \/ m.id = ProfileOf[job[a]]
                                \/ m.of.revision # RevisionOf[job[a]]
<1>1. TypeOK /\ InTurn /\ [Next]_vars => [Reason]_vars
  <2> SUFFICES ASSUME TypeOK, InTurn, Next, NEW b \in Build, apart',
                      faults' = faults, status[b] # "new", status'[b] = "new"
               PROVE  /\ status[b] = "error"
                      /\ \E a \in Agent :
                           /\ job[a] # NoBuild
                           /\ LET r == RecipeOf[job[a]]
                              IN \/ \E m \in missingRecipes[b] : m.recipe = r
                                 \/ \E m \in missingPackages[b] :
                                       /\ m.of.of.recipe = r
                                       /\ \/ m.id = ProfileOf[job[a]]
                                          \/ m.of.revision # RevisionOf[job[a]]
    OBVIOUS
  <2>0. apart
    BY DEF Next, NoteOverlap
  <2>1. ~\E a \in Agent : Interrupt(a)
    BY DEF Interrupt, TypeOK
  <2>2. ~\E c \in Build : Retire(c)
    BY DEF Retire
  <2>3. PICK a \in Agent : AgentStep(a)
    BY <2>1, <2>2 DEF Next
  <2>4. ~(ConanFails(a) \/ ConanSucceeds(a) \/ Begin(a) \/ StoreFailure(a)
          \/ StoreRequires(a))
    BY DEF ConanFails, ConanSucceeds, Begin, StoreFailure, StoreRequires
  <2>5. ~RecordStatus(a) /\ ~\E c \in Build : Claim(a, c)
    BY DEF RecordStatus, Claim, TypeOK
  <2>6. CASE StorePackage(a)
    <3> DEFINE row == PackageIn(view[a], OwnKey(job[a]), a)
    <3>1. pc[a] = "package" /\ view[a] # NoView
          /\ Retrigger(WaitingForPackage(view[a], row))
      BY <2>6 DEF StorePackage, Commit, Transaction
    <3>2. b \in WaitingForPackage(view[a], row)
      BY <3>1 DEF Retrigger
    <3>3. Current(view[a]) /\ Tables(view[a]) /\ job[a] # NoBuild
      BY <2>0, <3>1, ViewTables DEF InTurn, TypeOK
    <3>4. /\ row.id = ProfileOf[job[a]]
          /\ row.of.revision = RevisionOf[job[a]]
          /\ row.of.of.recipe = RecipeOf[job[a]]
      <4>1. /\ OwnKey(job[a]) \in Key
            /\ RecipeOf[job[a]] \in Recipe /\ RevisionOf[job[a]] \in Revision
        BY <3>1, JobTypes
      <4>2. QED
        BY <3>3, <4>1, PackageFound, RevisionFound, RecipeFound DEF OwnKey
    <3> HIDE DEF row
    <3>5. view[a].status[b] = "error"
      BY <3>2 DEF WaitingForPackage, Failed
    <3>6. PICK m \in view[a].missingPackages[b] :
              \/ m = row
              \/ m.of.of = row.of.of /\ m.of.revision # row.of.revision
      BY <3>2 DEF WaitingForPackage
    <3>7. QED
      BY <3>3, <3>4, <3>5, <3>6 DEF Current
  <2>7. CASE TriggerForRecipe(a)
    <3> DEFINE row == RecipeIn(Snapshot, RecipeOf[job[a]], a)
    <3>1. pc[a] = "recipe" /\ Retrigger(WaitingForRecipe(Snapshot, row))
      BY <2>7 DEF TriggerForRecipe, Commit
    <3>2. b \in WaitingForRecipe(Snapshot, row)
      BY <3>1 DEF Retrigger
    <3>3. row.recipe = RecipeOf[job[a]] /\ job[a] # NoBuild
      BY <3>1, JobTypes, ViewTables, RecipeFound DEF TypeOK
    <3> HIDE DEF row
    <3>4. status[b] = "error" /\ row \in missingRecipes[b]
      BY <3>2 DEF WaitingForRecipe, Failed, Snapshot
    <3>5. QED
      BY <3>3, <3>4
  <2>8. QED
    BY <2>3, <2>4, <2>5, <2>6, <2>7 DEF AgentStep
<1>2. Init => TypeOK /\ InTurn
  BY TypeInit, InTurnInit
<1>3. QED
  BY <1>1, <1>2, TypeStep, InTurnStep, PTL DEF Spec, RetriggeredForReason

-----------------------------------------------------------------------------
(* No failed build is left behind.                                         *)

(* An agent which executes p is past the query for the builds that wait    *)
(* for a recipe, or past the one for those that wait for a package.        *)
PastRecipe == {"requires", "success"}
PastPackage == {"recipe", "requires", "success"}

Executes(p, places) == \E a \in Agent : job[a] = p /\ pc[a] \in places

(* Build p, whose package is uploaded, is still to wake those which wait   *)
(* for it: an agent is about to, or p was interrupted and is to be built   *)
(* again.                                                                  *)
Owes(p, past) ==
    /\ status[p] # "success"
    /\ ~Executes(p, past)
    /\ faults > 0 \/ Executes(p, {"package", "recipe"} \ past)

(* A row b waits for says what is still not there, or what a build owes.   *)
WaitsForRecipe(b) ==
    \E x \in missingRecipes[b] :
        /\ x.recipe \in Needs[b]
        /\ \/ latest[x.recipe] = NoRevision
           \/ \E p \in Build : RecipeOf[p] = x.recipe /\ Owes(p, PastRecipe)

WaitsForPackage(b) ==
    \E m \in missingPackages[b] :
        LET r == m.of.of.recipe
        IN /\ r \in Needs[b] /\ m.id = ProfileOf[b]
           /\ \/ /\ latest[r] = m.of.revision
                 /\ <<r, m.of.revision, m.id>> \notin remote
              \/ \E p \in Build :
                    /\ RecipeOf[p] = r
                    /\ RevisionOf[p] # m.of.revision \/ ProfileOf[p] = m.id
                    /\ Owes(p, PastPackage)

Waits(b) == WaitsForRecipe(b) \/ WaitsForPackage(b)

(* While results are handled one after the other, an active build is       *)
(* executed by one agent, and what an agent sees in its transaction has    *)
(* every build that has failed.                                            *)
OneExecutes ==
    /\ \A a \in Agent : pc[a] # "free" => status[job[a]] = "active"
    /\ \A a1, a2 \in Agent :
          pc[a1] # "free" /\ pc[a2] # "free" /\ job[a1] = job[a2] => a1 = a2

SeesFailed(v) ==
    /\ v.retired \subseteq retired
    /\ \A b \in Build : status[b] = "error" => v.status[b] = "error"

Orderly ==
    apart => /\ OneExecutes
             /\ \A a \in Agent : view[a] # NoView => SeesFailed(view[a])

(* What Conan has reported is still so, and every build which fails or has *)
(* failed waits for something.                                             *)
Reported(a) ==
    /\ report[a].recipes = LackingRecipes(job[a])
    /\ report[a].packages = LackingPackages(job[a])
    /\ LackingRecipes(job[a]) \cup LackingPackages(job[a]) # {}

Recorded ==
    apart => /\ \A b \in Build \ retired : status[b] = "error" => Waits(b)
             /\ \A a \in Agent : pc[a] = "failure" => Reported(a)
             /\ \A a \in Agent : pc[a] = "error" => Waits(job[a])

(* Only a build which requires something fails. *)
Needy ==
    /\ \A b \in Build : status[b] = "error" => Needs[b] # {}
    /\ \A a \in Agent : pc[a] \in {"failure", "error"} => Needs[job[a]] # {}

LEMMA NeedyStep == TypeOK /\ Needy /\ [Next]_vars => Needy'
<1> SUFFICES ASSUME TypeOK, Needy, [Next]_vars PROVE Needy'
  OBVIOUS
<1>1. ASSUME NEW a \in Agent, NEW b \in Build, Claim(a, b) PROVE Needy'
  BY <1>1 DEF Claim, Needy, TypeOK
<1>2. ASSUME NEW a \in Agent, ConanFails(a) PROVE Needy'
  <2>1. Needs[job[a]] # {}
    BY <1>2 DEF ConanFails, LackingRecipes, LackingPackages, Required
  <2>2. UNCHANGED <<status, job>> /\ pc' = [pc EXCEPT ![a] = "failure"]
    BY <1>2 DEF ConanFails
  <2>3. QED
    BY <2>1, <2>2 DEF Needy, TypeOK
<1>3. ASSUME NEW a \in Agent, UNCHANGED <<status, job>>,
             pc' = [pc EXCEPT ![a] = pc'[a]],
             pc'[a] \in {"failure", "error"} => pc[a] \in {"failure", "error"}
      PROVE  Needy'
  BY <1>3 DEF Needy, TypeOK
<1>4. ASSUME NEW a \in Agent,
             \/ ConanSucceeds(a) \/ Begin(a) \/ StoreFailure(a)
             \/ StoreRequires(a)
      PROVE  Needy'
  <2>1. UNCHANGED <<status, job>>
    BY <1>4 DEF ConanSucceeds, Begin, StoreFailure, StoreRequires, Commit
  <2>2. /\ pc' = [pc EXCEPT ![a] = pc'[a]]
        /\ pc'[a] \in {"failure", "error"} => pc[a] \in {"failure", "error"}
    BY <1>4 DEF ConanSucceeds, Begin, StoreFailure, StoreRequires, Commit,
       TypeOK
  <2>3. QED
    BY <1>3, <2>1, <2>2
<1>5. ASSUME NEW a \in Agent, StorePackage(a) \/ TriggerForRecipe(a)
      PROVE  Needy'
  <2>1. UNCHANGED job
    BY <1>5 DEF StorePackage, TriggerForRecipe, Commit
  <2>2. \A b \in Build : status'[b] = "error" => status[b] = "error"
    BY <1>5 DEF StorePackage, TriggerForRecipe, Retrigger
  <2>3. \A c \in Agent : pc'[c] \in {"failure", "error"} => pc[c] = pc'[c]
    BY <1>5 DEF StorePackage, TriggerForRecipe, Commit, TypeOK
  <2>4. QED
    BY <2>1, <2>2, <2>3 DEF Needy
<1>6. ASSUME NEW a \in Agent, RecordStatus(a) \/ Interrupt(a) PROVE Needy'
  <2>1. \A c \in Agent : pc'[c] \in {"failure", "error"}
            => pc[c] = pc'[c] /\ job'[c] = job[c]
    BY <1>6 DEF RecordStatus, Interrupt, Forget, TypeOK
  <2>2. \A b \in Build : status'[b] = "error" =>
            status[b] = "error" \/ (b = job[a] /\ pc[a] = "error")
    BY <1>6 DEF RecordStatus, Interrupt, TypeOK
  <2>3. QED
    BY <2>1, <2>2 DEF Needy
<1>7. ASSUME NEW b \in Build, Retire(b) PROVE Needy'
  BY <1>7 DEF Retire, Needy
<1>8. CASE UNCHANGED vars
  BY <1>8 DEF vars, Needy
<1>9. QED
  BY <1>1, <1>2, <1>4, <1>5, <1>6, <1>7, <1>8 DEF Next, AgentStep

(* After a step which ends a transaction no agent is in one. *)
LEMMA ViewsClosed ==
    ASSUME TypeOK, InTurn, apart, NEW a \in Agent,
           \/ StoreFailure(a) \/ StorePackage(a) \/ StoreRequires(a)
           \/ TriggerForRecipe(a) \/ RecordStatus(a) \/ Interrupt(a)
    PROVE  \A c \in Agent : view'[c] = NoView
<1>1. pc[a] \in Handling /\ view' = [view EXCEPT ![a] = NoView]
  BY DEF StoreFailure, StorePackage, StoreRequires, TriggerForRecipe,
     RecordStatus, Interrupt, Commit, Forget, Handling
<1>2. \A c \in Agent : view[c] # NoView => c = a
  BY <1>1 DEF InTurn, OneHandles, TypeOK, Transaction, Handling
<1>3. QED
  BY <1>1, <1>2 DEF TypeOK

(* A build which another one sets to new had failed.                       *)
LEMMA OnlyFailedRetriggered ==
    ASSUME TypeOK, InTurn, apart, NEW a \in Agent,
           StorePackage(a) \/ TriggerForRecipe(a)
    PROVE  \A b \in Build : status[b] # "error" => status'[b] = status[b]
<1>1. CASE StorePackage(a)
  <2>1. PICK builds \in SUBSET Failed(view[a]) : Retrigger(builds)
    BY <1>1 DEF StorePackage, WaitingForPackage
  <2>2. Current(view[a])
    BY <1>1 DEF StorePackage, Commit, Transaction, InTurn
  <2>3. \A b \in builds : status[b] = "error"
    BY <2>1, <2>2 DEF Failed, Current
  <2>4. QED
    BY <2>1, <2>3 DEF Retrigger
<1>2. CASE TriggerForRecipe(a)
  <2>1. PICK builds \in SUBSET Failed(Snapshot) : Retrigger(builds)
    BY <1>2 DEF TriggerForRecipe, WaitingForRecipe
  <2>2. QED
    BY <2>1 DEF Retrigger, Failed, Snapshot
<1>3. QED
  BY <1>1, <1>2

(* A build is executed by one agent as long as results are handled one     *)
(* after the other.                                                        *)
LEMMA OneExecutesStep ==
    ASSUME TypeOK, InTurn, apart, OneExecutes, Next
    PROVE  OneExecutes'
<1>1. ASSUME NEW a \in Agent, NEW b \in Build, Claim(a, b) PROVE OneExecutes'
  <2>1. \A c \in Agent : pc[c] # "free" => job[c] # b
    BY <1>1 DEF Claim, OneExecutes
  <2>2. \A c \in Agent \ {a} : pc'[c] = pc[c] /\ job'[c] = job[c]
    BY <1>1 DEF Claim, TypeOK
  <2>3. /\ pc'[a] = "building" /\ job'[a] = b /\ status'[b] = "active"
        /\ \A d \in Build \ {b} : status'[d] = status[d]
    BY <1>1 DEF Claim, TypeOK
  <2>4. \A c \in Agent \ {a} : pc[c] # "free" => job[c] \in Build \ {b}
    BY <2>1 DEF TypeOK
  <2>5. QED
    BY <2>1, <2>2, <2>3, <2>4 DEF OneExecutes
<1>2. ASSUME NEW a \in Agent, UNCHANGED job, pc[a] # "free",
             pc' = [pc EXCEPT ![a] = pc'[a]],
             \A b \in Build : status[b] # "error" => status'[b] = status[b]
      PROVE  OneExecutes'
  <2>1. \A c \in Agent : pc'[c] # "free" => pc[c] # "free" /\ job[c] \in Build
    BY <1>2 DEF TypeOK
  <2>2. QED
    BY <1>2, <2>1 DEF OneExecutes
<1>3. ASSUME NEW a \in Agent,
             \/ ConanFails(a) \/ ConanSucceeds(a) \/ Begin(a)
             \/ StoreFailure(a) \/ StoreRequires(a)
             \/ StorePackage(a) \/ TriggerForRecipe(a)
      PROVE  OneExecutes'
  <2>1. UNCHANGED job /\ pc[a] # "free" /\ pc' = [pc EXCEPT ![a] = pc'[a]]
    BY <1>3 DEF ConanFails, ConanSucceeds, Begin, StoreFailure, StoreRequires,
       StorePackage, TriggerForRecipe, Commit, Transaction, TypeOK
  <2>2. \A b \in Build : status[b] # "error" => status'[b] = status[b]
    <3>1. CASE StorePackage(a) \/ TriggerForRecipe(a)
      BY <3>1, OnlyFailedRetriggered
    <3>2. CASE UNCHANGED status
      BY <3>2
    <3>3. QED
      BY <1>3, <3>1, <3>2 DEF ConanFails, ConanSucceeds, Begin, StoreFailure,
         StoreRequires
  <2>3. QED
    BY <1>2, <2>1, <2>2
<1>4. ASSUME NEW a \in Agent, RecordStatus(a) \/ Interrupt(a)
      PROVE  OneExecutes'
  <2>1. pc[a] # "free" /\ pc'[a] = "free"
        /\ \A c \in Agent \ {a} : pc'[c] = pc[c] /\ job'[c] = job[c]
    BY <1>4 DEF RecordStatus, Interrupt, Forget, Handling, TypeOK
  <2>2. \A b \in Build \ {job[a]} : status'[b] = status[b]
    BY <1>4 DEF RecordStatus, Interrupt, TypeOK
  <2>3. \A c \in Agent \ {a} : pc[c] # "free" => job[c] \in Build \ {job[a]}
    BY <2>1 DEF OneExecutes, TypeOK
  <2>4. QED
    BY <2>1, <2>2, <2>3 DEF OneExecutes
<1>5. ASSUME NEW b \in Build, Retire(b) PROVE OneExecutes'
  BY <1>5 DEF Retire, OneExecutes
<1>6. QED
  BY <1>1, <1>3, <1>4, <1>5 DEF Next, AgentStep

LEMMA OrderlyStep == TypeOK /\ InTurn /\ Orderly /\ [Next]_vars => Orderly'
<1> SUFFICES ASSUME TypeOK, InTurn, Orderly, [Next]_vars, apart'
             PROVE  OneExecutes'
                    /\ \A c \in Agent : view'[c] # NoView => SeesFailed(view[c])'
  BY DEF Orderly
<1>1. CASE UNCHANGED vars
  BY <1>1 DEF vars, Orderly, OneExecutes, SeesFailed
<1>2. CASE Next
  <2>1. apart
    BY <1>2 DEF Next, NoteOverlap
  <2>2. OneExecutes'
    BY <1>2, <2>1, OneExecutesStep DEF Orderly
  <2>3. \A c \in Agent : view[c] # NoView => SeesFailed(view[c])
    BY <2>1 DEF Orderly
  <2>4. ASSUME NEW a \in Agent,
               \/ StoreFailure(a) \/ StorePackage(a) \/ StoreRequires(a)
               \/ TriggerForRecipe(a) \/ RecordStatus(a) \/ Interrupt(a)
        PROVE  \A c \in Agent : view'[c] # NoView => SeesFailed(view[c])'
    BY <2>1, <2>4, ViewsClosed
  <2>5. ASSUME UNCHANGED view, retired \subseteq retired',
               \A b \in Build : status'[b] = "error" => status[b] = "error"
        PROVE  \A c \in Agent : view'[c] # NoView => SeesFailed(view[c])'
    BY <2>3, <2>5 DEF SeesFailed
  <2>6. ASSUME NEW a \in Agent, NEW b \in Build, Claim(a, b)
        PROVE  \A c \in Agent : view'[c] # NoView => SeesFailed(view[c])'
    BY <2>5, <2>6 DEF Claim, TypeOK
  <2>7. ASSUME NEW a \in Agent, ConanFails(a) \/ ConanSucceeds(a)
        PROVE  \A c \in Agent : view'[c] # NoView => SeesFailed(view[c])'
    BY <2>5, <2>7 DEF ConanFails, ConanSucceeds
  <2>8. ASSUME NEW b \in Build, Retire(b)
        PROVE  \A c \in Agent : view'[c] # NoView => SeesFailed(view[c])'
    BY <2>5, <2>8 DEF Retire
  <2>9. ASSUME NEW a \in Agent, Begin(a)
        PROVE  \A c \in Agent : view'[c] # NoView => SeesFailed(view[c])'
    <3>1. SeesFailed(Snapshot) /\ UNCHANGED <<retired, status>>
      BY <2>9 DEF Snapshot, SeesFailed, Begin
    <3>2. \A c \in Agent : view'[c] # NoView => SeesFailed(view'[c])
      BY <2>3, <2>9, <3>1 DEF Begin, TypeOK
    <3>3. QED
      BY <3>1, <3>2 DEF SeesFailed
  <2>10. QED
    BY <1>2, <2>2, <2>4, <2>6, <2>7, <2>8, <2>9 DEF Next, AgentStep
<1>3. QED
  BY <1>1, <1>2

(* A build still owes its trigger after a step which does not take it past *)
(* the query, or interrupts it.                                            *)
LEMMA OwesKept ==
    ASSUME TypeOK, NEW p \in Build, NEW past, Owes(p, past),
           faults' = faults \/ faults' > 0,
           status'[p] # "success",
           \A c \in Agent : job'[c] = p /\ pc'[c] \in past
               => job[c] = p /\ pc[c] \in past,
           \/ faults' > 0
           \/ \A c \in Agent :
                 (job[c] = p /\ pc[c] \in {"package", "recipe"} \ past)
                     => (job'[c] = p /\ pc'[c] \in {"package", "recipe"} \ past)
    PROVE  Owes(p, past)'
<1>1. ~Executes(p, past)'
  BY DEF Owes, Executes
<1>2. CASE faults' > 0
  BY <1>1, <1>2 DEF Owes
<1>3. CASE ~(faults' > 0)
  <2>1. faults' = faults /\ Executes(p, {"package", "recipe"} \ past)
    BY <1>3 DEF Owes
  <2>2. Executes(p, {"package", "recipe"} \ past)'
    BY <1>3, <2>1 DEF Executes
  <2>3. QED
    BY <1>1, <2>2 DEF Owes
<1>4. QED
  BY <1>2, <1>3

(* What a build waits for is still to come after a step which uploads      *)
(* nothing, as long as those who owe a trigger still do.                   *)
LEMMA WaitsKept ==
    ASSUME NEW b \in Build, Waits(b), UNCHANGED server,
           missingRecipes'[b] = missingRecipes[b],
           missingPackages'[b] = missingPackages[b],
           \A x \in missingRecipes[b], p \in Build :
               RecipeOf[p] = x.recipe /\ Owes(p, PastRecipe)
                   => Owes(p, PastRecipe)',
           \A m \in missingPackages[b], p \in Build :
               (/\ RecipeOf[p] = m.of.of.recipe
                /\ RevisionOf[p] # m.of.revision \/ ProfileOf[p] = m.id
                /\ Owes(p, PastPackage))
                   => Owes(p, PastPackage)'
    PROVE  Waits(b)'
<1>1. UNCHANGED <<latest, remote>>
  BY DEF server
<1>2. CASE WaitsForRecipe(b)
  <2>1. PICK x \in missingRecipes[b] :
            /\ x.recipe \in Needs[b]
            /\ \/ latest[x.recipe] = NoRevision
               \/ \E p \in Build : RecipeOf[p] = x.recipe /\ Owes(p, PastRecipe)
    BY <1>2 DEF WaitsForRecipe
  <2>2. x \in missingRecipes'[b]
    BY <2>1
  <2>3. \/ latest'[x.recipe] = NoRevision
        \/ \E p \in Build : RecipeOf[p] = x.recipe /\ Owes(p, PastRecipe)'
    BY <1>1, <2>1
  <2>4. WaitsForRecipe(b)'
    BY <2>1, <2>2, <2>3 DEF WaitsForRecipe
  <2>5. QED
    BY <2>4 DEF Waits
<1>3. CASE WaitsForPackage(b)
  <2>1. PICK m \in missingPackages[b] :
            /\ m.of.of.recipe \in Needs[b] /\ m.id = ProfileOf[b]
            /\ \/ /\ latest[m.of.of.recipe] = m.of.revision
                  /\ <<m.of.of.recipe, m.of.revision, m.id>> \notin remote
               \/ \E p \in Build :
                    /\ RecipeOf[p] = m.of.of.recipe
                    /\ RevisionOf[p] # m.of.revision \/ ProfileOf[p] = m.id
                    /\ Owes(p, PastPackage)
    BY <1>3 DEF WaitsForPackage
  <2>2. m \in missingPackages'[b]
    BY <2>1
  <2>3. \/ /\ latest'[m.of.of.recipe] = m.of.revision
           /\ <<m.of.of.recipe, m.of.revision, m.id>> \notin remote'
        \/ \E p \in Build :
              /\ RecipeOf[p] = m.of.of.recipe
              /\ RevisionOf[p] # m.of.revision \/ ProfileOf[p] = m.id
              /\ Owes(p, PastPackage)'
    BY <1>1, <2>1
  <2>4. WaitsForPackage(b)'
    BY <2>1, <2>2, <2>3 DEF WaitsForPackage
  <2>5. QED
    BY <2>4 DEF Waits
<1>4. QED
  BY <1>2, <1>3 DEF Waits

(* The steps which leave every debt of a trigger alone.                    *)
LEMMA QuietOwes ==
    ASSUME TypeOK, apart, Orderly, faults' = faults,
           NEW p \in Build, NEW past \in {PastRecipe, PastPackage},
           Owes(p, past), NEW a \in Agent,
           \/ \E c \in Build : Claim(a, c)
           \/ ConanFails(a) \/ Begin(a) \/ StoreFailure(a) \/ StoreRequires(a)
           \/ RecordStatus(a)
    PROVE  Owes(p, past)'
<1>1. past \in {{"requires", "success"}, {"recipe", "requires", "success"}}
  BY DEF PastRecipe, PastPackage
<1>2. ASSUME NEW c \in Build, Claim(a, c) PROVE Owes(p, past)'
  <2>1. status'[p] # "success"
    BY <1>2 DEF Claim, Owes, TypeOK
  <2>2. pc[a] = "free" /\ pc'[a] = "building"
        /\ \A d \in Agent \ {a} : pc'[d] = pc[d] /\ job'[d] = job[d]
    BY <1>2 DEF Claim, TypeOK
  <2>3. QED
    BY <1>1, <2>1, <2>2, OwesKept
<1>3. ASSUME ConanFails(a) \/ Begin(a) \/ StoreFailure(a) \/ StoreRequires(a)
      PROVE  Owes(p, past)'
  <2>1. UNCHANGED <<status, job>>
    BY <1>3 DEF ConanFails, Begin, StoreFailure, StoreRequires, Commit
  <2>2. \A d \in Agent \ {a} : pc'[d] = pc[d]
    BY <1>3 DEF ConanFails, Begin, StoreFailure, StoreRequires, Commit, TypeOK
  <2>3. \/ pc[a] = pc'[a] \/ pc[a] = "requires"
        \/ {pc[a], pc'[a]} \subseteq {"building", "failure", "error"}
    BY <1>3 DEF ConanFails, Begin, StoreFailure, StoreRequires, Commit, TypeOK
  <2>4. status'[p] # "success"
    BY <2>1 DEF Owes
  <2>5. pc[a] = "requires" => job[a] # p
    BY <1>1 DEF Owes, Executes
  <2>6. QED
    BY <1>1, <2>1, <2>2, <2>3, <2>4, <2>5, OwesKept
<1>4. ASSUME RecordStatus(a) PROVE Owes(p, past)'
  <2>1. pc[a] \in {"error", "success"} /\ pc'[a] = "free"
        /\ \A d \in Agent \ {a} : pc'[d] = pc[d] /\ job'[d] = job[d]
    BY <1>4 DEF RecordStatus, Forget, TypeOK
  <2>2. pc[a] = "success" => job[a] # p
    BY <1>1 DEF Owes, Executes
  <2>3. status'[p] # "success"
    BY <1>4, <2>2 DEF RecordStatus, Owes, TypeOK
  <2>4. QED
    BY <1>1, <2>1, <2>3, OwesKept
<1>5. QED
  BY <1>2, <1>3, <1>4

(* ... so that every build waits on.                                       *)
LEMMA QuietWaits ==
    ASSUME TypeOK, apart, Orderly, faults' = faults,
           NEW b \in Build, Waits(b), NEW a \in Agent,
           \/ \E c \in Build : Claim(a, c)
           \/ ConanFails(a) \/ Begin(a) \/ RecordStatus(a) \/ StoreRequires(a)
           \/ StoreFailure(a) /\ job[a] # b
    PROVE  Waits(b)'
<1>1. \A p \in Build, past \in {PastRecipe, PastPackage} :
          Owes(p, past) => Owes(p, past)'
  BY QuietOwes
<1>2. UNCHANGED server
  BY DEF Claim, ConanFails, Begin, RecordStatus, StoreRequires, StoreFailure,
     Commit
<1>3. /\ missingRecipes'[b] = missingRecipes[b]
      /\ missingPackages'[b] = missingPackages[b]
  BY DEF Claim, ConanFails, Begin, RecordStatus, StoreRequires, StoreFailure,
     waiting, TypeOK
<1>4. QED
  BY <1>1, <1>2, <1>3, WaitsKept

(* The commit of another build is retired. *)
LEMMA RetireWaits ==
    ASSUME TypeOK, faults' = faults, NEW b \in Build, Waits(b),
           NEW c \in Build, Retire(c)
    PROVE  Waits(b)'
<1>1. UNCHANGED <<server, missingRecipes, missingPackages, status, job, pc>>
  BY DEF Retire, waiting
<1>2. ASSUME NEW p \in Build, NEW past, Owes(p, past)
      PROVE  Owes(p, past)'
  BY <1>1, <1>2 DEF Owes, Executes
<1>3. QED
  BY <1>1, <1>2, WaitsKept

(* An interrupted build is built again, and owes what it did before.       *)
LEMMA InterruptWaits ==
    ASSUME TypeOK, NEW b \in Build, Waits(b), NEW a \in Agent, Interrupt(a)
    PROVE  Waits(b)'
<1>1. faults' > 0
  BY DEF Interrupt, TypeOK
<1>2. \A d \in Agent \ {a} : pc'[d] = pc[d] /\ job'[d] = job[d]
  BY DEF Interrupt, Forget, TypeOK
<1>3. pc'[a] = "free"
  BY DEF Interrupt, Forget, TypeOK
<1>4. ASSUME NEW p \in Build, NEW past \in {PastRecipe, PastPackage},
             Owes(p, past)
      PROVE  Owes(p, past)'
  <2>1. status'[p] # "success"
    BY <1>4 DEF Interrupt, Owes, TypeOK
  <2>2. "free" \notin past
    BY DEF PastRecipe, PastPackage
  <2>3. QED
    BY <1>1, <1>2, <1>3, <1>4, <2>1, <2>2, OwesKept
<1>5. UNCHANGED <<server, missingRecipes, missingPackages>>
  BY DEF Interrupt, waiting
<1>6. QED
  BY <1>4, <1>5, WaitsKept

(* The package of a build is uploaded: what was not there comes from a     *)
(* build which owes its triggers.                                          *)
LEMMA UploadWaits ==
    ASSUME TypeOK, apart, Orderly, faults' = faults,
           NEW b \in Build, Waits(b), NEW a \in Agent, ConanSucceeds(a)
    PROVE  Waits(b)'
<1>p. PICK p \in Build : p = job[a]
  BY JobTypes DEF ConanSucceeds
<1>1. /\ pc[a] = "building" /\ pc' = [pc EXCEPT ![a] = "package"]
      /\ remote' = remote \cup {OwnKey(p)}
      /\ latest' = [latest EXCEPT ![RecipeOf[p]] = RevisionOf[p]]
      /\ UNCHANGED <<missingRecipes, missingPackages, status, job>>
  BY <1>p DEF ConanSucceeds, waiting
<1>2. /\ p \in Build /\ RecipeOf[p] \in Recipe
      /\ status[p] = "active"
      /\ \A c \in Agent : pc[c] # "free" /\ job[c] = p => c = a
  BY <1>1, <1>p, JobTypes DEF Orderly, OneExecutes
<1>3. ASSUME NEW q \in Build, NEW past \in {PastRecipe, PastPackage},
             Owes(q, past)
      PROVE  Owes(q, past)'
  <2>1. past \in {{"requires", "success"}, {"recipe", "requires", "success"}}
    BY DEF PastRecipe, PastPackage
  <2>2. pc[a] = "building" /\ pc'[a] = "package"
        /\ \A c \in Agent \ {a} : pc'[c] = pc[c]
    BY <1>1 DEF TypeOK
  <2>3. status'[q] # "success"
    BY <1>1, <1>3 DEF Owes
  <2>4. QED
    BY <1>1, <1>3, <2>1, <2>2, <2>3, OwesKept
<1>4. ASSUME NEW past \in {PastRecipe, PastPackage} PROVE Owes(p, past)'
  <2>1. past \in {{"requires", "success"}, {"recipe", "requires", "success"}}
    BY DEF PastRecipe, PastPackage
  <2>2. pc'[a] = "package" /\ job'[a] = p /\ status'[p] = "active"
    BY <1>1, <1>p, <1>2 DEF TypeOK
  <2>3. \A c \in Agent : job'[c] = p /\ pc'[c] \in past => c = a
    BY <1>1, <1>p, <1>2, <2>1 DEF TypeOK
  <2>4. QED
    BY <2>1, <2>2, <2>3 DEF Owes, Executes
<1>o. Owes(p, PastRecipe)' /\ Owes(p, PastPackage)'
  BY <1>4
<1>5. CASE WaitsForRecipe(b)
  <2>1. PICK x \in missingRecipes[b] :
            /\ x.recipe \in Needs[b]
            /\ \/ latest[x.recipe] = NoRevision
               \/ \E q \in Build : RecipeOf[q] = x.recipe /\ Owes(q, PastRecipe)
    BY <1>5 DEF WaitsForRecipe
  <2>2. \/ latest'[x.recipe] = NoRevision
        \/ \E q \in Build : RecipeOf[q] = x.recipe /\ Owes(q, PastRecipe)'
    <3>1. CASE latest[x.recipe] = NoRevision
      <4>1. CASE x.recipe = RecipeOf[p]
        BY <1>2, <1>o, <4>1
      <4>2. CASE x.recipe # RecipeOf[p]
        BY <1>1, <3>1, <4>2 DEF TypeOK
      <4>3. QED
        BY <4>1, <4>2
    <3>2. QED
      BY <1>3, <2>1, <3>1
  <2>3. x \in missingRecipes'[b]
    BY <1>1, <2>1
  <2>4. QED
    BY <2>1, <2>2, <2>3 DEF Waits, WaitsForRecipe
<1>6. CASE WaitsForPackage(b)
  <2>1. PICK m \in missingPackages[b] :
            /\ m.of.of.recipe \in Needs[b] /\ m.id = ProfileOf[b]
            /\ \/ /\ latest[m.of.of.recipe] = m.of.revision
                  /\ <<m.of.of.recipe, m.of.revision, m.id>> \notin remote
               \/ \E q \in Build :
                    /\ RecipeOf[q] = m.of.of.recipe
                    /\ RevisionOf[q] # m.of.revision \/ ProfileOf[q] = m.id
                    /\ Owes(q, PastPackage)
    BY <1>6 DEF WaitsForPackage
  <2> DEFINE key == <<m.of.of.recipe, m.of.revision, m.id>>
  <2>2. \/ latest'[m.of.of.recipe] = m.of.revision /\ key \notin remote'
        \/ \E q \in Build :
              /\ RecipeOf[q] = m.of.of.recipe
              /\ RevisionOf[q] # m.of.revision \/ ProfileOf[q] = m.id
              /\ Owes(q, PastPackage)'
    <3>1. CASE latest[m.of.of.recipe] = m.of.revision /\ key \notin remote
      <4>1. CASE m.of.of.recipe # RecipeOf[p]
        <5>1. key # OwnKey(p)
          BY <4>1 DEF OwnKey
        <5>2. QED
          BY <1>1, <3>1, <4>1, <5>1 DEF TypeOK
      <4>2. CASE /\ m.of.of.recipe = RecipeOf[p]
                 /\ RevisionOf[p] # m.of.revision \/ ProfileOf[p] = m.id
        BY <1>2, <1>o, <4>2
      <4>3. CASE /\ m.of.of.recipe = RecipeOf[p]
                 /\ RevisionOf[p] = m.of.revision /\ ProfileOf[p] # m.id
        <5>1. key # OwnKey(p)
          BY <4>3 DEF OwnKey
        <5>2. latest'[m.of.of.recipe] = m.of.revision
          BY <1>1, <1>2, <4>3 DEF TypeOK
        <5>3. QED
          BY <1>1, <3>1, <5>1, <5>2
      <4>4. QED
        BY <4>1, <4>2, <4>3
    <3>2. QED
      BY <1>3, <2>1, <3>1
  <2>3. m \in missingPackages'[b]
    BY <1>1, <2>1
  <2>4. QED
    BY <2>1, <2>2, <2>3 DEF Waits, WaitsForPackage
<1>7. QED
  BY <1>5, <1>6 DEF Waits

(* What a waiting build waits for is the row the transaction of the build  *)
(* that provides it has looked up, or one of another revision.             *)
LEMMA PackageMatches ==
    ASSUME TypeOK, Unique, NEW v, Tables(v), NEW a \in Agent,
           v.recipes = recipes, v.revisions = revisions, v.packages = packages,
           NEW m \in packages, NEW p \in Build,
           RecipeOf[p] = m.of.of.recipe,
           RevisionOf[p] # m.of.revision \/ ProfileOf[p] = m.id
    PROVE  LET row == PackageIn(v, OwnKey(p), a)
           IN \/ m = row
              \/ m.of.of = row.of.of /\ m.of.revision # row.of.revision
<1> DEFINE row == PackageIn(v, OwnKey(p), a)
<1>1. /\ OwnKey(p) \in Key /\ RecipeOf[p] \in Recipe
      /\ RevisionOf[p] \in Revision
      /\ OwnKey(p)[1] = RecipeOf[p] /\ OwnKey(p)[2] = RevisionOf[p]
      /\ OwnKey(p)[3] = ProfileOf[p]
  BY DEF OwnKey, Key, Recipe, Revision, Profile
<1>2. /\ row.of = RevisionIn(v, RecipeOf[p], RevisionOf[p], a)
      /\ row.of.of = RecipeIn(v, RecipeOf[p], a)
      /\ row.of.revision = RevisionOf[p]
  BY <1>1, PackageFound, RevisionFound
<1>3. m.of \in revisions /\ m.of.of \in recipes
  BY DEF TypeOK
<1>4. Canonical(v, a, recipes, revisions, packages)
  BY StoredCanonical
<1>5. m.of.of = row.of.of
  BY <1>2, <1>3, <1>4 DEF Canonical
<1>6. CASE RevisionOf[p] # m.of.revision
  BY <1>2, <1>5, <1>6
<1>7. CASE RevisionOf[p] = m.of.revision /\ ProfileOf[p] = m.id
  <2>1. m = PackageIn(v, <<m.of.of.recipe, m.of.revision, m.id>>, a)
    BY <1>4 DEF Canonical
  <2>2. OwnKey(p) = <<m.of.of.recipe, m.of.revision, m.id>>
    BY <1>7 DEF OwnKey
  <2>3. QED
    BY <2>1, <2>2
<1>8. QED
  BY <1>6, <1>7

(* The package is stored: who waits for it is retriggered, so that who     *)
(* stays failed waits for something else.                                  *)
LEMMA PackageWaits ==
    ASSUME TypeOK, InTurn, apart, Orderly, faults' = faults,
           NEW b \in Build \ retired, Waits(b), status[b] = "error",
           status'[b] = "error", NEW a \in Agent, StorePackage(a)
    PROVE  Waits(b)'
<1> DEFINE p == job[a]
           row == PackageIn(view[a], OwnKey(p), a)
<1>1. /\ pc[a] = "package" /\ view[a] # NoView
      /\ pc' = [pc EXCEPT ![a] = "recipe"]
      /\ missingRecipes' = [missingRecipes EXCEPT ![p] = {}]
      /\ missingPackages' = [missingPackages EXCEPT ![p] = {}]
      /\ UNCHANGED <<server, job>>
      /\ Retrigger(WaitingForPackage(view[a], row))
  BY DEF StorePackage, Commit, Transaction
<1>2. p \in Build /\ p # b /\ status[p] = "active"
  BY <1>1, JobTypes DEF Orderly, OneExecutes
<1>3. /\ Current(view[a]) /\ SeesFailed(view[a]) /\ Tables(view[a]) /\ Unique
  BY <1>1, ViewTables DEF InTurn, Orderly
<1>4. b \notin WaitingForPackage(view[a], row)
  BY <1>1 DEF Retrigger
<1>5. b \in Failed(view[a])
  BY <1>3 DEF Failed, SeesFailed
<1>6. \A m \in missingPackages[b] :
         ~(m = row \/ (m.of.of = row.of.of /\ m.of.revision # row.of.revision))
  BY <1>3, <1>4, <1>5 DEF WaitingForPackage, Current
<1>7. \A m \in missingPackages[b] :
         RecipeOf[p] = m.of.of.recipe =>
             ~(RevisionOf[p] # m.of.revision \/ ProfileOf[p] = m.id)
  <2>1. missingPackages[b] \subseteq packages
    BY DEF TypeOK
  <2>2. QED
    BY <1>2, <1>3, <1>6, <2>1, PackageMatches DEF Current
<1> HIDE DEF row
<1>8. \A q \in Build : status[q] # "success" => status'[q] # "success"
  BY <1>1 DEF Retrigger
<1>9. pc'[a] = "recipe" /\ \A c \in Agent \ {a} : pc'[c] = pc[c]
  BY <1>1 DEF TypeOK
<1>10. ASSUME NEW q \in Build, Owes(q, PastRecipe)
       PROVE  Owes(q, PastRecipe)'
  BY <1>1, <1>8, <1>9, <1>10, OwesKept DEF Owes, PastRecipe
<1>11. ASSUME NEW q \in Build, q # p, Owes(q, PastPackage)
       PROVE  Owes(q, PastPackage)'
  BY <1>1, <1>8, <1>9, <1>11, OwesKept DEF Owes, PastPackage
<1>12. /\ missingRecipes'[b] = missingRecipes[b]
       /\ missingPackages'[b] = missingPackages[b]
  BY <1>1, <1>2 DEF TypeOK
<1>13. QED
  BY <1>1, <1>7, <1>10, <1>11, <1>12, WaitsKept

(* The same for the recipe. *)
LEMMA RecipeWaits ==
    ASSUME TypeOK, InTurn, apart, Orderly, faults' = faults,
           NEW b \in Build \ retired, Waits(b), status[b] = "error",
           status'[b] = "error", NEW a \in Agent, TriggerForRecipe(a)
    PROVE  Waits(b)'
<1> DEFINE p == job[a]
           row == RecipeIn(Snapshot, RecipeOf[p], a)
<1>1. /\ pc[a] = "recipe" /\ pc' = [pc EXCEPT ![a] = "requires"]
      /\ UNCHANGED <<server, job, missingRecipes, missingPackages>>
      /\ Retrigger(WaitingForRecipe(Snapshot, row))
  BY DEF TriggerForRecipe, Commit, waiting
<1>2. p \in Build /\ RecipeOf[p] \in Recipe
  BY <1>1, JobTypes
<1>3. b \notin WaitingForRecipe(Snapshot, row)
  BY <1>1 DEF Retrigger
<1>4. row \notin missingRecipes[b]
  BY <1>3 DEF WaitingForRecipe, Failed, Snapshot
<1>5. \A x \in missingRecipes[b] : x.recipe # RecipeOf[p]
  <2>1. missingRecipes[b] \subseteq recipes
    BY DEF TypeOK
  <2>2. Canonical(Snapshot, a, recipes, revisions, packages)
    BY ViewTables, StoredCanonical DEF InTurn, Snapshot
  <2>3. QED
    BY <1>4, <2>1, <2>2 DEF Canonical
<1> HIDE DEF row
<1>6. \A q \in Build : status[q] # "success" => status'[q] # "success"
  BY <1>1 DEF Retrigger
<1>7. pc'[a] = "requires" /\ \A c \in Agent \ {a} : pc'[c] = pc[c]
  BY <1>1 DEF TypeOK
<1>8. ASSUME NEW q \in Build, q # p, Owes(q, PastRecipe)
      PROVE  Owes(q, PastRecipe)'
  BY <1>1, <1>6, <1>7, <1>8, OwesKept DEF Owes, PastRecipe
<1>9. ASSUME NEW q \in Build, Owes(q, PastPackage)
      PROVE  Owes(q, PastPackage)'
  BY <1>1, <1>6, <1>7, <1>9, OwesKept DEF Owes, PastPackage
<1>10. QED
  BY <1>1, <1>5, <1>8, <1>9, WaitsKept

(* The rows a failing build is linked with say what Conan did not find.    *)
LEMMA FailureWaits ==
    ASSUME TypeOK, NEW b \in Build, NEW a \in Agent, b = job[a],
           StoreFailure(a), Reported(a)
    PROVE  Waits(b)'
<1> DEFINE v == view[a]
<1>1. /\ pc[a] = "failure" /\ v # NoView
      /\ UNCHANGED <<latest, remote>>
      /\ missingRecipes'[b] = {RecipeIn(v, r, a) : r \in report[a].recipes}
      /\ missingPackages'[b] = {PackageIn(v, k, a) : k \in report[a].packages}
  BY DEF StoreFailure, Commit, Transaction, server, TypeOK
<1>2. Tables(v)
  BY <1>1, ViewTables
<1>3. report[a].recipes \subseteq Recipe /\ report[a].packages \subseteq Key
  BY DEF TypeOK
<1>4. ASSUME NEW r \in LackingRecipes(b) PROVE Waits(b)'
  <2>1. r \in report[a].recipes /\ r \in Needs[b] /\ latest[r] = NoRevision
    BY <1>4 DEF Reported, LackingRecipes
  <2>2. RecipeIn(v, r, a) \in missingRecipes'[b]
    BY <1>1, <2>1
  <2>3. RecipeIn(v, r, a).recipe = r
    BY <1>2, <1>3, <2>1, RecipeFound
  <2>4. PICK x \in missingRecipes'[b] : x.recipe = r
    BY <2>2, <2>3
  <2>5. x.recipe \in Needs[b] /\ latest'[x.recipe] = NoRevision
    BY <1>1, <2>1, <2>4
  <2>6. WaitsForRecipe(b)'
    BY <2>5 DEF WaitsForRecipe
  <2>7. QED
    BY <2>6 DEF Waits
<1>5. ASSUME NEW k \in LackingPackages(b) PROVE Waits(b)'
  <2>1. PICK r \in Needs[b] : k = <<r, latest[r], ProfileOf[b]>>
    BY <1>5 DEF LackingPackages, Required
  <2>2. k \in report[a].packages /\ k \notin remote
    BY <1>5 DEF Reported, LackingPackages
  <2>3. /\ PackageIn(v, k, a).of.of.recipe = k[1]
        /\ PackageIn(v, k, a).of.revision = k[2]
        /\ PackageIn(v, k, a).id = k[3]
    <3>1. k \in Key /\ k[1] \in Recipe /\ k[2] \in Revision
      BY <1>3, <2>2 DEF Key
    <3>2. QED
      BY <1>2, <3>1, PackageFound, RevisionFound, RecipeFound
  <2>4. PackageIn(v, k, a) \in missingPackages'[b]
    BY <1>1, <2>2
  <2>5. PICK m \in missingPackages'[b] :
            m.of.of.recipe = k[1] /\ m.of.revision = k[2] /\ m.id = k[3]
    BY <2>3, <2>4
  <2>6. /\ m.of.of.recipe = r /\ m.of.revision = latest[r]
        /\ m.id = ProfileOf[b]
    BY <2>1, <2>5
  <2>7. /\ m.of.of.recipe \in Needs[b] /\ m.id = ProfileOf[b]
        /\ latest'[m.of.of.recipe] = m.of.revision
        /\ <<m.of.of.recipe, m.of.revision, m.id>> \notin remote'
    BY <1>1, <2>1, <2>2, <2>6
  <2>8. WaitsForPackage(b)'
    BY <2>7 DEF WaitsForPackage
  <2>9. QED
    BY <2>8 DEF Waits
<1>6. QED
  BY <1>4, <1>5 DEF Reported

(* An agent which handles a result is not disturbed by the others.         *)
LEMMA HandlesAlone ==
    ASSUME TypeOK, InTurn, apart, Next, apart', NEW a \in Agent,
           pc[a] \in Handling, pc'[a] = pc[a]
    PROVE  \/ Begin(a) /\ faults' = faults
           \/ \E c \in Agent \ {a}, b \in Build : Claim(c, b) /\ faults' = faults
           \/ \E b \in Build : Retire(b) /\ faults' = faults
<1>1. ~Overlap'
  BY DEF Next, NoteOverlap
<1>2. ASSUME NEW c \in Agent, AgentStep(c), c # a, pc'[c] \in Handling
      PROVE  FALSE
  BY <1>1, <1>2 DEF Overlap
<1>3. ASSUME NEW c \in Agent, c # a, pc[c] \in Handling PROVE FALSE
  BY <1>3 DEF InTurn, OneHandles
<1>4. ASSUME NEW c \in Agent, Interrupt(c) PROVE FALSE
  BY <1>3, <1>4 DEF Interrupt, Forget, Handling, TypeOK
<1>5. ASSUME NEW c \in Agent,
             \/ StoreFailure(c) \/ StorePackage(c) \/ TriggerForRecipe(c)
             \/ StoreRequires(c) \/ RecordStatus(c)
      PROVE  FALSE
  <2>1. pc[c] \in Handling /\ pc'[c] # pc[c]
    BY <1>5 DEF StoreFailure, StorePackage, TriggerForRecipe, StoreRequires,
       RecordStatus, Commit, Forget, Handling, TypeOK
  <2>2. QED
    BY <1>3, <2>1
<1>6. ASSUME NEW c \in Agent, ConanFails(c) \/ ConanSucceeds(c) PROVE FALSE
  <2>1. pc[c] = "building" /\ pc'[c] \in Handling
    BY <1>6 DEF ConanFails, ConanSucceeds, Handling, TypeOK
  <2>2. c # a /\ AgentStep(c)
    BY <1>6, <2>1 DEF AgentStep, Handling
  <2>3. QED
    BY <1>2, <2>1, <2>2
<1>7. ASSUME NEW c \in Agent, Begin(c) PROVE c = a
  BY <1>3, <1>7 DEF Begin, Transaction, Handling
<1>8. ASSUME NEW c \in Agent, NEW b \in Build, Claim(c, b) PROVE c # a
  BY <1>8 DEF Claim, Handling
<1>9. QED
  BY <1>4, <1>5, <1>6, <1>7, <1>8 DEF Next, AgentStep

(* Every failed build of a current commit waits on.                        *)
LEMMA FailedWaits ==
    ASSUME TypeOK, InTurn, Orderly, Recorded, Next, apart',
           NEW b \in Build \ retired', status'[b] = "error"
    PROVE  Waits(b)'
<1>0. apart /\ b \in Build \ retired
  <2>1. retired \subseteq retired'
    BY DEF Next, AgentStep, Claim, ConanFails, ConanSucceeds, Begin,
       StoreFailure, StorePackage, TriggerForRecipe, StoreRequires,
       RecordStatus, Interrupt, Retire, Commit
  <2>2. QED
    BY <2>1 DEF Next, NoteOverlap
<1>1. CASE status[b] # "error"
  <2>1. \A c \in Agent : ~StorePackage(c) /\ ~TriggerForRecipe(c)
    BY <1>0, <1>1, OnlyFailedRetriggered
  <2>2. PICK a \in Agent : RecordStatus(a)
    BY <1>1, <2>1 DEF Next, AgentStep, Claim, ConanFails, ConanSucceeds, Begin,
       StoreFailure, StoreRequires, Interrupt, Retire, TypeOK
  <2>3. pc[a] = "error" /\ job[a] = b
    BY <1>1, <2>2 DEF RecordStatus, TypeOK
  <2>4. Waits(b)
    BY <1>0, <2>3 DEF Recorded
  <2>5. faults' = faults
    <3>1. ~\E c \in Agent : Interrupt(c)
      BY <1>1 DEF Interrupt, TypeOK
    <3>2. QED
      BY <3>1 DEF Next
  <2>6. QED
    BY <1>0, <2>2, <2>4, <2>5, QuietWaits
<1>2. CASE status[b] = "error"
  <2>1. Waits(b)
    BY <1>0, <1>2 DEF Recorded
  <2>2. \A a \in Agent : pc[a] # "free" => job[a] # b
    BY <1>0, <1>2 DEF Orderly, OneExecutes
  <2>3. ASSUME NEW a \in Agent, Interrupt(a) PROVE Waits(b)'
    BY <2>1, <2>3, InterruptWaits
  <2>4. ASSUME NEW c \in Build, Retire(c), faults' = faults PROVE Waits(b)'
    BY <2>1, <2>4, RetireWaits
  <2>5. ASSUME NEW a \in Agent, AgentStep(a), faults' = faults
        PROVE  Waits(b)'
    <3>1. CASE StorePackage(a)
      BY <1>0, <1>2, <2>1, <2>5, <3>1, PackageWaits
    <3>2. CASE TriggerForRecipe(a)
      BY <1>0, <1>2, <2>1, <2>5, <3>2, RecipeWaits
    <3>3. CASE ConanSucceeds(a)
      BY <1>0, <2>1, <2>5, <3>3, UploadWaits
    <3>4. CASE StoreFailure(a)
      <4>1. job[a] # b
        BY <2>2, <3>4 DEF StoreFailure, Commit
      <4>2. QED
        BY <1>0, <2>1, <2>5, <3>4, <4>1, QuietWaits
    <3>5. CASE \/ \E c \in Build : Claim(a, c)
               \/ ConanFails(a) \/ Begin(a) \/ RecordStatus(a)
               \/ StoreRequires(a)
      BY <1>0, <2>1, <2>5, <3>5, QuietWaits
    <3>6. QED
      BY <2>5, <3>1, <3>2, <3>3, <3>4, <3>5 DEF AgentStep
  <2>6. QED
    BY <2>3, <2>4, <2>5 DEF Next
<1>3. QED
  BY <1>1, <1>2

(* Who gets to these places, and how. *)
LEMMA EntersHandling ==
    ASSUME TypeOK, Next, NEW a \in Agent, pc'[a] # pc[a]
    PROVE  /\ pc'[a] = "failure" => ConanFails(a)
           /\ pc'[a] = "error" => StoreFailure(a)
<1>1. ASSUME NEW c \in Agent,
             \/ \E b \in Build : Claim(c, b)
             \/ RecordStatus(c) \/ Interrupt(c)
      PROVE  pc'[a] \in {"building", "free"}
  BY <1>1 DEF Claim, RecordStatus, Interrupt, Forget, TypeOK
<1>2. ASSUME NEW c \in Agent, Begin(c) PROVE FALSE
  BY <1>2 DEF Begin
<1>3. ASSUME NEW c \in Agent,
             \/ ConanFails(c) \/ ConanSucceeds(c) \/ StoreFailure(c)
             \/ StorePackage(c) \/ TriggerForRecipe(c) \/ StoreRequires(c)
      PROVE  c = a
  BY <1>3 DEF ConanFails, ConanSucceeds, StoreFailure, StorePackage,
     TriggerForRecipe, StoreRequires, Commit, TypeOK
<1>4. /\ ConanSucceeds(a) => pc'[a] = "package"
      /\ StorePackage(a) => pc'[a] = "recipe"
      /\ TriggerForRecipe(a) => pc'[a] = "requires"
      /\ StoreRequires(a) => pc'[a] = "success"
      /\ ConanFails(a) => pc'[a] = "failure"
      /\ StoreFailure(a) => pc'[a] = "error"
  BY DEF ConanFails, ConanSucceeds, StoreFailure, StorePackage,
     TriggerForRecipe, StoreRequires, Commit, TypeOK
<1>5. ~\E b \in Build : Retire(b)
  BY DEF Retire
<1>6. QED
  BY <1>1, <1>2, <1>3, <1>4, <1>5 DEF Next, AgentStep

(* While a result is handled what Conan reported stays so; a build is set  *)
(* to failed once what it waits for is recorded.                           *)
LEMMA RecordedStep ==
    TypeOK /\ InTurn /\ Orderly /\ Recorded /\ [Next]_vars => Recorded'
<1> SUFFICES ASSUME TypeOK, InTurn, Orderly, Recorded, [Next]_vars, apart'
             PROVE  /\ \A b \in Build \ retired' :
                          status'[b] = "error" => Waits(b)'
                    /\ \A a \in Agent : pc'[a] = "failure" => Reported(a)'
                    /\ \A a \in Agent : pc'[a] = "error" => Waits(job[a])'
  BY DEF Recorded
<1>1. CASE UNCHANGED vars
  <2>1. UNCHANGED <<missingRecipes, missingPackages, status, retired, remote,
                    latest, pc, job, report, apart, faults>>
    BY <1>1 DEF vars, waiting, server
  <2>2. \A b \in Build : Waits(b)' = Waits(b)
    BY <2>1 DEF Waits, WaitsForRecipe, WaitsForPackage, Owes, Executes
  <2>3. \A a \in Agent : Reported(a)' = Reported(a)
    BY <2>1 DEF Reported, LackingRecipes, LackingPackages, Required
  <2>4. ASSUME NEW a \in Agent, pc[a] = "error", Waits(job[a])
        PROVE  Waits(job[a])'
    <3>1. PICK b \in Build : b = job[a]
      BY <2>4, JobTypes
    <3>2. Waits(b)' /\ job'[a] = b
      BY <2>1, <2>2, <2>4, <3>1
    <3>3. QED
      BY <3>2
  <2>5. QED
    BY <2>1, <2>2, <2>3, <2>4 DEF Recorded
<1>2. CASE Next
  <2>0. apart
    BY <1>2 DEF Next, NoteOverlap
  <2>1. \A b \in Build \ retired' : status'[b] = "error" => Waits(b)'
    BY <1>2, FailedWaits
  <2>2. ASSUME NEW a \in Agent, pc'[a] = "failure" PROVE Reported(a)'
    <3>1. CASE pc[a] = "failure"
      <4>1. UNCHANGED <<job[a], report[a], remote, latest>>
        <5>1. pc[a] \in Handling /\ pc'[a] = pc[a]
          BY <2>2, <3>1 DEF Handling
        <5>2. \/ Begin(a)
              \/ \E c \in Agent \ {a}, b \in Build : Claim(c, b)
              \/ \E b \in Build : Retire(b)
          BY <1>2, <2>0, <5>1, HandlesAlone
        <5>3. QED
          BY <5>2 DEF Begin, Claim, Retire, server, TypeOK
      <4>2. Reported(a)
        BY <2>0, <3>1 DEF Recorded
      <4>3. QED
        BY <4>1, <4>2 DEF Reported, LackingRecipes, LackingPackages, Required
    <3>2. CASE pc[a] # "failure"
      <4>1. ConanFails(a)
        BY <1>2, <2>2, <3>2, EntersHandling
      <4>2. /\ UNCHANGED <<job, remote, latest>>
            /\ report'[a] = [recipes |-> LackingRecipes(job[a]),
                             packages |-> LackingPackages(job[a])]
            /\ LackingRecipes(job[a]) \cup LackingPackages(job[a]) # {}
        BY <4>1 DEF ConanFails, server, TypeOK
      <4>3. QED
        BY <4>2 DEF Reported, LackingRecipes, LackingPackages, Required
    <3>3. QED
      BY <3>1, <3>2
  <2>3. ASSUME NEW a \in Agent, pc'[a] = "error" PROVE Waits(job[a])'
    <3>1. CASE pc[a] = "error"
      <4>1. PICK b \in Build : b = job[a]
        BY <3>1, JobTypes
      <4>2. Waits(b)
        BY <2>0, <3>1, <4>1 DEF Recorded
      <4>3. pc[a] \in Handling /\ pc'[a] = pc[a] /\ ~Begin(a)
        BY <2>3, <3>1 DEF Handling, Begin, Transaction
      <4>4. \/ \E c \in Agent \ {a}, d \in Build :
                  Claim(c, d) /\ faults' = faults
            \/ \E d \in Build : Retire(d) /\ faults' = faults
        BY <1>2, <2>0, <4>3, HandlesAlone
      <4>5. job'[a] = b
        BY <4>1, <4>4 DEF Claim, Retire, TypeOK
      <4>6. Waits(b)'
        BY <2>0, <4>2, <4>4, QuietWaits, RetireWaits
      <4>7. QED
        BY <4>5, <4>6
    <3>2. CASE pc[a] # "error"
      <4>1. StoreFailure(a)
        BY <1>2, <2>3, <3>2, EntersHandling
      <4>2. Reported(a) /\ job'[a] = job[a] /\ pc[a] = "failure"
        BY <2>0, <4>1 DEF Recorded, StoreFailure, Commit
      <4>3. PICK b \in Build : b = job[a]
        BY <4>2, JobTypes
      <4>4. Waits(b)' /\ job'[a] = b
        BY <4>1, <4>2, <4>3, FailureWaits
      <4>5. QED
        BY <4>4
    <3>3. QED
      BY <3>1, <3>2
  <2>4. QED
    BY <2>1, <2>2, <2>3
<1>3. QED
  BY <1>1, <1>2

(* The first state, in which nothing has failed. *)
LEMMA RecordedInit == Init => Orderly /\ Recorded /\ Needy
  BY DEF Init, Orderly, OneExecutes, SeesFailed, Recorded, Needy

LEMMA WaitingInvariant == Spec => [](TypeOK /\ Orderly /\ Recorded /\ Needy)
<1>1. Init => TypeOK /\ InTurn /\ Orderly /\ Recorded /\ Needy
  BY TypeInit, InTurnInit, RecordedInit
<1>2. TypeOK /\ InTurn /\ Orderly /\ Recorded /\ Needy /\ [Next]_vars
          => (TypeOK /\ InTurn /\ Orderly /\ Recorded /\ Needy)'
  BY TypeStep, InTurnStep, OrderlyStep, RecordedStep, NeedyStep
<1>3. QED
  BY <1>1, <1>2, PTL DEF Spec

(* A failed build waits for nothing that is there, unless a build owes it a *)
(* trigger: one which is executed, or was interrupted.                      *)
LEMMA WaitsForSomeone ==
    ASSUME TypeOK, Needy, NEW b \in Build, Waits(b), Required(b) \subseteq remote
    PROVE  \E p \in Build :
              /\ RecipeOf[p] \in Needs[b]
              /\ \/ status[p] \in {"new", "active"}
                 \/ faults > 0 /\ status[p] = "error" /\ Needs[p] # {}
                 \/ \E a \in Agent : job[a] = p /\ pc[a] # "free"
<1>1. ASSUME NEW r \in Needs[b] PROVE <<r, latest[r], ProfileOf[b]>> \in remote
  BY DEF Required
<1>2. ASSUME NEW r \in Needs[b], latest[r] = NoRevision PROVE FALSE
  <2>1. <<r, NoRevision, ProfileOf[b]>> \in Key
    BY <1>1, <1>2 DEF TypeOK
  <2>2. QED
    BY <2>1, BuildAssumption DEF Key
<1>3. PICK p \in Build, past \in {PastRecipe, PastPackage} :
          RecipeOf[p] \in Needs[b] /\ Owes(p, past)
  BY <1>1, <1>2 DEF Waits, WaitsForRecipe, WaitsForPackage
<1>4. status[p] \in {"new", "active", "error"}
  BY <1>3 DEF Owes, TypeOK, BuildStatus
<1>5. CASE status[p] = "error"
  <2>1. Needs[p] # {}
    BY <1>5 DEF Needy
  <2>2. CASE faults > 0
    BY <1>3, <1>5, <2>1, <2>2
  <2>3. CASE ~(faults > 0)
    <3>1. PICK a \in Agent : job[a] = p /\ pc[a] \in {"package", "recipe"}
      BY <1>3, <2>3 DEF Owes, Executes
    <3>2. QED
      BY <1>3, <3>1
  <2>4. QED
    BY <2>2, <2>3
<1>6. QED
  BY <1>3, <1>4, <1>5

(* No failed build of a current commit is left behind while what it needs  *)
(* is there: a build of what it requires is unfinished, or was interrupted *)
(* after the upload and has failed since, and will get its turn when what  *)
(* it requires itself is built.  This is so for requirements of any depth. *)
BehindFailure == apart =>
    \A b \in Build \ retired :
        status[b] = "error" /\ Required(b) \subseteq remote =>
            \E p \in Build :
                /\ RecipeOf[p] \in Needs[b]
                /\ \/ status[p] \in {"new", "active"}
                   \/ faults > 0 /\ status[p] = "error" /\ Needs[p] # {}

THEOREM NoneBehind == Spec => []BehindFailure
<1>1. TypeOK /\ Orderly /\ Recorded /\ Needy => BehindFailure
  <2> SUFFICES ASSUME TypeOK, Orderly, Recorded, Needy, apart,
                      NEW b \in Build \ retired, status[b] = "error",
                      Required(b) \subseteq remote
               PROVE  \E p \in Build :
                /\ RecipeOf[p] \in Needs[b]
                /\ \/ status[p] \in {"new", "active"}
                   \/ faults > 0 /\ status[p] = "error" /\ Needs[p] # {}
    BY DEF BehindFailure
  <2>1. Waits(b)
    BY DEF Recorded
  <2>2. \A a \in Agent : pc[a] # "free" => status[job[a]] = "active"
    BY DEF Orderly, OneExecutes
  <2>3. QED
    BY <2>1, <2>2, WaitsForSomeone
<1>2. QED
  BY <1>1, WaitingInvariant, PTL

(* What is required requires nothing itself. *)
Shallow == \A b, p \in Build : RecipeOf[p] \in Needs[b] => Needs[p] = {}

(* The property the run checks.  It needs one of two conditions: an        *)
(* interrupted build which requires something itself can fail the second   *)
(* time, and whoever needs the package it uploaded the first time waits    *)
(* until it succeeds, though the package is there.                         *)
THEOREM NoneLeft ==
    Shallow \/ MaxFaults = 0 => (Spec => []NoneForgotten)
<1> SUFFICES ASSUME Shallow \/ MaxFaults = 0 PROVE Spec => []NoneForgotten
  OBVIOUS
<1>1. TypeOK /\ BehindFailure => NoneForgotten
  <2> SUFFICES ASSUME TypeOK, BehindFailure, apart,
                      NEW b \in Build \ retired, status[b] = "error",
                      Required(b) \subseteq remote
               PROVE  \E p \in Build : /\ RecipeOf[p] \in Needs[b]
                                       /\ status[p] \in {"new", "active"}
    BY DEF NoneForgotten
  <2>1. PICK p \in Build :
            /\ RecipeOf[p] \in Needs[b]
            /\ \/ status[p] \in {"new", "active"}
               \/ faults > 0 /\ status[p] = "error" /\ Needs[p] # {}
    BY DEF BehindFailure
  <2>2. ~(faults > 0 /\ Needs[p] # {})
    <3>1. CASE Shallow
      BY <2>1, <3>1 DEF Shallow
    <3>2. CASE MaxFaults = 0
      BY <3>2 DEF TypeOK
    <3>3. QED
      BY <3>1, <3>2
  <2>3. QED
    BY <2>1, <2>2
<1>2. QED
  BY <1>1, TypeCorrect, NoneBehind, PTL

-----------------------------------------------------------------------------
(* While results are handled one after the other, a build leads the life   *)
(* which BuildLife promises; afterwards it counts as disturbed.            *)
PhaseOf(b) == IF ~apart THEN "disturbed"
              ELSE IF status[b] = "new" THEN "waiting"
              ELSE IF status[b] = "active" THEN "running" ELSE "finished"

OwnersOf(b) == IF apart THEN {a \in Agent : job[a] = b} ELSE {}

Life(b) == INSTANCE BuildLife
           WITH Worker <- Agent, phase <- PhaseOf(b), workers <- OwnersOf(b)

LEMMA LifeInit == ASSUME NEW b \in Build, Init PROVE Life(b)!Init
<1>1. apart /\ status[b] = "new" /\ \A a \in Agent : job[a] # b
  BY BuildAssumption DEF Init
<1>2. PhaseOf(b) = "waiting" /\ OwnersOf(b) = {}
  BY <1>1 DEF PhaseOf, OwnersOf
<1>3. QED
  BY <1>2 DEF Life!Init

(* A step of the life is known by the status it leads from and to, when a  *)
(* build nobody executes has no owner.                                     *)
LEMMA LifeMoves ==
    ASSUME TypeOK, apart, apart', NEW b \in Build,
           status'[b] # "active" => OwnersOf(b)' = {},
           \/ status'[b] = status[b] /\ OwnersOf(b)' = OwnersOf(b)
           \/ status[b] = "new" /\ status'[b] = "active"
              /\ \E a \in Agent : OwnersOf(b)' = {a}
           \/ status[b] = "active" /\ status'[b] \in {"error", "success", "new"}
           \/ status[b] = "error" /\ status'[b] = "new"
    PROVE  Life(b)!Step
<1>1. status[b] \in BuildStatus
  BY DEF TypeOK
<1>2. CASE status'[b] = status[b] /\ OwnersOf(b)' = OwnersOf(b)
  BY <1>2 DEF PhaseOf, Life!Step, Life!vars
<1>3. CASE status[b] = "new" /\ status'[b] = "active"
           /\ \E a \in Agent : OwnersOf(b)' = {a}
  BY <1>3 DEF PhaseOf, Life!Step, Life!Next, Life!Claim
<1>4. CASE status[b] = "active" /\ status'[b] \in {"error", "success", "new"}
  BY <1>4 DEF PhaseOf, Life!Step, Life!Next, Life!Move, Life!Finish,
     Life!GiveBack
<1>5. CASE status[b] = "error" /\ status'[b] = "new"
  BY <1>5 DEF PhaseOf, Life!Step, Life!Next, Life!Move, Life!Reopen
<1>6. QED
  BY <1>2, <1>3, <1>4, <1>5

LEMMA EveryStepInLife ==
    ASSUME TypeOK, TypeOK', InTurn, Orderly, Orderly', [Next]_vars,
           NEW b \in Build
    PROVE  Life(b)!Step
<1>1. CASE ~apart'
  <2>1. PhaseOf(b) \in Life(b)!Phase
    BY DEF PhaseOf, Life!Phase
  <2>2. PhaseOf(b)' = "disturbed" /\ OwnersOf(b)' = {}
    BY <1>1 DEF PhaseOf, OwnersOf
  <2>3. QED
    BY <2>1, <2>2 DEF Life!Step, Life!Next, Life!Move, Life!Disturb
<1> SUFFICES ASSUME apart' PROVE Life(b)!Step
  BY <1>1
<1>2. apart
  BY DEF Next, NoteOverlap, vars
<1>3. /\ \A a \in Agent : job[a] = b => status[b] = "active"
      /\ \A a1, a2 \in Agent : job[a1] = b /\ job[a2] = b => a1 = a2
  <2>1. \A a \in Agent : job[a] = b => pc[a] # "free"
    BY BuildAssumption DEF TypeOK
  <2>2. QED
    BY <1>2, <2>1 DEF Orderly, OneExecutes
<1>4. /\ status'[b] # "active" => OwnersOf(b)' = {}
      /\ \A a \in Agent : job'[a] = b => OwnersOf(b)' = {a}
  <2>1. /\ \A a \in Agent : job'[a] = b => status'[b] = "active"
        /\ \A a1, a2 \in Agent : job'[a1] = b /\ job'[a2] = b => a1 = a2
    <3>1. \A a \in Agent : job'[a] = b => pc'[a] # "free"
      BY BuildAssumption DEF TypeOK
    <3>2. QED
      BY <3>1 DEF Orderly, OneExecutes
  <2>2. QED
    BY <2>1 DEF OwnersOf
<1>5. ASSUME UNCHANGED job, status'[b] = status[b] PROVE Life(b)!Step
  BY <1>2, <1>4, <1>5, LifeMoves DEF OwnersOf
<1>6. ASSUME NEW a \in Agent, NEW c \in Build, Claim(a, c)
      PROVE  Life(b)!Step
  <2>1. CASE b = c
    BY <1>2, <1>4, <1>6, <2>1, LifeMoves DEF Claim, TypeOK
  <2>2. CASE b # c
    <3>1. status'[b] = status[b]
      BY <1>6, <2>2 DEF Claim, TypeOK
    <3>2. \A d \in Agent : job'[d] = b <=> job[d] = b
      BY <1>6, <2>2, BuildAssumption DEF Claim, TypeOK
    <3>3. QED
      BY <1>2, <1>4, <3>1, <3>2, LifeMoves DEF OwnersOf
  <2>3. QED
    BY <2>1, <2>2
<1>7. ASSUME NEW a \in Agent,
             \/ ConanFails(a) \/ ConanSucceeds(a) \/ Begin(a)
             \/ StoreFailure(a) \/ StoreRequires(a)
      PROVE  Life(b)!Step
  BY <1>5, <1>7 DEF ConanFails, ConanSucceeds, Begin, StoreFailure,
     StoreRequires, Commit
<1>8. ASSUME NEW a \in Agent, StorePackage(a) \/ TriggerForRecipe(a)
      PROVE  Life(b)!Step
  <2>1. UNCHANGED job
    BY <1>8 DEF StorePackage, TriggerForRecipe, Commit
  <2>2. \/ status'[b] = status[b]
        \/ status[b] = "error" /\ status'[b] = "new"
    <3>1. status[b] # "error" => status'[b] = status[b]
      BY <1>2, <1>8, OnlyFailedRetriggered
    <3>2. status'[b] \in {"new", status[b]}
      BY <1>8 DEF StorePackage, TriggerForRecipe, Retrigger
    <3>3. QED
      BY <3>1, <3>2
  <2>3. QED
    BY <1>2, <1>4, <1>5, <2>1, <2>2, LifeMoves
<1>9. ASSUME NEW a \in Agent, RecordStatus(a) \/ Interrupt(a)
      PROVE  Life(b)!Step
  <2>1. /\ pc[a] # "free" /\ job[a] \in Build
        /\ \E s \in {"error", "success", "new"} :
              status' = [status EXCEPT ![job[a]] = s]
        /\ job' = [job EXCEPT ![a] = NoBuild]
    BY <1>9 DEF RecordStatus, Interrupt, Forget, Handling, TypeOK
  <2>2. CASE b = job[a]
    BY <1>2, <1>3, <1>4, <2>1, <2>2, LifeMoves DEF TypeOK
  <2>3. CASE b # job[a]
    <3>1. status'[b] = status[b]
      BY <2>1, <2>3 DEF TypeOK
    <3>2. \A d \in Agent : job'[d] = b <=> job[d] = b
      BY <2>1, <2>3, BuildAssumption DEF TypeOK
    <3>3. QED
      BY <1>2, <1>4, <3>1, <3>2, LifeMoves DEF OwnersOf
  <2>4. QED
    BY <2>2, <2>3
<1>10. ASSUME NEW c \in Build, Retire(c) PROVE Life(b)!Step
  BY <1>5, <1>10 DEF Retire
<1>11. CASE UNCHANGED vars
  BY <1>5, <1>11 DEF vars
<1>12. QED
  BY <1>6, <1>7, <1>8, <1>9, <1>10, <1>11 DEF Next, AgentStep

(* Each build leads the life BuildLife promises: one agent takes it from   *)
(* the queue, ends it or gives it back, and only a build which has ended   *)
(* is opened again, by whoever has built what it waits for.                *)
THEOREM BuildsLive == \A b \in Build : Spec => Life(b)!Spec
<1> SUFFICES ASSUME NEW b \in Build PROVE Spec => Life(b)!Spec
  OBVIOUS
<1>1. Init => Life(b)!Init
  BY LifeInit
<1>2. TypeOK /\ TypeOK' /\ InTurn /\ Orderly /\ Orderly' /\ [Next]_vars
          => [Life(b)!Next]_(Life(b)!vars)
  BY EveryStepInLife DEF Life!Step
<1>3. Spec => []InTurn
  BY InTurnInit, InTurnStep, TypeCorrect, PTL DEF Spec
<1>4. QED
  BY <1>1, <1>2, <1>3, TypeCorrect, WaitingInvariant, PTL DEF Spec, Life!Spec

=============================================================================
