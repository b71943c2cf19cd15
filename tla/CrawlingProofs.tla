---------------------------- MODULE CrawlingProofs ----------------------------
(***************************************************************************)
(* Proofs of the safety properties of Crawling, for any history of         *)
(* commits, any channels and refs, and any number of faults.               *)
(***************************************************************************)
EXTENDS Crawling, TLAPS

(* Every step keeps the types. *)
LEMMA TypeStep == TypeOK /\ [Next]_vars => TypeOK'
<1> SUFFICES ASSUME TypeOK, [Next]_vars PROVE TypeOK'
  OBVIOUS
<1> USE CrawlingAssumption DEF TypeOK, server, git, counters
<1>1. ASSUME NEW r \in Ref, NEW s \in Sha \cup {NoSha}, Moves(r, s)
      PROVE  /\ remote' \in [Ref -> Sha \cup {NoSha}]
             /\ pushed' \in [Ref -> SUBSET Sha]
             /\ updates' \subseteq Update
  BY <1>1 DEF Moves, Notify, Update
<1>2. ASSUME NEW r \in Ref, NEW s \in Sha, Push(r, s) PROVE TypeOK'
  <2>1. Moves(r, s)
    BY <1>2 DEF Push
  <2>2. QED
    BY <1>1, <1>2, <2>1 DEF Push, Moves
<1>3. ASSUME NEW r \in Ref, NEW s \in Sha \cup {NoSha}, Rewind(r, s)
      PROVE  TypeOK'
  <2>1. Moves(r, s)
    BY <1>3 DEF Rewind
  <2>2. rewinds' \in 0..MaxRewinds /\ disturbed' \subseteq Channel
    BY <1>3 DEF Rewind
  <2>3. QED
    BY <1>1, <2>1, <2>2 DEF Moves
<1>4. CASE MoveRepo
  <2>1. clone' \in BOOLEAN
    BY <1>4 DEF MoveRepo
  <2>2. QED
    BY <1>4, <2>1 DEF MoveRepo
<1>5. ASSUME PrepareClone, pc = "idle", request' \in Update \cup {All},
             updates' \subseteq Update
      PROVE  TypeOK'
  <2>1. clone' \in BOOLEAN
    BY <1>5 DEF PrepareClone
  <2>2. /\ objects' \subseteq Sha /\ head' \in objects' \cup {NoSha}
        /\ tracking' \in [Ref -> objects' \cup {NoSha}]
    BY <1>5 DEF PrepareClone, Empty
  <2>3. QED
    BY <1>5, <2>1, <2>2 DEF PrepareClone
<1>6. CASE CrawlAll
  BY <1>5, <1>6 DEF CrawlAll
<1>7. CASE CrawlUpdate
  BY <1>5, <1>7 DEF CrawlUpdate
<1>8. CASE Fetch
  <2> DEFINE available ==
                 objects \cup UNION {Ancestry[remote[r]] : r \in Branches}
  <2>1. \A r \in Branches : /\ remote[r] \in Sha /\ r \in Ref
                            /\ remote[r] \in Ancestry[remote[r]]
                            /\ Ancestry[remote[r]] \subseteq Sha
    BY DEF Branches
  <2>2. objects \subseteq available /\ available \subseteq Sha
    BY <2>1
  <2>3. \A r \in Branches : remote[r] \in available
    BY <2>1
  <2>4. objects' = available /\ tracking' = Fetched(available)
        /\ todo' = ToProcess(Fetched(available))
    BY <1>8 DEF Fetch
  <2> HIDE DEF available
  <2>5. Fetched(available) \in [Ref -> available \cup {NoSha}]
    BY <2>2, <2>3 DEF Fetched
  <2>6. todo' \subseteq Channel \X Ref
    BY <2>4 DEF ToProcess
  <2>7. QED
    BY <1>8, <2>2, <2>4, <2>5, <2>6 DEF Fetch
<1>9. ASSUME NEW c \in Channel, NEW r \in Ref, Process(c, r) PROVE TypeOK'
  <2>1. head' \in objects \cup {NoSha}
    BY <1>9 DEF Process, Checkout, CheckoutRef, CheckoutSha
  <2>2. draft' \in Table /\ disturbed' \subseteq Channel
    BY <1>9 DEF Process, WithCommit, Table, RowStatus
  <2>3. QED
    BY <1>9, <2>1, <2>2 DEF Process
<1>10. CASE GitFails
  BY <1>10 DEF GitFails
<1>11. CASE Finish
  BY <1>11 DEF Finish
<1>12. CASE Crash
  <2>1. clone' \in BOOLEAN
    BY <1>12 DEF Crash
  <2>2. QED
    BY <1>12, <2>1 DEF Crash, Empty
<1>13. CASE UNCHANGED vars
  BY <1>13 DEF vars
<1>14. ASSUME NEW c \in Channel, NEW r \in Ref, Abort(c, r) PROVE TypeOK'
  <2>1. head' \in objects \cup {NoSha}
    BY <1>14 DEF Abort, Checkout, CheckoutRef, CheckoutSha
  <2>2. QED
    BY <1>14, <2>1 DEF Abort, GiveUp
<1>15. CASE Raise
  BY <1>15 DEF Raise, GiveUp
<1>16. QED
  BY <1>2, <1>3, <1>4, <1>6, <1>7, <1>8, <1>9, <1>10, <1>11, <1>12, <1>13,
     <1>14, <1>15
  DEF Next, Environment, Crawl

(* Type correctness: among others, the refs of the clone and what is       *)
(* checked out are commits of the clone, whatever is pushed or rewritten.  *)
THEOREM TypeCorrect == Spec => []TypeOK
<1>1. Init => TypeOK
  <2> SUFFICES ASSUME Init PROVE TypeOK
    OBVIOUS
  <2>1. clone \in BOOLEAN
    BY DEF Init
  <2>2. rows \in Table
    BY DEF Init, Table, RowStatus
  <2>3. QED
    BY <2>1, <2>2, CrawlingAssumption DEF Init, TypeOK
<1>2. QED
  BY <1>1, TypeStep, PTL DEF Spec

-----------------------------------------------------------------------------
(* Where the commits come from.  A ref of the clone is one the server had, *)
(* a request names a commit its ref had, and the refs to look at match     *)
(* their channels; what is stored or drafted stems from one of these.      *)
Heads ==
    /\ \A r \in Ref : /\ remote[r] # NoSha => remote[r] \in pushed[r]
                      /\ tracking[r] # NoSha => tracking[r] \in pushed[r]
    /\ \A u \in updates \cup {request} : u.sha # NoSha => u.sha \in pushed[u.ref]
    /\ pc # "process" => todo = {}
    /\ \A x \in todo : /\ x[2] \in Matching[x[1]]
                       /\ request # All => x[2] = request.ref
    /\ \A c \in Channel : \A s \in Stored(rows, c) :
           \E r \in Matching[c] : s \in pushed[r]
    /\ StoredWasHead

(* Every step keeps that whatever the crawler holds was once a head. *)
LEMMA HeadsStep == TypeOK /\ Heads /\ [Next]_vars => Heads'
<1> SUFFICES ASSUME TypeOK, Heads, [Next]_vars PROVE Heads'
  OBVIOUS
<1> USE CrawlingAssumption
    DEF TypeOK, Heads, StoredWasHead, Stored, server, git, counters
<1>1. ASSUME NEW r \in Ref, NEW s \in Sha \cup {NoSha}, Moves(r, s)
      PROVE  Heads'
  <2>1. /\ remote' = [remote EXCEPT ![r] = s]
        /\ pushed' = [pushed EXCEPT ![r] = @ \cup ({s} \ {NoSha})]
        /\ updates' \subseteq updates \cup {[sha |-> s, ref |-> r]}
        /\ UNCHANGED <<rows, tracking, pc, request, todo, draft>>
    BY <1>1 DEF Moves, Notify
  <2>2. \A x \in Ref : pushed[x] \subseteq pushed'[x]
    BY <2>1
  <2>3. s # NoSha => s \in pushed'[r]
    BY <2>1
  <2>4. \A c \in Channel : Matching[c] \subseteq Ref
    OBVIOUS
  <2>5. \A u \in updates : u.ref \in Ref
    BY DEF Update
  <2>6. request.sha # NoSha => request.ref \in Ref
    BY DEF Update, All
  <2>7. \A u \in updates' \cup {request'} :
            u.sha # NoSha => u.sha \in pushed'[u.ref]
    BY <2>1, <2>2, <2>3, <2>5, <2>6
  <2>8. /\ \A x \in Ref : /\ remote'[x] # NoSha => remote'[x] \in pushed'[x]
                          /\ tracking'[x] # NoSha => tracking'[x] \in pushed'[x]
        /\ \A c \in Channel : \A y \in Stored(rows, c) \cup Stored(draft, c) :
              \E x \in Matching[c] : y \in pushed'[x]
    BY <2>1, <2>2, <2>3, <2>4
  <2>9. QED
    BY <2>1, <2>7, <2>8
<1>2. ASSUME NEW r \in Ref, NEW s \in Sha, Push(r, s) PROVE Heads'
  BY <1>1, <1>2 DEF Push
<1>3. ASSUME NEW r \in Ref, NEW s \in Sha \cup {NoSha}, Rewind(r, s)
      PROVE  Heads'
  BY <1>1, <1>3 DEF Rewind
<1>4. CASE MoveRepo
  BY <1>4 DEF MoveRepo
<1>5. ASSUME PrepareClone, pc = "idle", updates' \subseteq updates,
             request' \in updates \cup {All}
      PROVE  Heads'
  BY <1>5 DEF PrepareClone, Empty, All
<1>6. CASE CrawlAll
  BY <1>5, <1>6 DEF CrawlAll
<1>7. CASE CrawlUpdate
  BY <1>5, <1>7 DEF CrawlUpdate
<1>8. CASE Fetch
  <2>1. \A r \in Ref : \/ tracking'[r] = tracking[r]
                       \/ tracking'[r] = remote[r]
    BY <1>8 DEF Fetch, Fetched
  <2>2. \A x \in todo' : /\ x[2] \in Matching[x[1]]
                         /\ request # All => x[2] = request.ref
    BY <1>8 DEF Fetch, ToProcess
  <2>3. QED
    BY <1>8, <2>1, <2>2 DEF Fetch
<1>9. ASSUME NEW c \in Channel, NEW r \in Ref, Process(c, r) PROVE Heads'
  <2>1. /\ UNCHANGED <<remote, pushed, tracking, updates, request, rows, pc>>
        /\ pc = "process"
        /\ todo' \subseteq todo
        /\ r \in Matching[c] /\ (request # All => r = request.ref)
    BY <1>9 DEF Process
  <2>2. CASE draft' = draft
    BY <2>1, <2>2
  <2>3. CASE Checkout(r) /\ head' \in Sha /\ draft' = WithCommit(c, head')
    <3>1. head' \in pushed[r]
      BY <2>1, <2>3 DEF Checkout, CheckoutRef, CheckoutSha
    <3>2. ASSUME NEW d \in Channel, NEW s \in Stored(draft', d)
          PROVE  \E x \in Matching[d] : s \in pushed[x]
      <4>1. s \in Stored(draft, d) \/ (d = c /\ s = head')
        BY <2>3, <3>2 DEF WithCommit, Table, RowStatus
      <4>2. QED
        BY <2>1, <3>1, <4>1
    <3>3. QED
      BY <2>1, <3>2
  <2>4. QED
    BY <1>9, <2>2, <2>3 DEF Process
<1>10. CASE GitFails
  BY <1>10 DEF GitFails
<1>11. CASE Finish
  BY <1>11 DEF Finish
<1>12. CASE Crash
  BY <1>12 DEF Crash, Empty, All
<1>13. CASE UNCHANGED vars
  BY <1>13 DEF vars
<1>14. ASSUME NEW c \in Channel, NEW r \in Ref, Abort(c, r) PROVE Heads'
  BY <1>14 DEF Abort, GiveUp
<1>15. CASE Raise
  BY <1>15 DEF Raise, GiveUp
<1>16. QED
  BY <1>2, <1>3, <1>4, <1>6, <1>7, <1>8, <1>9, <1>10, <1>11, <1>12, <1>13,
     <1>14, <1>15
  DEF Next, Environment, Crawl

(* Nothing is stored for a channel but commits which a matching ref has    *)
(* pointed to: a failed checkout, a webhook for another ref or a clone of  *)
(* another address never brings in a foreign commit.                       *)
THEOREM OnlyHeadsStored == Spec => []StoredWasHead
<1>1. Init => Heads
  BY CrawlingAssumption DEF Init, Heads, StoredWasHead, Stored, All
<1>2. Heads => StoredWasHead
  BY DEF Heads
<1>3. QED
  BY <1>1, <1>2, TypeCorrect, HeadsStep, PTL DEF Spec

-----------------------------------------------------------------------------
(* The order of the commits of a channel with one ref.  As long as none    *)
(* came out of order an old commit is one the ref has left for good, in    *)
(* the clone and on the server; and a commit the ref points to is stored   *)
(* only by the crawler which has fetched it.                               *)
OrderOf(table, c, r) ==
    \A s \in Stored(table, c) :
        /\ table[c][s] = "old" => s # tracking[r] /\ s # remote[r]
        /\ s = remote[r] => tracking[r] \in {remote[r], NoSha}

Ordered ==
    \A c \in Channel \ disturbed, r \in Ref :
        Matching[c] = {r} => OrderOf(rows, c, r) /\ OrderOf(draft, c, r)

AllLike(current, sha) == {Content[s] : s \in current} = {Content[sha]}

SameContent(c, r) == AllLike(CurrentIn(draft, c), tracking[r])

(* A channel has at most one current commit. *)
OneCurrent ==
    \A c \in Channel :
        /\ \A s, t \in CurrentIn(rows, c) : s = t
        /\ \A s, t \in CurrentIn(draft, c) : s = t

(* Every step keeps that there is only one: who stores a commit retires    *)
(* the others.                                                             *)
LEMMA OneCurrentStep == TypeOK /\ OneCurrent /\ [Next]_vars => OneCurrent'
<1> SUFFICES ASSUME TypeOK, OneCurrent, [Next]_vars PROVE OneCurrent'
  OBVIOUS
<1> USE DEF OneCurrent, CurrentIn, server, git, counters
<1>1. CASE Environment
  BY <1>1 DEF Environment, Push, Rewind, Moves, MoveRepo
<1>2. CASE CrawlAll \/ CrawlUpdate
  BY <1>2 DEF CrawlAll, CrawlUpdate, PrepareClone
<1>3. CASE Fetch \/ Finish \/ GitFails \/ Crash
  BY <1>3 DEF Fetch, Finish, GitFails, Crash
<1>4. CASE Raise \/ \E c \in Channel, r \in Ref : Abort(c, r)
  BY <1>4 DEF Raise, Abort, GiveUp
<1>5. ASSUME NEW c \in Channel, NEW r \in Ref, Process(c, r)
      PROVE  OneCurrent'
  <2>1. UNCHANGED rows
    BY <1>5 DEF Process
  <2>2. CASE draft' = draft
    BY <2>1, <2>2
  <2>3. CASE draft' = WithCommit(c, head') /\ head' \in Sha
    <3>1. \A d \in Channel \ {c} : draft'[d] = draft[d]
      BY <2>3 DEF WithCommit, TypeOK, Table
    <3>2. CurrentIn(draft', c) = {head'}
      BY <2>3 DEF WithCommit, TypeOK, Table
    <3>3. QED
      BY <2>1, <3>1, <3>2
  <2>4. QED
    BY <1>5, <2>2, <2>3 DEF Process
<1>6. CASE UNCHANGED vars
  BY <1>6 DEF vars
<1>7. QED
  BY <1>1, <1>2, <1>3, <1>4, <1>5, <1>6 DEF Next, Crawl

(* What the crawler has looked at is up to date. *)
Looked ==
    (pc = "process" /\ request = All) =>
        \A c \in Channel \ disturbed, r \in Ref :
            (Matching[c] = {r} /\ tracking[r] # NoSha /\ <<c, r>> \notin todo)
                => SameContent(c, r)

(* Every step keeps the order of the commits the crawler stores. *)
LEMMA OrderedStep ==
    TypeOK /\ Heads /\ OneCurrent /\ Ordered /\ Looked /\ [Next]_vars
        => Ordered' /\ Looked'
<1> SUFFICES ASSUME TypeOK, Heads, OneCurrent, Ordered, Looked, [Next]_vars
             PROVE  Ordered' /\ Looked'
  OBVIOUS
<1> USE CrawlingAssumption
    DEF TypeOK, Ordered, OrderOf, Looked, SameContent, Stored, CurrentIn,
        server, git, counters
(* A ref which moves goes to a commit it was never at. *)
<1>1. ASSUME NEW r \in Ref, NEW s \in Sha \cup {NoSha}, Moves(r, s),
             disturbed \subseteq disturbed',
             \A c \in Channel \ disturbed' :
                 Matching[c] = {r} => s = NoSha \/ s \notin pushed[r]
      PROVE  Ordered' /\ Looked'
  <2>1. /\ remote' = [remote EXCEPT ![r] = s]
        /\ UNCHANGED <<rows, objects, tracking, pc, request, todo, draft>>
    BY <1>1 DEF Moves
  <2>2. Looked'
    BY <1>1, <2>1
  <2>3. ASSUME NEW c \in Channel \ disturbed', NEW x \in Ref, Matching[c] = {x}
        PROVE  OrderOf(rows, c, x)' /\ OrderOf(draft, c, x)'
    <3>1. \A y \in Stored(rows, c) \cup Stored(draft, c) : y \in pushed[x]
      BY <2>3 DEF Heads, StoredWasHead
    <3>2. OrderOf(rows, c, x) /\ OrderOf(draft, c, x)
      BY <1>1, <2>3
    <3>3. CASE x # r
      BY <2>1, <3>2, <3>3
    <3>4. CASE x = r
      <4>1. remote'[x] = s /\ (s = NoSha \/ s \notin pushed[x])
        BY <1>1, <2>1, <2>3, <3>4
      <4>2. \A y \in Stored(rows, c) \cup Stored(draft, c) : y # remote'[x]
        BY <3>1, <4>1
      <4>3. QED
        BY <2>1, <3>2, <4>2
    <3>5. QED
      BY <3>3, <3>4
  <2>4. QED
    BY <2>2, <2>3
<1>2. ASSUME NEW r \in Ref, NEW s \in Sha, Push(r, s)
      PROVE  Ordered' /\ Looked'
  BY <1>1, <1>2 DEF Push, Forward
<1>3. ASSUME NEW r \in Ref, NEW s \in Sha \cup {NoSha}, Rewind(r, s)
      PROVE  Ordered' /\ Looked'
  <2>1. Moves(r, s) /\ disturbed \subseteq disturbed'
    BY <1>3 DEF Rewind
  <2>2. \A c \in Channel \ disturbed' :
            Matching[c] = {r} => s = NoSha \/ s \notin pushed[r]
    BY <1>3 DEF Rewind
  <2>3. QED
    BY <1>1, <2>1, <2>2
<1>4. CASE MoveRepo
  BY <1>4 DEF MoveRepo
<1>5. CASE CrawlAll \/ CrawlUpdate
  <2>1. /\ UNCHANGED <<rows, remote, draft, disturbed>> /\ pc' = "fetch"
        /\ tracking' = tracking \/ tracking' = [r \in Ref |-> NoSha]
    BY <1>5 DEF CrawlAll, CrawlUpdate, PrepareClone, Empty
  <2>2. QED
    BY <2>1
<1>6. CASE Fetch
  <2>1. /\ UNCHANGED <<rows, remote, draft, disturbed, request>>
        /\ \A r \in Ref : tracking'[r] \in {tracking[r], remote[r]}
        /\ \A r \in Ref : remote[r] # NoSha /\ tracking'[r] # remote[r] =>
               tracking'[r] = tracking[r]
        /\ todo' = ToProcess(tracking')
    BY <1>6 DEF Fetch, Fetched
  <2>2. Ordered'
    BY <2>1
  <2>3. Looked'
    BY <2>1 DEF ToProcess
  <2>4. QED
    BY <2>2, <2>3
<1>7. ASSUME NEW c \in Channel, NEW r \in Ref, Process(c, r)
      PROVE  Ordered' /\ Looked'
  <2>1. /\ UNCHANGED <<rows, remote, tracking, objects, pc, request>>
        /\ pc = "process"
        /\ todo' = todo \ {<<c, r>>} /\ <<c, r>> \in todo
        /\ disturbed \subseteq disturbed'
        /\ r \in Matching[c]
    BY <1>7 DEF Process, Heads
  <2>2. CASE draft' = draft
    <3>1. Ordered'
      BY <2>1, <2>2
    <3>2. ASSUME request = All, c \notin disturbed', Matching[c] = {r},
                 tracking[r] # NoSha
          PROVE  SameContent(c, r)
      <4>1. head' = tracking[r] /\ ~IsNews(c, head')
        BY <1>7, <2>2, <3>2 DEF Process, Checkout, CheckoutRef, WithCommit,
           IsNews, Table, RowStatus
      <4>2. CASE draft[c][tracking[r]] = "none"
        <5>1. CurrentIn(draft, c) # {}
          BY <4>1, <4>2 DEF IsNews
        <5>2. \A s \in CurrentIn(draft, c) : Content[s] = Content[tracking[r]]
          BY <4>1, <4>2, <5>1 DEF IsNews, HasDiff
        <5>3. AllLike(CurrentIn(draft, c), tracking[r])
          BY <5>1, <5>2 DEF AllLike
        <5>4. QED
          BY <5>3
      <4>3. CASE draft[c][tracking[r]] # "none"
        <5>1. tracking[r] \in Sha
          BY <3>2
        <5>2. draft[c][tracking[r]] # "old"
          BY <2>1, <3>2, <4>3, <5>1
        <5>3. draft[c][tracking[r]] = "current"
          BY <4>3, <5>1, <5>2 DEF Table, RowStatus
        <5>4. CurrentIn(draft, c) = {tracking[r]}
          BY <5>1, <5>3 DEF OneCurrent
        <5>5. AllLike(CurrentIn(draft, c), tracking[r])
          BY <5>4 DEF AllLike
        <5>6. QED
          BY <5>5
      <4>4. QED
        BY <4>2, <4>3
    <3>3. Looked'
      <4> SUFFICES ASSUME request' = All, NEW d \in Channel \ disturbed',
                          NEW x \in Ref, Matching[d] = {x},
                          tracking'[x] # NoSha, <<d, x>> \notin todo'
                   PROVE  AllLike(CurrentIn(draft', d), tracking'[x])
        OBVIOUS
      <4>1. CASE d = c
        BY <2>1, <4>1, <3>2, <2>2
      <4>2. CASE d # c
        <5>1. AllLike(CurrentIn(draft, d), tracking[x])
          BY <2>1, <4>2
        <5>2. draft'[d] = draft[d] /\ tracking' = tracking
          BY <2>1, <4>2, <2>2
        <5>3. CurrentIn(draft', d) = CurrentIn(draft, d)
          BY <5>2
        <5>4. QED
          BY <5>1, <5>2, <5>3
      <4>3. QED
        BY <4>1, <4>2
    <3>4. QED
      BY <3>1, <3>3
  <2>3. CASE /\ Checkout(r) /\ head' \in Sha /\ draft[c][head'] = "none"
             /\ draft' = WithCommit(c, head')
             /\ head' # tracking[r] => c \in disturbed'
    <3>1. \A d \in Channel \ {c} : draft'[d] = draft[d]
      BY <2>3 DEF WithCommit, Table
    <3>2. \A s \in Sha : draft'[c][s] =
              IF s = head' THEN "current"
              ELSE IF draft[c][s] = "current" THEN "old" ELSE draft[c][s]
      BY <2>3 DEF WithCommit, Table
    <3>3. ASSUME c \notin disturbed', Matching[c] = {r}
          PROVE  OrderOf(draft, c, r)' /\ SameContent(c, r)'
      <4>1. /\ head' = tracking[r] /\ tracking[r] \in Sha
            /\ OrderOf(draft, c, r)
        BY <2>1, <2>3, <3>3
      <4>2. \A s \in Stored(draft, c) : s # tracking[r] /\ s # remote[r]
        BY <2>3, <4>1
      <4>3. OrderOf(draft, c, r)'
        BY <2>1, <3>2, <4>1, <4>2
      <4>4. CurrentIn(draft', c) = {tracking'[r]}
        BY <2>1, <3>2, <4>1
      <4>5. AllLike(CurrentIn(draft', c), tracking'[r])
        BY <4>4 DEF AllLike
      <4>6. QED
        BY <4>3, <4>5
    <3>4. Ordered'
      BY <2>1, <3>1, <3>3
    <3>5. Looked'
      <4> SUFFICES ASSUME request' = All, NEW d \in Channel \ disturbed',
                          NEW x \in Ref, Matching[d] = {x},
                          tracking'[x] # NoSha, <<d, x>> \notin todo'
                   PROVE  AllLike(CurrentIn(draft', d), tracking'[x])
        OBVIOUS
      <4>1. CASE d = c
        BY <2>1, <4>1, <3>3
      <4>2. CASE d # c
        <5>1. AllLike(CurrentIn(draft, d), tracking[x])
          BY <2>1, <4>2
        <5>2. draft'[d] = draft[d] /\ tracking' = tracking
          BY <2>1, <4>2, <3>1
        <5>3. CurrentIn(draft', d) = CurrentIn(draft, d)
          BY <5>2
        <5>4. QED
          BY <5>1, <5>2, <5>3
      <4>3. QED
        BY <4>1, <4>2
    <3>6. QED
      BY <3>4, <3>5
  <2>4. QED
    BY <1>7, <2>2, <2>3 DEF Process, IsNews
<1>8. CASE GitFails
  BY <1>8 DEF GitFails
<1>9. CASE Finish
  BY <1>9 DEF Finish
<1>10. CASE Crash
  BY <1>10 DEF Crash, Empty
<1>11. CASE UNCHANGED vars
  BY <1>11 DEF vars
<1>12. ASSUME NEW c \in Channel, NEW r \in Ref, Abort(c, r)
       PROVE  Ordered' /\ Looked'
  BY <1>12 DEF Abort, GiveUp
<1>13. CASE Raise
  BY <1>13 DEF Raise, GiveUp
<1>14. QED
  BY <1>2, <1>3, <1>4, <1>5, <1>6, <1>7, <1>8, <1>9, <1>10, <1>11, <1>12, <1>13
  DEF Next, Environment, Crawl

(* A crawler which has looked at everything has the current content of     *)
(* every ref, for channels which match one ref and got no commit out of    *)
(* order: a commit is left out only when the stored one has its content,   *)
(* and a stored commit is never one which was retired before.              *)
THEOREM HeadsAreCurrent == Spec => []HeadCurrent
<1>1. Init => OneCurrent /\ Ordered /\ Looked
  BY CrawlingAssumption
  DEF Init, OneCurrent, Ordered, OrderOf, Looked, Stored, CurrentIn
<1>2. Looked => HeadCurrent
  BY DEF Looked, SameContent, AllLike, HeadCurrent, OneRef
<1>3. Init => Heads
  BY CrawlingAssumption DEF Init, Heads, StoredWasHead, Stored, All
<1>4. QED
  BY <1>1, <1>2, <1>3, TypeCorrect, HeadsStep, OneCurrentStep,
     OrderedStep, PTL DEF Spec

=============================================================================
