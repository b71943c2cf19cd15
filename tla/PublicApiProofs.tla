-------------------------- MODULE PublicApiProofs ---------------------------
(***************************************************************************)
(* Proofs of the properties of PublicApi, for any rows, any number of      *)
(* threads and of crashes.                                                 *)
(***************************************************************************)
EXTENDS PublicApi, TLAPS

(* What a request is about: a row, which another service does not insert,  *)
(* for a new row only references it is meant to have, and for a row to be  *)
(* deleted all that refers to it, unless it is a profile.                  *)
RequestsSound ==
    \A t \in Thread :
        /\ pc[t] # "idle" => request[t].row \in Row
        /\ pc[t] \in {"post", "delete"} => Kind[request[t].row] \in Managed
        /\ pc[t] = "post" => request[t].seen \subseteq Refs[request[t].row]
        /\ pc[t] = "delete" => request[t].seen =
              IF Kind[request[t].row] = "profile" THEN {} ELSE request[t].before

(* No request is handled while the server starts, and the ecosystem the    *)
(* demo data is for is there.                                              *)
StartsAlone ==
    /\ boot # "up" => \A t \in Thread : pc[t] = "idle"
    /\ boot = "demo" => InitialEcosystem \in stored

IInv == TypeOK /\ RequestsSound /\ StartsAlone

(* It holds at first. *)
LEMMA InitSound == Init => IInv
<1> SUFFICES ASSUME Init PROVE IInv
  OBVIOUS
<1>1. /\ checked \in BOOLEAN /\ cleared \in BOOLEAN /\ overlap \in BOOLEAN
      /\ checked \/ cleared
  BY DEF Init
<1>2. pc \in [Thread -> {"idle", "post", "patch", "delete"}]
  BY DEF Init, Idle
<1>3. request \in [Thread -> [actor : User \cup {NoRow},
                             row : Row \cup {NoRow}, seen : SUBSET Row,
                             before : SUBSET Row]]
  BY DEF Init, NoRequest
<1>4. \A t \in Thread : pc[t] = "idle" /\ request[t] = NoRequest
  BY DEF Init, Idle
<1>5. /\ stored \subseteq Row /\ refers \in [Row -> SUBSET Row]
      /\ granted \in [User -> SUBSET Label]
      /\ \A u \in User \ stored : granted[u] = {}
      /\ configurations = 0 /\ boot = "configuration" /\ faults \in 0..MaxFaults
  BY ApiAssumption DEF Init
<1>6. QED
  BY <1>1, <1>2, <1>3, <1>4, <1>5
  DEF IInv, TypeOK, RequestsSound, StartsAlone

(* Every step of a request, the database and the process keeps it. *)
LEMMA StepSound == IInv /\ [Next]_vars => IInv'
<1> SUFFICES ASSUME IInv, [Next]_vars PROVE IInv'
  OBVIOUS
<1> USE ApiAssumption DEF IInv, TypeOK, RequestsSound, StartsAlone
<1>1. CASE SetUpConfiguration
  BY <1>1 DEF SetUpConfiguration, tables, threads, history
<1>2. CASE SetUpUser
  <2>1. /\ stored' \subseteq Row /\ refers' \in [Row -> SUBSET Row]
        /\ granted' \in [User -> SUBSET Label]
        /\ \A u \in User \ stored' : granted'[u] = {}
    <3>1. CASE Users = {}
      <4>1. InitialUser \in Row /\ InitialUser \in User
        BY DEF User
      <4>2. stored' \subseteq Row /\ refers' \in [Row -> SUBSET Row]
        BY <1>2, <3>1, <4>1 DEF SetUpUser, Insert
      <4>3. granted' \in [User -> SUBSET Label]
        BY <1>2, <3>1, <4>1 DEF SetUpUser
      <4>4. \A u \in User \ stored' : granted'[u] = {}
        BY <1>2, <3>1, <4>1 DEF SetUpUser, Insert
      <4>5. QED
        BY <4>2, <4>3, <4>4
    <3>2. CASE Users # {}
      BY <1>2, <3>2 DEF SetUpUser, tables
    <3>3. QED
      BY <3>1, <3>2
  <2>2. QED
    BY <1>2, <2>1 DEF SetUpUser, threads, history
<1>3. CASE SetUpEcosystem
  <2>1. CASE \E x \in stored : Kind[x] = "ecosystem"
    BY <1>3, <2>1 DEF SetUpEcosystem, tables, threads, history
  <2>2. CASE ~\E x \in stored : Kind[x] = "ecosystem"
    <3>1. stored' = stored \cup {InitialEcosystem}
      BY <1>3, <2>2 DEF SetUpEcosystem, Insert
    <3>2. refers' \in [Row -> SUBSET Row]
      BY <1>3, <2>2 DEF SetUpEcosystem, Insert
    <3>3. QED
      BY <1>3, <2>2, <3>1, <3>2 DEF SetUpEcosystem, threads, history
  <2>3. QED
    BY <2>1, <2>2
<1>4. CASE Populate
  BY <1>4 DEF Populate, Insert, tables, threads, history, User
<1>5. CASE Crash
  <2>1. /\ checked' \in BOOLEAN /\ overlap' \in BOOLEAN /\ checked'
        /\ cleared' = cleared /\ UNCHANGED tables
        /\ configurations' = configurations /\ boot' = "configuration"
    BY <1>5 DEF Crash
  <2>2. faults' \in 0..MaxFaults
    BY <1>5 DEF Crash
  <2>3. /\ pc' \in [Thread -> {"idle", "post", "patch", "delete"}]
        /\ request' \in [Thread -> [actor : User \cup {NoRow},
                                    row : Row \cup {NoRow},
                                    seen : SUBSET Row, before : SUBSET Row]]
        /\ \A s \in Thread : pc'[s] = "idle" /\ request'[s] = NoRequest
    BY <1>5 DEF Crash, Idle, NoRequest
  <2>4. QED
    BY <2>1, <2>2, <2>3 DEF tables
<1>6. CASE Clear
  BY <1>6 DEF Clear, threads, User
<1>7. ASSUME NEW x \in Row, Derive(x) PROVE IInv'
  BY <1>7 DEF Derive, Insert, threads, history, User, Derived
<1>8. ASSUME NEW t \in Thread, NEW u \in User, NEW x \in Row, Post(t, u, x)
      PROVE  IInv'
  BY <1>8 DEF Post, Begin, tables, NoRequest, User, Users, Referring
<1>9. ASSUME NEW t \in Thread, NEW u \in User, NEW x \in Row, Delete(t, u, x)
      PROVE  IInv'
  BY <1>9 DEF Delete, Begin, tables, NoRequest, User, Users, Known, Referring
<1>10. ASSUME NEW t \in Thread, NEW u \in User, NEW x \in User,
              PatchUser(t, u, x)
       PROVE  IInv'
  BY <1>10 DEF PatchUser, Begin, tables, NoRequest, User, Users, Referring
<1>11. ASSUME NEW t \in Thread, CommitPost(t) PROVE IInv'
  <2>1. /\ stored' \subseteq Row /\ refers' \in [Row -> SUBSET Row]
        /\ granted' \in [User -> SUBSET Label]
        /\ \A u \in User \ stored' : granted'[u] = {}
    <3>1. CASE UNCHANGED tables
      BY <3>1 DEF tables
    <3>2. CASE Insert({request[t].row}, [y \in {request[t].row} |-> request[t].seen])
      <4>1. stored' = stored \cup {request[t].row} /\ request[t].row \in Row
        BY <1>11, <3>2 DEF CommitPost, Insert
      <4>2. refers' \in [Row -> SUBSET Row]
        BY <1>11, <3>2 DEF CommitPost, Insert
      <4>3. CASE granted' = granted
        BY <4>1, <4>2, <4>3
      <4>4. ASSUME NEW labels \in Wanted,
                   granted' = [granted EXCEPT ![request[t].row] = labels]
            PROVE  /\ granted' \in [User -> SUBSET Label]
                   /\ \A u \in User \ stored' : granted'[u] = {}
        BY <4>1, <4>4 DEF Wanted, Label
      <4>5. QED
        BY <1>11, <4>1, <4>2, <4>3, <4>4 DEF CommitPost, tables
    <3>3. QED
      BY <1>11, <3>1, <3>2 DEF CommitPost
  <2>2. /\ pc' \in [Thread -> {"idle", "post", "patch", "delete"}]
        /\ request' \in [Thread -> [actor : User \cup {NoRow},
                                    row : Row \cup {NoRow},
                                    seen : SUBSET Row, before : SUBSET Row]]
        /\ \A s \in Thread : pc'[s] = "idle" <=> request'[s] = NoRequest
        /\ RequestsSound' /\ StartsAlone'
    BY <1>11, <2>1 DEF CommitPost, End, NoRequest
  <2>3. QED
    BY <1>11, <2>1, <2>2 DEF CommitPost, history
<1>12. ASSUME NEW t \in Thread, CommitPatch(t) PROVE IInv'
  <2>1. /\ granted' \in [User -> SUBSET Label]
        /\ \A u \in User \ stored' : granted'[u] = {}
    BY <1>12 DEF CommitPatch, Wanted, Label
  <2>2. /\ pc' \in [Thread -> {"idle", "post", "patch", "delete"}]
        /\ request' \in [Thread -> [actor : User \cup {NoRow},
                                    row : Row \cup {NoRow},
                                    seen : SUBSET Row, before : SUBSET Row]]
        /\ \A s \in Thread : pc'[s] = "idle" <=> request'[s] = NoRequest
        /\ RequestsSound' /\ StartsAlone'
    BY <1>12 DEF CommitPatch, End, NoRequest
  <2>3. QED
    BY <1>12, <2>1, <2>2 DEF CommitPatch, history
<1>13. ASSUME NEW t \in Thread, CommitDelete(t) PROVE IInv'
  <2>1. /\ stored' \subseteq Row /\ refers' \in [Row -> SUBSET Row]
        /\ granted' \in [User -> SUBSET Label]
        /\ \A u \in User \ stored' : granted'[u] = {}
    <3>1. CASE Possible(t)
      <4> DEFINE x == request[t].row
      <4>1. /\ stored' = stored \ {x}
            /\ refers' = [y \in Row |->
                   IF y = x THEN {}
                   ELSE IF y \in request[t].seen THEN refers[y] \ {x}
                   ELSE refers[y]]
            /\ granted' = [v \in User |-> IF v = x THEN {} ELSE granted[v]]
        BY <1>13, <3>1 DEF CommitDelete
      <4> HIDE DEF x
      <4>2. refers' \in [Row -> SUBSET Row]
        BY <4>1
      <4>3. granted' \in [User -> SUBSET Label]
        BY <4>1
      <4>4. \A u \in User \ stored' : granted'[u] = {}
        BY <4>1
      <4>5. QED
        BY <4>1, <4>2, <4>3, <4>4
    <3>2. CASE ~Possible(t)
      BY <1>13, <3>2 DEF CommitDelete, tables
    <3>3. QED
      BY <3>1, <3>2
  <2>2. /\ pc' \in [Thread -> {"idle", "post", "patch", "delete"}]
        /\ request' \in [Thread -> [actor : User \cup {NoRow},
                                    row : Row \cup {NoRow},
                                    seen : SUBSET Row, before : SUBSET Row]]
        /\ \A s \in Thread : pc'[s] = "idle" <=> request'[s] = NoRequest
        /\ RequestsSound' /\ StartsAlone'
    BY <1>13 DEF CommitDelete, End, NoRequest
  <2>3. QED
    BY <1>13, <2>1, <2>2 DEF CommitDelete, history
<1>14. CASE UNCHANGED vars
  BY <1>14 DEF vars, tables, threads, history
<1>15. QED
  BY <1>1, <1>2, <1>3, <1>4, <1>5, <1>6, <1>7, <1>8, <1>9, <1>10, <1>11,
     <1>12, <1>13, <1>14 DEF Next, Start, Handle

(* Type correctness, for any rows and threads: among others, only users    *)
(* who exist have permissions.                                             *)
THEOREM TypeCorrect == Spec => []TypeOK
<1>1. IInv => TypeOK
  BY DEF IInv
<1>2. QED
  BY <1>1, InitSound, StepSound, PTL DEF Spec

-----------------------------------------------------------------------------
(* References. *)

(* A row never refers to more than it is meant to; without                 *)
(* clear_ecosystems it refers to rows which exist, and commits and builds  *)
(* keep all their references, because these can not be null.               *)
References ==
    /\ \A x \in Row : refers[x] \subseteq Refs[x]
    /\ ReferencesValid

(* Every step keeps the references, those seen and those stored. *)
LEMMA ReferencesStep == IInv /\ References /\ [Next]_vars => References'
<1> SUFFICES ASSUME IInv, References, [Next]_vars PROVE References'
  OBVIOUS
<1> USE ApiAssumption
(* Rows are inserted with references to rows which exist. *)
<1>0. ASSUME NEW rows \in SUBSET Row, NEW refs \in [Row -> SUBSET Row],
             Insert(rows, refs), cleared' = cleared,
             \A x \in rows : /\ refs[x] \subseteq Refs[x]
                             /\ refs[x] \subseteq stored \cup rows
                             /\ Kind[x] \in Derived => refs[x] = Refs[x]
      PROVE  References'
  BY <1>0 DEF Insert, IInv, TypeOK, References, ReferencesValid
<1>1. CASE SetUpUser
  <2>1. CASE Users = {}
    <3>1. Refs[InitialUser] = {}
      BY DEF User
    <3>2. Insert({InitialUser}, Refs) /\ cleared' = cleared
      BY <1>1, <2>1 DEF SetUpUser, history
    <3>3. {InitialUser} \in SUBSET Row
      BY DEF User
    <3>4. Kind[InitialUser] \notin Derived
      BY DEF User, Derived
    <3>5. QED
      BY <3>1, <3>2, <3>3, <3>4, <1>0
  <2>2. CASE Users # {}
    BY <1>1, <2>2 DEF SetUpUser, tables, history, References,
       ReferencesValid
  <2>3. QED
    BY <2>1, <2>2
<1>2. CASE SetUpEcosystem
  <2>1. CASE \E x \in stored : Kind[x] = "ecosystem"
    BY <1>2, <2>1 DEF SetUpEcosystem, tables, history, References,
       ReferencesValid
  <2>2. CASE ~\E x \in stored : Kind[x] = "ecosystem"
    <3>1. Insert({InitialEcosystem}, Refs) /\ cleared' = cleared
      BY <1>2, <2>2 DEF SetUpEcosystem, history
    <3>2. QED
      BY <3>1, <1>0 DEF Derived
  <2>3. QED
    BY <2>1, <2>2
<1>3. CASE Populate
  <2>1. Insert(Demo \ stored, Refs) /\ cleared' = cleared
    BY <1>3 DEF Populate, history
  <2>2. \A x \in Demo : /\ Refs[x] \subseteq stored /\ x \in Row
                       /\ Kind[x] \notin Derived
    BY <1>3 DEF Populate, Managed, Derived, IInv, StartsAlone
  <2>3. QED
    BY <2>1, <2>2, <1>0
<1>4. ASSUME NEW x \in Row, Derive(x) PROVE References'
  <2>1. Insert({x}, Refs) /\ cleared' = cleared /\ Refs[x] \subseteq stored
    BY <1>4 DEF Derive, history
  <2>2. QED
    BY <2>1, <1>0
<1> USE DEF IInv, TypeOK, RequestsSound, StartsAlone, References,
            ReferencesValid
<1>5. CASE SetUpConfiguration
  BY <1>5 DEF SetUpConfiguration, tables, history
<1>6. CASE Crash
  BY <1>6 DEF Crash, tables
<1>7. CASE Clear
  BY <1>7 DEF Clear
<1>8. ASSUME NEW t \in Thread, NEW u \in User, NEW x \in Row, Post(t, u, x)
      PROVE  References'
  BY <1>8 DEF Post, Begin, tables
<1>9. ASSUME NEW t \in Thread, NEW u \in User, NEW x \in Row, Delete(t, u, x)
      PROVE  References'
  BY <1>9 DEF Delete, Begin, tables
<1>10. ASSUME NEW t \in Thread, NEW u \in User, NEW x \in User,
              PatchUser(t, u, x)
       PROVE  References'
  BY <1>10 DEF PatchUser, Begin, tables
<1>11. ASSUME NEW t \in Thread, CommitPost(t) PROVE References'
  <2> DEFINE x == request[t].row
             seen == request[t].seen
  <2>1. /\ x \in Row /\ seen \subseteq Refs[x] /\ Kind[x] \in Managed
        /\ cleared' = cleared
    BY <1>11 DEF CommitPost, history
  <2>2. Kind[x] \notin Derived
    BY <2>1 DEF Managed, Derived
  <2>3. CASE Insert({x}, [y \in {x} |-> seen]) /\ (seen \subseteq stored \/ ~checked)
    <3>1. /\ stored' = stored \cup {x}
          /\ refers' = [y \in Row |-> IF y = x THEN seen ELSE refers[y]]
      BY <2>3 DEF Insert
    <3> HIDE DEF x, seen
    <3>2. QED
      BY <2>1, <2>2, <2>3, <3>1
  <2>4. CASE UNCHANGED tables
    BY <2>1, <2>4 DEF tables
  <2>5. QED
    BY <1>11, <2>3, <2>4 DEF CommitPost
<1>12. ASSUME NEW t \in Thread, CommitPatch(t) PROVE References'
  BY <1>12 DEF CommitPatch, history
<1>13. ASSUME NEW t \in Thread, CommitDelete(t) PROVE References'
  <2> DEFINE x == request[t].row
             seen == request[t].seen
  <2>1. CASE Possible(t)
    <3>1. /\ stored' = stored \ {x} /\ cleared' = cleared
          /\ refers' = [y \in Row |->
                 IF y = x THEN {}
                 ELSE IF y \in seen THEN refers[y] \ {x} ELSE refers[y]]
      BY <1>13, <2>1 DEF CommitDelete, history
    <3>2. /\ x \in Row /\ Kind[x] \in Managed
      BY <1>13 DEF CommitDelete
    <3>3. /\ Nullable(x) \/ seen = {}
          /\ Referring(x) \subseteq seen \/ ~checked
      BY <2>1 DEF Possible
    <3> HIDE DEF x, seen
    <3>4. ASSUME NEW y \in stored, x \in refers[y], ~cleared
          PROVE  /\ y \in seen
                 /\ Kind[y] \notin Derived
      <4>1. y \in seen /\ Nullable(x)
        BY <3>3, <3>4 DEF Referring
      <4>2. Kind[y] \in Managed
        BY <3>4, <3>2, <4>1 DEF Nullable
      <4>3. QED
        BY <4>1, <4>2 DEF Managed, Derived
    <3>5. \A y \in Row : refers'[y] \subseteq refers[y]
      BY <3>1
    <3>6. ASSUME ~cleared, NEW y \in stored \ {x}
          PROVE  /\ refers'[y] \subseteq stored \ {x}
                 /\ Kind[y] \in Derived => refers'[y] = Refs[y]
      <4>1. CASE x \in refers[y]
        <5>1. y \in seen /\ Kind[y] \notin Derived /\ y \in Row /\ y # x
          BY <3>6, <3>4, <4>1
        <5>2. refers'[y] = refers[y] \ {x}
          BY <3>1, <5>1
        <5>3. refers[y] \subseteq stored
          BY <3>6
        <5>4. QED
          BY <5>1, <5>2, <5>3
      <4>2. CASE x \notin refers[y]
        <5>1. y \in Row /\ y # x /\ refers[y] \subseteq stored
          BY <3>6
        <5>2. refers'[y] = refers[y]
          BY <3>1, <5>1, <4>2
        <5>3. Kind[y] \in Derived => refers[y] = Refs[y]
          BY <3>6
        <5>4. QED
          BY <5>1, <5>2, <5>3, <4>2
      <4>3. QED
        BY <4>1, <4>2
    <3>7. QED
      BY <3>1, <3>5, <3>6
  <2>2. CASE ~Possible(t)
    BY <1>13, <2>2 DEF CommitDelete, tables, history
  <2>3. QED
    BY <2>1, <2>2
<1>14. CASE UNCHANGED vars
  BY <1>14 DEF vars, tables, history
<1>15. QED
  BY <1>5, <1>1, <1>2, <1>3, <1>6, <1>7, <1>4, <1>8, <1>9, <1>10, <1>11,
     <1>12, <1>13, <1>14 DEF Next, Start, Handle

(* What commits, builds, repositories, channels and profiles refer to is   *)
(* in the tables, and commits and builds have all their references,        *)
(* whatever is deleted at the same time: the database checks a deletion    *)
(* against the present and not against what the request has read.          *)
THEOREM ReferencesStayValid == Spec => []ReferencesValid
<1>1. Init => References
  BY ApiAssumption DEF Init, References, ReferencesValid
<1>2. References => ReferencesValid
  BY DEF References
<1>3. QED
  BY <1>1, <1>2, InitSound, StepSound, ReferencesStep, PTL DEF Spec

-----------------------------------------------------------------------------
(* Users. *)

(* As long as removals do not overlap there is one at most, and it leaves  *)
(* a user.                                                                 *)
OneRemoval ==
    /\ boot \in {"ecosystem", "demo", "up"} /\ ~overlap => Users # {}
    /\ ~overlap =>
          \A t \in Thread : Removing(t) =>
              /\ Users \ {request[t].row} # {}
              /\ \A s \in Thread : Removing(s) => s = t

(* Every step keeps that one request at a time removes a user. *)
LEMMA OneRemovalStep == IInv /\ OneRemoval /\ [Next]_vars => OneRemoval'
<1> SUFFICES ASSUME IInv, OneRemoval, [Next]_vars PROVE OneRemoval'
  OBVIOUS
<1> USE ApiAssumption
    DEF IInv, TypeOK, RequestsSound, StartsAlone, OneRemoval
(* Users who stay, and removals which were there, do no harm. *)
<1>0. ASSUME Users \subseteq Users', overlap' = overlap,
             boot' = boot \/ boot \in {"ecosystem", "demo"},
             \A t \in Thread : Removing(t)' =>
                 Removing(t) /\ request'[t] = request[t]
      PROVE  OneRemoval'
  BY <1>0
<1>1. CASE SetUpConfiguration
  BY <1>1 DEF SetUpConfiguration, tables, threads, history, Removing, Users
<1>2. CASE SetUpUser
  <2>1. Users' # {}
    <3>1. CASE Users = {}
      BY <1>2, <3>1 DEF SetUpUser, Insert, Users, User
    <3>2. CASE Users # {}
      BY <1>2, <3>2 DEF SetUpUser, tables, Users
    <3>3. QED
      BY <3>1, <3>2
  <2>2. \A t \in Thread : ~Removing(t)'
    BY <1>2 DEF SetUpUser, threads, Removing
  <2>3. QED
    BY <2>1, <2>2
<1>3. CASE SetUpEcosystem
  <2>1. Users \subseteq Users'
    BY <1>3 DEF SetUpEcosystem, Insert, tables, Users
  <2>2. QED
    BY <1>3, <2>1, <1>0 DEF SetUpEcosystem, threads, history, Removing
<1>4. CASE Populate
  <2>1. Users \subseteq Users'
    BY <1>4 DEF Populate, Insert, Users
  <2>2. QED
    BY <1>4, <2>1, <1>0 DEF Populate, threads, history, Removing
<1>5. CASE Crash
  BY <1>5 DEF Crash, tables, Removing, Idle
<1>6. CASE Clear
  <2>1. Users' = Users
    BY <1>6 DEF Clear, Users, User
  <2>2. QED
    BY <1>6, <2>1, <1>0 DEF Clear, threads, Removing
<1>7. ASSUME NEW x \in Row, Derive(x) PROVE OneRemoval'
  <2>1. Users \subseteq Users'
    BY <1>7 DEF Derive, Insert, Users
  <2>2. QED
    BY <1>7, <2>1, <1>0 DEF Derive, threads, history, Removing
<1>8. ASSUME NEW t \in Thread, NEW u \in User, NEW x \in Row, Post(t, u, x)
      PROVE  OneRemoval'
  BY <1>8, <1>0 DEF Post, Begin, tables, Removing, Users
<1>9. ASSUME NEW t \in Thread, NEW u \in User, NEW x \in Row, Delete(t, u, x)
      PROVE  OneRemoval'
  <2>1. /\ Users' = Users /\ boot' = boot
        /\ pc' = [pc EXCEPT ![t] = "delete"] /\ request'[t].row = x
        /\ \A s \in Thread \ {t} : request'[s] = request[s]
        /\ pc[t] = "idle"
        /\ x \in User => Users \ {x} # {}
        /\ overlap' = (overlap \/ (x \in User /\ \E s \in Thread : Removing(s)))
    BY <1>9 DEF Delete, Begin, tables, Users
  <2>2. \A s \in Thread \ {t} : Removing(s)' <=> Removing(s)
    BY <2>1 DEF Removing
  <2>3. Removing(t)' <=> x \in User
    BY <2>1 DEF Removing
  <2>4. CASE x \in User
    BY <2>1, <2>2, <2>4 DEF Removing
  <2>5. CASE x \notin User
    BY <2>1, <2>2, <2>3, <2>5
  <2>6. QED
    BY <2>4, <2>5
<1>10. ASSUME NEW t \in Thread, NEW u \in User, NEW x \in User,
              PatchUser(t, u, x)
       PROVE  OneRemoval'
  BY <1>10, <1>0 DEF PatchUser, Begin, tables, Removing, Users
<1>11. ASSUME NEW t \in Thread, CommitPost(t) PROVE OneRemoval'
  <2>1. Users \subseteq Users'
    BY <1>11 DEF CommitPost, Insert, Users
  <2>2. QED
    BY <1>11, <2>1, <1>0 DEF CommitPost, End, history, Removing
<1>12. ASSUME NEW t \in Thread, CommitPatch(t) PROVE OneRemoval'
  BY <1>12, <1>0 DEF CommitPatch, End, history, Removing, Users
<1>13. ASSUME NEW t \in Thread, CommitDelete(t) PROVE OneRemoval'
  <2>1. /\ boot' = boot /\ overlap' = overlap /\ pc[t] = "delete"
        /\ ~Removing(t)'
        /\ \A s \in Thread \ {t} : /\ Removing(s)' <=> Removing(s)
                                   /\ request'[s] = request[s]
    BY <1>13 DEF CommitDelete, End, history, Removing
  <2>2. CASE Removing(t)
    <3>1. Users \ {request[t].row} \subseteq Users'
      BY <1>13 DEF CommitDelete, tables, Users
    <3>2. QED
      BY <2>1, <2>2, <3>1
  <2>3. CASE ~Removing(t)
    <3>1. Users \subseteq Users'
      BY <1>13, <2>1, <2>3 DEF CommitDelete, tables, Users, Removing
    <3>2. QED
      BY <2>1, <3>1, <1>0
  <2>4. QED
    BY <2>2, <2>3
<1>14. CASE UNCHANGED vars
  BY <1>14 DEF vars, tables, threads, history, Users, Removing
<1>15. QED
  BY <1>1, <1>2, <1>3, <1>4, <1>5, <1>6, <1>7, <1>8, <1>9, <1>10, <1>11,
     <1>12, <1>13, <1>14 DEF Next, Start, Handle

(* A server which is up has a user, for any number of users and however    *)
(* often it crashes while it starts, unless two removals overlapped.       *)
THEOREM UserStays == Spec => []SomeUserLeft
<1>1. Init => OneRemoval
  BY DEF Init, OneRemoval, Removing, Idle
<1>2. OneRemoval => SomeUserLeft
  BY DEF OneRemoval, SomeUserLeft
<1>3. QED
  BY <1>1, <1>2, InitSound, StepSound, OneRemovalStep, PTL DEF Spec

-----------------------------------------------------------------------------
(* Deletions. *)

(* A deletion which was answered is done when its transaction ends, unless *)
(* the row has commits or builds, or the rows which refer to it are other  *)
(* ones than at the beginning of the request.  For an ecosystem the model  *)
(* knows all its rows, and they can do without it; to a profile without    *)
(* builds, a repository without commits and a user nothing refers.         *)
THEOREM DeletionsDone == Spec => AcknowledgedDeleteDone
<1> DEFINE Done(t) ==
      (pc[t] = "delete" /\ pc'[t] = "idle" /\ faults' = faults) =>
          LET x == request[t].row
          IN \/ x \notin stored'
             \/ \E y \in Referring(x) : Kind[y] \in Derived
             \/ request[t].before # Referring(x)
<1>1. ASSUME IInv, References, [Next]_vars PROVE \A t \in Thread : Done(t)
  <2> SUFFICES ASSUME NEW t \in Thread, pc[t] = "delete", pc'[t] = "idle",
                      faults' = faults,
                      request[t].before = Referring(request[t].row),
                      \A y \in Referring(request[t].row) : Kind[y] \notin Derived
               PROVE  request[t].row \notin stored'
    OBVIOUS
  <2> USE <1>1 DEF IInv, TypeOK, RequestsSound
  <2>1. CommitDelete(t)
    <3>1. pc'[t] # pc[t]
      OBVIOUS
    <3>2. ~UNCHANGED vars /\ ~Start /\ ~Clear /\ \A x \in Row : ~Derive(x)
      BY <3>1 DEF vars, threads, Start, SetUpConfiguration, SetUpUser,
                  SetUpEcosystem, Populate, Clear, Derive
    <3>3. ~Crash
      BY DEF Crash
    <3>4. PICK s \in Thread : Handle(s)
      BY <3>2, <3>3 DEF Next
    <3>5. \A u \in User, x \in Row : ~Post(s, u, x) /\ ~Delete(s, u, x)
      BY DEF Post, Delete, Begin
    <3>6. \A u, x \in User : ~PatchUser(s, u, x)
      BY DEF PatchUser, Begin
    <3>7. CommitPost(s) \/ CommitPatch(s) \/ CommitDelete(s)
      BY <3>4, <3>5, <3>6 DEF Handle
    <3>8. QED
      BY <3>7 DEF CommitPost, CommitPatch, CommitDelete, End
  <2>2. request[t].row \in Row /\ Kind[request[t].row] \in Managed
    OBVIOUS
  <2>3. Referring(request[t].row) \subseteq stored
    BY DEF Referring
  <2>4. Nullable(request[t].row) \/ Referring(request[t].row) = {}
    <3> SUFFICES ASSUME NEW y \in Referring(request[t].row)
                 PROVE  Nullable(request[t].row)
      OBVIOUS
    <3>1. y \in Row /\ request[t].row \in Refs[y] /\ Kind[y] \notin Derived
      BY DEF Referring, References
    <3>2. Kind[y] \in Managed
      BY <3>1, ApiAssumption
    <3>3. Kind[request[t].row] = "ecosystem"
      BY <3>1, <3>2, <2>2, ApiAssumption
    <3>4. QED
      BY <3>3 DEF Nullable
  <2>5. request[t].seen = Referring(request[t].row)
    <3>1. CASE Kind[request[t].row] = "profile"
      BY <2>4, <3>1 DEF Nullable
    <3>2. CASE Kind[request[t].row] # "profile"
      BY <3>2
    <3>3. QED
      BY <3>1, <3>2
  <2>6. Possible(t)
    BY <2>3, <2>4, <2>5 DEF Possible
  <2>7. QED
    BY <2>1, <2>6 DEF CommitDelete
<1>2. Init => References
  BY ApiAssumption DEF Init, References, ReferencesValid
<1>3. IInv /\ References /\ [Next]_vars => [\A t \in Thread : Done(t)]_vars
  BY <1>1
<1>4. QED
  BY <1>2, <1>3, InitSound, StepSound, ReferencesStep, PTL
  DEF Spec, AcknowledgedDeleteDone

=============================================================================
