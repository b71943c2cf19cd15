----------------------------- MODULE PublicApi ------------------------------
(***************************************************************************)
(* The public API as far as it changes tables: users and their             *)
(* permissions, ecosystems with their repositories, channels and profiles, *)
(* the rows other services derive from them, and the initial data which is *)
(* written when the server starts.                                         *)
(*                                                                         *)
(* A request is handled in a thread with a session of its own.  What it    *)
(* reads is the state at its beginning (REPEATABLE READ), which `seen`     *)
(* keeps; what it writes is checked by the database against the present.   *)
(* (`before` is history: the rows which referred to its row at that time.) *)
(* POST and PATCH commit before they answer; DELETE answers first, and the *)
(* session is committed when the dependency get_session ends.              *)
(***************************************************************************)
EXTENDS Naturals, FiniteSets

CONSTANTS
    Row,        \* all the rows there may be
    Kind,       \* the table a row belongs to
    Refs,       \* the rows its foreign keys are meant to refer to
    Demo,       \* the rows of the demo data
    InitialUser, InitialEcosystem, NoRow,
    Thread,     \* the threads of the server
    MaxFaults   \* how often the server may crash

User == {x \in Row : Kind[x] = "user"}
Label == {"read", "write", "admin"}

(* The tables the API inserts into, and those other services insert into. *)
Managed == {"user", "ecosystem", "repo", "channel", "profile"}
Derived == {"commit", "build"}

ASSUME ApiAssumption ==
    /\ Kind \in [Row -> Managed \cup Derived]
    /\ Refs \in [Row -> SUBSET Row]
    /\ \A x \in Row : Kind[x] \in {"user", "ecosystem"} => Refs[x] = {}
    /\ \A x \in Row : \A y \in Refs[x] :
          Kind[y] = "ecosystem" <=> Kind[x] \in Managed
    /\ \A x \in Row : \A y \in Refs[x] : Kind[y] # "user"
    /\ Demo \subseteq Row
    /\ \A x \in Demo : Kind[x] \in Managed /\ Refs[x] = {InitialEcosystem}
    /\ InitialUser \in User
    /\ InitialEcosystem \in Row /\ Kind[InitialEcosystem] = "ecosystem"
    /\ NoRow \notin Row
    /\ MaxFaults \in Nat

VARIABLES
    stored,         \* the rows in the tables
    refers,         \* the values of their foreign keys
    granted,        \* the permissions of a user
    configurations, \* how many rows table configuration has
    boot,           \* how far the server has started
    pc, request,    \* what a thread does
    checked,        \* foreign keys are checked on all connections
    cleared,        \* history: clear_ecosystems was used
    overlap,        \* history: users were removed at the same time
    faults

tables == <<stored, refers, granted>>
threads == <<pc, request>>
history == <<checked, cleared, overlap, faults>>
vars == <<tables, configurations, boot, threads, history>>

NoRequest == [actor |-> NoRow, row |-> NoRow, seen |-> {}, before |-> {}]
Idle == [t \in Thread |-> "idle"]

Users == stored \cap User
Referring(x) == {y \in stored : x \in refers[y]}

Insert(rows, refs) ==
    /\ stored' = stored \cup rows
    /\ refers' = [y \in Row |-> IF y \in rows THEN refs[y] ELSE refers[y]]

Init ==
    /\ stored = {} /\ refers = [x \in Row |-> {}]
    /\ granted = [u \in User |-> {}]
    /\ configurations = 0
    /\ boot = "configuration"
    /\ pc = Idle /\ request = [t \in Thread |-> NoRequest]
    /\ checked = TRUE /\ cleared = FALSE /\ overlap = FALSE /\ faults = 0

-----------------------------------------------------------------------------
(* The server starts: setup_initial_data, one transaction for each step. *)

(* Mutant: a configuration is inserted at every start. *)
AddConfiguration ==
    /\ boot = "configuration" /\ boot' = "user"
    /\ configurations' = configurations + 1
    /\ UNCHANGED <<tables, threads, history>>

SetUpConfiguration ==
    /\ boot = "configuration" /\ boot' = "user"
    /\ configurations' = IF configurations = 0 THEN 1 ELSE configurations
    /\ UNCHANGED <<tables, threads, history>>

(* Mutant: only an empty database gets a user. *)
SetUpUserIfEmpty ==
    /\ boot = "user" /\ boot' = "ecosystem"
    /\ IF stored = {}
       THEN /\ Insert({InitialUser}, Refs)
            /\ granted' = [granted EXCEPT ![InitialUser] = Label]
       ELSE UNCHANGED tables
    /\ UNCHANGED <<configurations, threads, history>>

(* A user with all permissions, if there is none.  The deployment is        *)
(* assumed to name one: without a name or password none is created.        *)
SetUpUser ==
    /\ boot = "user" /\ boot' = "ecosystem"
    /\ IF Users = {}
       THEN /\ Insert({InitialUser}, Refs)
            /\ granted' = [granted EXCEPT ![InitialUser] = Label]
       ELSE UNCHANGED tables
    /\ UNCHANGED <<configurations, threads, history>>

SetUpEcosystem ==
    /\ boot = "ecosystem"
    /\ IF \E x \in stored : Kind[x] = "ecosystem"
       THEN boot' = "up" /\ UNCHANGED tables
       ELSE /\ boot' = "demo"
            /\ Insert({InitialEcosystem}, Refs)
            /\ UNCHANGED granted
    /\ UNCHANGED <<configurations, threads, history>>

(* The demo data of a new ecosystem; a crash before it leaves none.        *)
Populate ==
    /\ boot = "demo" /\ boot' = "up"
    /\ Insert(Demo \ stored, Refs)
    /\ UNCHANGED <<granted, configurations, threads, history>>

(* The server dies and starts again, with new connections. *)
Crash ==
    /\ faults < MaxFaults /\ faults' = faults + 1
    /\ boot' = "configuration"
    /\ pc' = Idle /\ request' = [t \in Thread |-> NoRequest]
    /\ checked' = TRUE /\ overlap' = FALSE
    /\ UNCHANGED <<tables, configurations, cleared>>

-----------------------------------------------------------------------------
(* Requests. *)

Permission(x) == IF x \in User THEN "admin" ELSE "write"

(* A request passes when its user exists and has the permission; all       *)
(* others, and those for a row which is not there, change nothing.         *)
Begin(t, u, x, seen, to) ==
    /\ boot = "up" /\ pc[t] = "idle"
    /\ u \in Users
    /\ pc' = [pc EXCEPT ![t] = to]
    /\ request' = [request EXCEPT ![t] =
                      [actor |-> u, row |-> x, seen |-> seen,
                       before |-> Referring(x)]]
    /\ UNCHANGED <<tables, configurations, boot, checked, cleared, faults>>

End(t) ==
    /\ pc' = [pc EXCEPT ![t] = "idle"]
    /\ request' = [request EXCEPT ![t] = NoRequest]

(* The ecosystem is looked up; without it the row belongs to none. *)
Post(t, u, x) ==
    /\ Permission(x) \in granted[u]
    /\ x \notin stored /\ Kind[x] \in Managed
    /\ \A s \in Thread : request[s].row # x
    /\ Begin(t, u, x, Refs[x] \cap stored, "post")
    /\ UNCHANGED overlap

(* The permissions a request may name for a user. *)
Wanted == {{}, {"read"}, Label}

(* A foreign key must refer to a row which exists, unless it is null.  A   *)
(* new user gets the permissions of the request.                           *)
CommitPost(t) ==
    LET x == request[t].row
        seen == request[t].seen
    IN /\ pc[t] = "post"
       /\ \/ /\ seen \subseteq stored \/ ~checked
             /\ Insert({x}, [y \in {x} |-> seen])
             /\ IF x \in User
                THEN \E labels \in Wanted :
                         granted' = [granted EXCEPT ![x] = labels]
                ELSE UNCHANGED granted
          \/ /\ ~(seen \subseteq stored)
             /\ UNCHANGED tables
       /\ End(t)
       /\ UNCHANGED <<configurations, boot, history>>

(* A user is changed by an administrator or by himself. *)
PatchUser(t, u, x) ==
    /\ "read" \in granted[u]
    /\ u = x \/ "admin" \in granted[u]
    /\ x \in Users
    /\ Begin(t, u, x, {}, "patch")
    /\ UNCHANGED overlap

(* New permissions, if the request names any, replace those of the user,    *)
(* if he is still there.                                                   *)
CommitPatch(t) ==
    LET x == request[t].row
    IN /\ pc[t] = "patch"
       /\ \/ UNCHANGED granted
          \/ /\ x \in stored
             /\ \E labels \in Wanted :
                    granted' = [granted EXCEPT ![x] = labels]
       /\ End(t)
       /\ UNCHANGED <<stored, refers, configurations, boot, history>>

(* Mutant: the relationship from profiles to ecosystems has no reverse.    *)
KnownButProfiles(x) == {y \in Referring(x) : Kind[y] # "profile"}

(* The rows which refer to a row and which the model knows of when it is   *)
(* deleted: all but the builds of a profile, which has no list of them.    *)
Known(x) == IF Kind[x] = "profile" THEN {} ELSE Referring(x)

Removing(t) == pc[t] = "delete" /\ request[t].row \in User

(* A DELETE finds its row and is answered.  Nobody removes himself, and    *)
(* remove_but_last_user counts the users which would be left.              *)
Delete(t, u, x) ==
    /\ Permission(x) \in granted[u]
    /\ x \in stored /\ Kind[x] \in Managed
    /\ x \in User => x # u /\ Users \ {x} # {}
    /\ Begin(t, u, x, Known(x), "delete")
    /\ overlap' = (overlap \/ (x \in User /\ \E s \in Thread : Removing(s)))

(* Mutant: a row can not do without an ecosystem. *)
OnlyUserNullable(x) == Kind[x] = "user"

Nullable(x) == Kind[x] \in {"user", "ecosystem"}

(* Mutant: what refers to a row is not looked at by the database. *)
NothingRefers(t) ==
    LET x == request[t].row
        seen == request[t].seen
    IN (Nullable(x) \/ seen = {}) /\ seen \subseteq stored

(* The rows which were seen lose the reference, which must be allowed to   *)
(* be null, and must still be there; no other row may have the reference.  *)
Possible(t) ==
    LET x == request[t].row
        seen == request[t].seen
    IN /\ Nullable(x) \/ seen = {}
       /\ seen \subseteq stored
       /\ Referring(x) \subseteq seen \/ ~checked

(* The transaction of a DELETE is committed, or fails after the answer. *)
CommitDelete(t) ==
    LET x == request[t].row
        seen == request[t].seen
    IN /\ pc[t] = "delete"
       /\ IF Possible(t)
          THEN /\ stored' = stored \ {x}
               /\ refers' = [y \in Row |->
                      IF y = x THEN {}
                      ELSE IF y \in seen THEN refers[y] \ {x} ELSE refers[y]]
               /\ granted' = [v \in User |-> IF v = x THEN {} ELSE granted[v]]
          ELSE UNCHANGED tables
       /\ End(t)
       /\ UNCHANGED <<configurations, boot, history>>

(* clear_ecosystems drops the tables which hang on ecosystems and makes    *)
(* new ones.  It waits until nobody uses them, and leaves a connection     *)
(* behind on which foreign keys are not checked any more.                  *)
Clear ==
    /\ boot = "up"
    /\ \E u \in Users : "admin" \in granted[u]
    /\ \A t \in Thread : request[t].row \in User \cup {NoRow}
    /\ stored' = {x \in stored : Kind[x] \in {"user", "ecosystem"}}
    /\ refers' = [x \in Row |-> {}]
    /\ checked' = FALSE /\ cleared' = TRUE
    /\ UNCHANGED <<granted, configurations, boot, threads, overlap, faults>>

(* Crawler and scheduler store commits and builds. *)
Derive(x) ==
    /\ x \notin stored /\ Kind[x] \in Derived
    /\ Refs[x] \subseteq stored
    /\ Insert({x}, Refs)
    /\ UNCHANGED <<granted, configurations, boot, threads, history>>

-----------------------------------------------------------------------------

Start == SetUpConfiguration \/ SetUpUser \/ SetUpEcosystem \/ Populate

Handle(t) ==
    \/ \E u \in User, x \in Row : \/ Post(t, u, x) \/ Delete(t, u, x)
    \/ \E u, x \in User : PatchUser(t, u, x)
    \/ CommitPost(t) \/ CommitPatch(t) \/ CommitDelete(t)

Next == \/ Start \/ Crash \/ Clear
        \/ \E t \in Thread : Handle(t)
        \/ \E x \in Row : Derive(x)

Spec == Init /\ [][Next]_vars

-----------------------------------------------------------------------------
(* Properties *)

(* The types of the variables; only users have permissions.                *)
TypeOK ==
    /\ stored \subseteq Row
    /\ refers \in [Row -> SUBSET Row]
    /\ granted \in [User -> SUBSET Label]
    /\ \A u \in User \ stored : granted[u] = {}
    /\ configurations \in {0, 1}
    /\ boot \in {"configuration", "user", "ecosystem", "demo", "up"}
    /\ pc \in [Thread -> {"idle", "post", "patch", "delete"}]
    /\ request \in [Thread -> [actor : User \cup {NoRow},
                               row : Row \cup {NoRow}, seen : SUBSET Row,
                               before : SUBSET Row]]
    /\ \A t \in Thread : pc[t] = "idle" <=> request[t] = NoRequest
    /\ checked \in BOOLEAN /\ cleared \in BOOLEAN /\ overlap \in BOOLEAN
    /\ checked \/ cleared
    /\ faults \in 0..MaxFaults

(* Every reference is to a row which exists, and a commit or a build has   *)
(* all of its references: what the other services follow without a check   *)
(* is there, in whatever order rows are made and removed, as long as       *)
(* clear_ecosystems was not used.                                          *)
ReferencesValid == ~cleared =>
    \A x \in stored : /\ refers[x] \subseteq stored
                      /\ Kind[x] \in Derived => refers[x] = Refs[x]

(* A running server has a user who can log in, through crashes while it    *)
(* starts and all removals, unless users were removed at the same time.    *)
SomeUserLeft == boot = "up" /\ ~overlap => Users # {}

(* A DELETE which was answered is done: a repository, channel or profile   *)
(* goes unless it has commits or builds, an ecosystem with repositories    *)
(* and profiles which then belong to none.  It is undone silently only     *)
(* when other rows refer to the row than at the beginning of the request.  *)
AcknowledgedDeleteDone ==
    [][\A t \in Thread :
          (pc[t] = "delete" /\ pc'[t] = "idle" /\ faults' = faults) =>
              LET x == request[t].row
              IN \/ x \notin stored'
                 \/ \E y \in Referring(x) : Kind[y] \in Derived
                 \/ request[t].before # Referring(x)]_vars

=============================================================================
