----------------------------- MODULE BuildLife -----------------------------
(***************************************************************************)
(* What everybody may rely on about one build: it waits until one worker   *)
(* claims it, belongs to this worker until the worker ends it, gives it    *)
(* back or leaves it behind, and rests when it has ended until it is       *)
(* reopened.  Somebody who has not claimed the build may change it at any  *)
(* time, of which nothing is promised until it is claimed again.           *)
(***************************************************************************)

CONSTANT Worker

VARIABLES
    phase,    \* of the build, see Phase
    workers   \* who executes it

vars == <<phase, workers>>

(*   absent    not stored yet          orphaned  claimed, its worker is gone *)
(*   waiting   for a worker            finished  stopped, failed or built    *)
(*   running   executed by a worker    disturbed by somebody else            *)
Phase == {"absent", "waiting", "running", "orphaned", "finished", "disturbed"}

Init == phase \in {"absent", "waiting"} /\ workers = {}

Move(from, to) ==
    /\ phase \in from /\ phase' = to
    /\ workers' = {}

Insert == Move({"absent"}, "waiting")

(* A worker takes the build, or claims it and fails before it begins. *)
Claim ==
    \/ /\ phase \in {"waiting", "disturbed"} /\ phase' = "running"
       /\ \E w \in Worker : workers' = {w}
    \/ Move({"waiting", "disturbed"}, "orphaned")

(* The worker ends the build, gives it back, or is gone. *)
Finish == Move({"running"}, "finished")
GiveBack == Move({"running"}, "waiting")
Orphan == Move({"running"}, "orphaned")

(* A build nobody executes is stopped, a finished one is to be built again. *)
Stop == Move({"waiting"}, "finished")
Reopen == Move({"finished"}, "waiting")

Disturb == Move(Phase, "disturbed")

Next == \/ Insert \/ Claim \/ Finish \/ GiveBack \/ Orphan \/ Stop \/ Reopen
        \/ Disturb

Step == [Next]_vars

Spec == Init /\ [][Next]_vars
=============================================================================
