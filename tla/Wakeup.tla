------------------------------- MODULE Wakeup -------------------------------
(***************************************************************************)
(* What a worker promises to those who trigger it: an endless sequence of  *)
(* iterations, the first of which needs no trigger.  Triggers travel for a *)
(* while; all which arrive while an iteration runs are served together by  *)
(* one further iteration, and each is served by an iteration which begins  *)
(* after the trigger arrived.  A worker that is stopped begins nothing any *)
(* more.                                                                   *)
(***************************************************************************)
EXTENDS Naturals

VARIABLES
    mode,     \* what the worker does: "idle", "busy" or "stopped"
    wanted,   \* an iteration is due
    inflight  \* how many triggers have not arrived yet

vars == <<mode, wanted, inflight>>

Init ==
    /\ mode = "idle"
    /\ wanted = TRUE
    /\ inflight = 0

Trigger ==
    /\ inflight' = inflight + 1
    /\ UNCHANGED <<mode, wanted>>

Arrive ==
    /\ inflight > 0
    /\ inflight' = inflight - 1
    /\ wanted' = (mode # "stopped")
    /\ UNCHANGED mode

Begin ==
    /\ mode = "idle" /\ wanted
    /\ mode' = "busy"
    /\ wanted' = FALSE
    /\ UNCHANGED inflight

End ==
    /\ mode = "busy"
    /\ mode' = "idle"
    /\ UNCHANGED <<wanted, inflight>>

Stop ==
    /\ mode # "stopped"
    /\ mode' = "stopped"
    /\ wanted' = FALSE
    /\ UNCHANGED inflight

Next == Trigger \/ Arrive \/ Begin \/ End \/ Stop

(* Triggers arrive and iterations which are due begin, as long as the      *)
(* worker runs and the iteration before ends.                              *)
Fairness ==
    /\ WF_vars(Arrive /\ mode # "stopped")
    /\ WF_vars(Begin)

Spec == Init /\ [][Next]_vars /\ Fairness
=============================================================================
