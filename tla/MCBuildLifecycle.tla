-------------------------- MODULE MCBuildLifecycle --------------------------
(* Instances of BuildLifecycle for TLC: all agents and builds of one       *)
(* platform, or one agent of another platform beside them.                 *)
EXTENDS BuildLifecycle, TLC

CONSTANT Foreign \* the agents of another platform

MCPlatformOf ==
    [x \in Agent \cup Build |-> IF x \in Foreign THEN "windows" ELSE "linux"]

Symmetry == Permutations(Agent) \cup Permutations(Run)
=============================================================================
