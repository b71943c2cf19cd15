-------------------------- MODULE MCCommitPipeline --------------------------
(* Instances of CommitPipeline for TLC: every line is built with every     *)
(* profile except that Excluded lines are built with none.                 *)
EXTENDS CommitPipeline, TLC

CONSTANTS Excluded, WindowsProfile

MCProfilesOf == [l \in Line |-> IF l \in Excluded THEN {} ELSE Profile]
MCPlatformOf ==
    [p \in Profile |-> IF p \in WindowsProfile THEN "windows" ELSE "linux"]

Symmetry == Permutations(Sha)
=============================================================================
