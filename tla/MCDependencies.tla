--------------------------- MODULE MCDependencies ---------------------------
(* An instance of Dependencies for TLC: a library is built from an old and *)
(* a new commit and with two profiles, and an application requires it.     *)
EXTENDS Dependencies, TLC

CONSTANTS old, debug, new, app

MCRecipeOf == [b \in Build |-> IF b = app THEN "app" ELSE "library"]
MCRevisionOf == [b \in Build |-> IF b = new THEN "v2" ELSE "v1"]
MCProfileOf == [b \in Build |-> IF b = debug THEN "debug" ELSE "release"]
MCNeeds == [b \in Build |-> IF b = app THEN {"library"} ELSE {}]

Symmetry == Permutations(Agent)
=============================================================================
