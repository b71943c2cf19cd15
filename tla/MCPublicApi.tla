---------------------------- MODULE MCPublicApi -----------------------------
(* An instance of PublicApi for TLC: two users, an ecosystem with a        *)
(* repository and a profile, and a commit and a build of them.  A channel  *)
(* is to an ecosystem and to a commit what a repository is.                *)
EXTENDS PublicApi, TLC

CONSTANTS t1, t2

MCKind ==
    [x \in Row |-> IF x \in {"ann", "bob"} THEN "user" ELSE x]
MCRefs ==
    [x \in Row |-> CASE x \in {"repo", "profile"} -> {"ecosystem"}
                     [] x = "commit" -> {"repo"}
                     [] x = "build" -> {"commit", "profile"}
                     [] OTHER -> {}]

Symmetry == Permutations(Thread)
=============================================================================
