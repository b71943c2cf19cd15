----------------------------- MODULE MCCrawling -----------------------------
(* An instance of Crawling for TLC: a branch, of which the second commit   *)
(* changes the path of the repository and the third, which replaces it,    *)
(* changes it in the same way, and a tag; one channel for the branch and   *)
(* one for both.                                                           *)
EXTENDS Crawling

MCAncestry == [s \in Sha |-> {1, s}]
MCContent == [s \in Sha |-> IF s = 1 THEN "initial" ELSE "changed"]
MCMatching == [c \in Channel |-> IF c = "stable" THEN {"main"} ELSE Ref]
=============================================================================
