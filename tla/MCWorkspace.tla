------------------------------ MODULE MCWorkspace ------------------------------
(* Instances of Workspace for TLC. *)
EXTENDS Workspace, TLC

CONSTANTS s1, s2, p1, p2, m1, i1, d1

\* One subject with a row of each kind below it, or one whose plan is empty;
\* and another subject to move things to.
Grown == (s1 :> NoRow) @@ (s2 :> NoRow) @@ (p1 :> s1) @@ (p2 :> s2) @@
         (m1 :> p1) @@ (i1 :> m1) @@ (d1 :> s1)
Young == (s1 :> NoRow) @@ (p1 :> s1) @@ (p2 :> s1)

SmallTrees == {Grown, Young}
=============================================================================
