--------------------------- MODULE MCTestRunStore ---------------------------
(***************************************************************************)
(* Instances of TestRunStore for TLC: two results and two step trees, of   *)
(* the same test method or of two.                                         *)
(***************************************************************************)
EXTENDS TestRunStore

CONSTANTS p1, p2, t1, t2, c1, m1, m2

\* p1 is a test of m1 that fails, p2 any other.
MCBatches ==
    {b \in [method : [{p1, p2, t1, t2} -> {m1, m2}],
            status : [{p1, p2} -> {"PASSED", "FAILED", "ABORTED"}]] :
        /\ b.method[p1] = m1 /\ b.method[t1] = m1 /\ b.method[p2] = b.method[t2]
        /\ b.status[p1] = "FAILED"}
=============================================================================
