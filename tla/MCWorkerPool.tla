---------------------------- MODULE MCWorkerPool ----------------------------
(***************************************************************************)
(* Small pools for TLC.  Tasks are listed in a fixed order so that their    *)
(* rulesets and documents can be given by position.                         *)
(***************************************************************************)
EXTENDS WorkerPool

CONSTANTS t1, t2, t3, k1, k2, d1, d2

\* Two tasks on one ruleset and one document.
OneKey == {k1}
TwoKeys == {k1, k2}
TwoTasks == {t1, t2}
TwoOnOneKey == [t \in {t1, t2} |-> k1]
SameDoc == [t \in {t1, t2} |-> d1]

\* Three tasks compete for one ruleset.
ThreeTasks == {t1, t2, t3}
ThreeOnOneKey == [t \in {t1, t2, t3} |-> k1]
ThreeDocs == (t1 :> d1) @@ (t2 :> d2) @@ (t3 :> d1)
=============================================================================
