--------------------------- MODULE MCLintStorage ---------------------------
(* Instances of LintStorage for TLC.                                         *)
EXTENDS LintStorage

CONSTANTS j1, j2, j3, k1, k2, d1, r1, r2, failed, completed

\* Two jobs of one key and one of another ruleset, all of one document.
TwoOfOneKey == (j1 :> k1) @@ (j2 :> k1) @@ (j3 :> k2)
OneDocument == (k1 :> d1) @@ (k2 :> d1)
TwoRulesets == (k1 :> r1) @@ (k2 :> r2)
OutOfOrder  == (j1 :> 2) @@ (j2 :> 1) @@ (j3 :> 2)
============================================================================
