--------------------------- MODULE MCOrchestrator ----------------------------
(***************************************************************************)
(* Small orchestrators for TLC: the submissions in a fixed order, with the  *)
(* keys, documents and options they need.                                   *)
(***************************************************************************)
EXTENDS Orchestrator, TLC

CONSTANTS s1, s2, k1, d1

\* Two submissions for one document and ruleset.
TwoSubs == {s1, s2}
TwoOnOneKey == (s1 :> k1) @@ (s2 :> k1)
OneKey == {k1}
OneDoc == (k1 :> d1)
=============================================================================
