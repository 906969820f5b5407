----------------------------- MODULE MCHttpApi -----------------------------
(* Instances of HttpApi for TLC.                                             *)
EXTENDS HttpApi

CONSTANTS j1, j2, j3, k1, k2, d1, r1, r2, timeout, completed, a, b, c, p, pp

\* Two jobs of one key and one of another ruleset, all of one document.
TwoOfOneKey == (j1 :> k1) @@ (j2 :> k1) @@ (j3 :> k2)
OneDocument == (k1 :> d1) @@ (k2 :> d1)
TwoRulesets == (k1 :> r1) @@ (k2 :> r2)
OutOfOrder  == (j1 :> 2) @@ (j2 :> 1) @@ (j3 :> 2)

\* Issues of three rules, on a path and one whose text starts with that of the
\* other; the jobs of the first key turn a rule off and lower another.
Diagnostics ==
    (j1 :> << [code |-> a, severity |-> 0, path |-> p], [code |-> b, severity |-> 1, path |-> pp],
              [code |-> c, severity |-> 0, path |-> p], [code |-> a, severity |-> 3, path |-> p] >>) @@
    (j2 :> << [code |-> b, severity |-> 0, path |-> pp] >>) @@
    (j3 :> <<>>)

Changed == [j \in {j1, j2} |-> (b :> 2) @@ (c :> Off)] @@ (j3 :> <<>>)

TextOf == {<<p, p>>, <<pp, pp>>, <<pp, p>>}

Asked == {[by |-> "rule", is |-> a], [by |-> "severity", is |-> 0],
          [by |-> "severity", is |-> 2], [by |-> "path", is |-> p]}
=============================================================================
