--------------------------- MODULE MCThreadStart ---------------------------
(* ThreadStart for TLC; the configurations give every constant its values.   *)
EXTENDS ThreadStart
=============================================================================
