--------------------------- MODULE MCReportServer ---------------------------
(* Instances of ReportServer for TLC.                                        *)
EXTENDS ReportServer, TLC

CONSTANTS j1, j2, j3, d, e, r, c

Document == (j1 :> d) @@ (j2 :> d) @@ (j3 :> e)
Status == (j1 :> "failed") @@ (j2 :> "completed") @@ (j3 :> "failed")
Times == (j1 :> 0) @@ (j2 :> 1) @@ (j3 :> 3)
Rulesets == (j1 :> 1) @@ (j2 :> 2) @@ (j3 :> 1)
Asked(days, status, dryRun, interactive) ==
    [days |-> days, status |-> status, dryRun |-> dryRun, interactive |-> interactive]
SomeOptions == {Asked(1, None, FALSE, TRUE), Asked(1, "failed", FALSE, FALSE), Asked(0, "failed", FALSE, TRUE),
                Asked(1, None, TRUE, TRUE)}
=============================================================================
