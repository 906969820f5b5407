-------------------------- MODULE DeliveryService ---------------------------
(***************************************************************************)
(* What ReportServiceClient promises the orchestrator: a job result handed  *)
(* to notify reaches the report service, or waits on disk until it does or  *)
(* is set aside as a dead letter.  It can be lost only while the client is  *)
(* still trying for the first time: what has reached the disk is safe.      *)
(***************************************************************************)
CONSTANT Notes

VARIABLES
    fate,    \* what became of a notification
    up       \* the client's process runs

Init == fate = [n \in Notes |-> "new"] /\ up = TRUE

Move(n, from, to) == fate[n] = from /\ fate' = [fate EXCEPT ![n] = to]

Take(n)    == up /\ up' = up /\ (Move(n, "new", "trying") \/ Move(n, "new", "refused"))
Keep(n)    == up /\ up' = up /\ Move(n, "trying", "kept")
Bury(n)    == up /\ up' = up /\ Move(n, "kept", "dead")

\* A dead letter can be written again by whoever still took it for pending.
Exhume(n)  == up /\ up' = up /\ Move(n, "dead", "kept")

\* A request may reach the service long after the client gave it up.
Deliver(n) ==
    /\ up' = up
    /\ \E from \in {"trying", "kept", "dead", "lost"} : Move(n, from, "delivered")

\* A process that ends takes the first attempts with it.
Exit ==
    /\ up /\ up' = FALSE
    /\ fate' = [n \in Notes |-> IF fate[n] = "trying" THEN "lost" ELSE fate[n]]

Start == ~up /\ up' = TRUE /\ UNCHANGED fate

Next == Exit \/ Start \/ \E n \in Notes : Take(n) \/ Keep(n) \/ Bury(n) \/ Exhume(n) \/ Deliver(n)

SafeSpec == Init /\ [][Next]_<<fate, up>>

\* Nothing waits for ever while the process runs.
Settle(n) == (up /\ Deliver(n) /\ fate[n] \in {"trying", "kept"}) \/ Keep(n) \/ Bury(n)

Spec == SafeSpec /\ \A n \in Notes : WF_<<fate, up>>(Settle(n))
=============================================================================
