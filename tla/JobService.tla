----------------------------- MODULE JobService ------------------------------
(***************************************************************************)
(* What JobOrchestrator.submitJob promises the client of POST /lint.  A     *)
(* submission is refused, answered with an earlier job's result, or         *)
(* accepted as a job of its own; an accepted job ends, once, with a stored   *)
(* result that has been reported - unless the process goes away first.      *)
(***************************************************************************)
CONSTANT Subs

VARIABLES
    state,   \* what became of a submission
    up       \* the process runs

Init == state = [s \in Subs |-> "new"] /\ up = TRUE

Move(s, from, to) ==
    /\ up /\ up' = up
    /\ state[s] = from
    /\ state' = [state EXCEPT ![s] = to]

Ask(s)    == Move(s, "new", "asked")
Answer(s) == Move(s, "asked", "refused") \/ Move(s, "asked", "cached") \/ Move(s, "asked", "active")
\* A submission can be refused in the run that reads it.
Refuse(s) == Move(s, "new", "refused")
End(s)    == Move(s, "active", "ended")
Exit      == up /\ up' = FALSE /\ UNCHANGED state

Next == Exit \/ \E s \in Subs : Ask(s) \/ Answer(s) \/ Refuse(s) \/ End(s)

SafeSpec == Init /\ [][Next]_<<state, up>>

\* Every submission is answered and every accepted job ends.
Spec ==
    /\ SafeSpec
    /\ \A s \in Subs : WF_<<state, up>>(Answer(s)) /\ WF_<<state, up>>(End(s))
==============================================================================
