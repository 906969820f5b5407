----------------------------- MODULE TaskService -----------------------------
(***************************************************************************)
(* What WorkerPoolManager.executeTask promises its caller, and all that     *)
(* Orchestrator relies on.  A call is accepted and settles later, once,     *)
(* with a result, an error or the error whose code is 'TIMEOUT'; or it is   *)
(* refused at once.  A task that has its result is not called again.        *)
(* Several calls may settle together: one dead thread, or the shutdown of   *)
(* the pool, ends every call that depends on it.                            *)
(***************************************************************************)
CONSTANT Tasks

VARIABLE call   \* the state of the task's last call

Outcomes == {"ok", "failed", "timeout"}

Init == call = [t \in Tasks |-> "none"]

Callable(t) == call[t] \in {"none", "failed", "timeout"}

Begin(t) == Callable(t) /\ call' = [call EXCEPT ![t] = "pending"]

\* The pool is not initialized.
Refuse(t) == Callable(t) /\ call' = [call EXCEPT ![t] = "failed"]

Settle(S) ==
    /\ S # {}
    /\ \A t \in S : call[t] = "pending"
    /\ \E outcome \in [S -> Outcomes] :
          call' = [t \in Tasks |-> IF t \in S THEN outcome[t] ELSE call[t]]

Next ==
    \/ \E t \in Tasks : Begin(t) \/ Refuse(t)
    \/ \E S \in SUBSET Tasks : Settle(S)

SafeSpec == Init /\ [][Next]_call

\* Every accepted call settles.
Spec ==
    /\ SafeSpec
    /\ \A t \in Tasks : WF_call(\E S \in SUBSET Tasks : t \in S /\ Settle(S))
==============================================================================
