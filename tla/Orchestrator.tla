---------------------------- MODULE Orchestrator -----------------------------
(***************************************************************************)
(* JobOrchestrator (packages/orchestrator/src/orchestrator.ts): admission   *)
(* of lint jobs, the result cache in front of them, the retry loop that     *)
(* runs a job on the worker pool, and the steps that end it.                *)
(*                                                                          *)
(* An action is a run of the code from one await to the next.  A job has a  *)
(* single task, so a submission, its job and its task have one name.  The   *)
(* worker pool is used through TaskService, which WorkerPool implements;    *)
(* the results are kept in a LintCache.                                     *)
(***************************************************************************)
EXTENDS Integers, FiniteSets

CONSTANTS
    Subs,            \* submissions: POST /lint requests
    Keys,            \* document + ruleset name + version
    Docs,
    KeyOf,           \* the key a submission names
    DocOf,           \* the document of a key
    Overridden,      \* submissions with ruleOverrides
    Forced,          \* submissions with options.forceRun
    EnableCache,     \* config.enableCache
    MaxConcurrent,   \* config.maxConcurrentJobs
    MaxAttempts,     \* task.maxAttempts
    NoJob

ASSUME OrchestratorAssumption ==
    /\ IsFiniteSet(Subs)
    /\ KeyOf \in [Subs -> Keys]
    /\ DocOf \in [Keys -> Docs]
    /\ Overridden \subseteq Subs
    /\ Forced \subseteq Subs
    /\ EnableCache \in BOOLEAN
    /\ MaxConcurrent \in Nat
    /\ MaxAttempts \in Nat \ {0}
    /\ NoJob \notin Subs

VARIABLES
    phase,           \* initialized, and how far shutdown has come
    pc,              \* where submitJob stands for a submission
    answer,          \* the job id submitJob returned
    status,          \* LintJob.status in the jobs map ("none": not there)
    step,            \* where executeJob and its handlers stand
    attempt,         \* attempt of executeTaskWithRetry
    call,            \* the state of the task in the pool (TaskService)
    results, latest, \* the result storage (LintCache)
    dropped,         \* history: jobs whose result was invalidated
    activeJobCount,
    reports          \* times the outcome of a job was sent out

subVars == <<pc, answer>>
jobVars == <<status, step, attempt, reports>>
cacheVars == <<results, latest, dropped>>
vars == <<phase, subVars, jobVars, call, cacheVars, activeJobCount>>

Pool == INSTANCE TaskService WITH Tasks <- Subs
Cache == INSTANCE LintCache WITH Jobs <- Subs

Final == {"completed", "completed_with_errors", "timeout", "failed"}
Active == {"calling", "backoff", "broken", "delivering", "settling"}

Up == phase # "exited"     \* the process runs

Initialized == phase \in {"ready", "draining"}

\* The jobs accepted and not yet over.
ActiveJobs == {s \in Subs : step[s] \in Active}

\* checkCache is skipped for a forced run and when there are overrides.
ReadsCache(s) == EnableCache /\ s \notin Forced \cup Overridden

\* Mutant: a timeout is final.
LastAttemptOrTimeout(s) == attempt[s] = MaxAttempts \/ call[s] = "timeout"

LastAttempt(s) == attempt[s] = MaxAttempts

-----------------------------------------------------------------------------
Init ==
    /\ phase = "new"
    /\ pc = [s \in Subs |-> "new"]
    /\ answer = [s \in Subs |-> NoJob]
    /\ status = [s \in Subs |-> "none"]
    /\ step = [s \in Subs |-> "none"]
    /\ attempt = [s \in Subs |-> 0]
    /\ Pool!Init
    /\ Cache!Init
    /\ dropped = {}
    /\ activeJobCount = 0
    /\ reports = [s \in Subs |-> 0]

\* initialize; the worker pool is open by now.
Initialize ==
    /\ phase = "new"
    /\ phase' = "ready"
    /\ UNCHANGED <<subVars, jobVars, call, cacheVars, activeJobCount>>

-----------------------------------------------------------------------------
(* submitJob                                                                *)

Moves(s, to) == pc' = [pc EXCEPT ![s] = to] /\ UNCHANGED answer

\* The checks made before the first await.  Capacity is checked here and
\* counted in Accept.  exists() reads the index in the same run.
Submit(s) ==
    /\ Up
    /\ pc[s] = "new"
    /\ \/ ~Initialized /\ Moves(s, "error")
       \/ /\ Initialized
          /\ activeJobCount >= MaxConcurrent
          /\ Moves(s, "rejected")
       \/ /\ Initialized
          /\ activeJobCount < MaxConcurrent
          /\ Moves(s, IF ReadsCache(s) /\ latest[KeyOf[s]] # NoJob
                      THEN "retrieving" ELSE "resolving")
    /\ UNCHANGED <<phase, jobVars, call, cacheVars, activeJobCount>>

\* Mutant: exists() is trusted, and what retrieveJob finds taken for a result.
RetrieveTrusting(s) ==
    /\ Up
    /\ pc[s] = "retrieving"
    /\ pc' = [pc EXCEPT ![s] = "hit"]
    /\ answer' = [answer EXCEPT ![s] = latest[KeyOf[s]]]
    /\ UNCHANGED <<phase, jobVars, call, cacheVars, activeJobCount>>

\* retrieveJob: the entry exists() saw may have gone, or may be newer.
Retrieve(s) ==
    /\ Up
    /\ pc[s] = "retrieving"
    /\ LET cached == latest[KeyOf[s]]
       IN  \/ cached = NoJob /\ Moves(s, "resolving")
           \/ /\ cached # NoJob
              /\ pc' = [pc EXCEPT ![s] = "hit"]
              /\ answer' = [answer EXCEPT ![s] = cached]
    /\ UNCHANGED <<phase, jobVars, call, cacheVars, activeJobCount>>

\* documentExists is false, or it, getMetadata or getDocumentPath throws.
ResolveFail(s) ==
    /\ Up
    /\ pc[s] = "resolving"
    /\ Moves(s, "error")
    /\ UNCHANGED <<phase, jobVars, call, cacheVars, activeJobCount>>

\* executeTask, called whatever became of an earlier call.  The pool is shut
\* down after the orchestrator, and may then refuse.
CallPool(s) ==
    \/ call' = [call EXCEPT ![s] = "pending"]
    \/ ~Initialized /\ call' = [call EXCEPT ![s] = "failed"]

\* The document is there: the job enters the jobs map and is counted, and
\* executeJob runs up to its first call of the pool.  Neither the capacity nor
\* whether the orchestrator still accepts jobs is looked at again.
Accept(s) ==
    /\ Up
    /\ pc[s] = "resolving"
    /\ pc' = [pc EXCEPT ![s] = "accepted"]
    /\ answer' = [answer EXCEPT ![s] = s]
    /\ status' = [status EXCEPT ![s] = "running"]
    /\ step' = [step EXCEPT ![s] = "calling"]
    /\ attempt' = [attempt EXCEPT ![s] = 1]
    /\ CallPool(s)
    /\ activeJobCount' = activeJobCount + 1
    /\ UNCHANGED <<phase, reports, cacheVars>>

-----------------------------------------------------------------------------
(* executeTaskWithRetry                                                     *)

\* Mutant: an attempt that is slow to answer is given up and retried.
AttemptFailedOrSlow(s) ==
    /\ Up
    /\ step[s] = "calling"
    /\ call[s] \in {"failed", "timeout", "pending"}
    /\ ~LastAttempt(s)
    /\ step' = [step EXCEPT ![s] = "backoff"]
    /\ UNCHANGED <<phase, subVars, status, attempt, reports, call, cacheVars, activeJobCount>>

\* A failed attempt that is not the last waits for its back-off timer.
AttemptFailed(s) ==
    /\ Up
    /\ step[s] = "calling"
    /\ call[s] \in {"failed", "timeout"}
    /\ ~LastAttempt(s)
    /\ step' = [step EXCEPT ![s] = "backoff"]
    /\ UNCHANGED <<phase, subVars, status, attempt, reports, call, cacheVars, activeJobCount>>

\* Mutant: nobody retries once shutdown has begun.
RetryWhileReady(s) ==
    /\ Up
    /\ step[s] = "backoff"
    /\ phase = "ready"
    /\ step' = [step EXCEPT ![s] = "calling"]
    /\ attempt' = [attempt EXCEPT ![s] = @ + 1]
    /\ CallPool(s)
    /\ UNCHANGED <<phase, subVars, status, reports, cacheVars, activeJobCount>>

Retry(s) ==
    /\ Up
    /\ step[s] = "backoff"
    /\ step' = [step EXCEPT ![s] = "calling"]
    /\ attempt' = [attempt EXCEPT ![s] = @ + 1]
    /\ CallPool(s)
    /\ UNCHANGED <<phase, subVars, status, reports, cacheVars, activeJobCount>>

-----------------------------------------------------------------------------
(* executeJob after its task, and the handlers on its promise               *)

\* The status by which the outcome of the task shows.  Collecting the issues
\* of a good result can throw (a push of too many arguments): it then counts
\* as completed and as failed.
JobStatus(outcome) ==
    CASE outcome = "ok"      -> {"completed", "completed_with_errors"}
      [] outcome = "timeout" -> {"timeout"}
      [] outcome = "failed"  -> {"completed_with_errors"}

\* The task has its last outcome: the status is set, the result aggregated and
\* stored.  If the aggregation throws, the rest is left to the catch handler.
Conclude(s) ==
    /\ Up
    /\ step[s] = "calling"
    /\ \/ call[s] = "ok"
       \/ call[s] \in {"failed", "timeout"} /\ LastAttempt(s)
    /\ \E final \in JobStatus(call[s]) : status' = [status EXCEPT ![s] = final]
    /\ \/ step' = [step EXCEPT ![s] = "delivering"] /\ Cache!Store(s)
       \/ step' = [step EXCEPT ![s] = "broken"] /\ UNCHANGED <<results, latest>>
    /\ UNCHANGED <<phase, subVars, attempt, reports, call, dropped, activeJobCount>>

\* The report service and the callback are told of the outcome.
Report(s) == reports' = [reports EXCEPT ![s] = @ + 1]

\* Mutant: the notification is awaited, and its error reaches the catch handler.
DeliverOrBreak(s) ==
    /\ Up
    /\ step[s] = "delivering"
    /\ \E next \in {"settling", "broken"} : step' = [step EXCEPT ![s] = next]
    /\ Report(s)
    /\ UNCHANGED <<phase, subVars, status, attempt, call, cacheVars, activeJobCount>>

\* Report(s) starts notifyReportService and deliverCallback, neither waited for:
\* whatever they await, and however they fail, changes nothing here.
Deliver(s) ==
    /\ Up
    /\ step[s] = "delivering"
    /\ step' = [step EXCEPT ![s] = "settling"]
    /\ Report(s)
    /\ UNCHANGED <<phase, subVars, status, attempt, call, cacheVars, activeJobCount>>

\* Mutant: the catch handler gives the place of the job back, as finally does.
BreakAndRelease(s) ==
    /\ Up
    /\ step[s] = "broken"
    /\ step' = [step EXCEPT ![s] = "settling"]
    /\ status' = [status EXCEPT ![s] = "failed"]
    /\ Cache!Store(s)
    /\ reports' = [reports EXCEPT ![s] = @ + 1]
    /\ activeJobCount' = activeJobCount - 1
    /\ UNCHANGED <<phase, subVars, attempt, call, dropped>>

\* The catch handler: a failure result is stored and sent out.
Break(s) ==
    /\ Up
    /\ step[s] = "broken"
    /\ step' = [step EXCEPT ![s] = "settling"]
    /\ status' = [status EXCEPT ![s] = "failed"]
    /\ Cache!Store(s)
    /\ Report(s)
    /\ UNCHANGED <<phase, subVars, attempt, call, dropped, activeJobCount>>

\* The finally handler.
Release(s) ==
    /\ Up
    /\ step[s] = "settling"
    /\ step' = [step EXCEPT ![s] = "done"]
    /\ activeJobCount' = activeJobCount - 1
    /\ UNCHANGED <<phase, subVars, status, attempt, reports, call, cacheVars>>

-----------------------------------------------------------------------------
(* invalidateCache and shutdown                                             *)

\* A running job of the document is not touched, nor will its result be.
Invalidate(d) ==
    /\ Up
    /\ \E j \in results : DocOf[KeyOf[j]] = d
    /\ Cache!Drop(d)
    /\ dropped' = dropped \cup (results \ results')
    /\ UNCHANGED <<phase, subVars, jobVars, call, activeJobCount>>

\* The jobs getStats counts as running.
Running == {s \in Subs : status[s] = "running"}

\* Submissions are still accepted while shutdown polls the running jobs.
BeginShutdown ==
    /\ phase = "ready"
    /\ phase' = "draining"
    /\ UNCHANGED <<subVars, jobVars, call, cacheVars, activeJobCount>>

\* No job runs, or the 30 seconds are over.
EndShutdown ==
    /\ phase = "draining"
    /\ \/ Running = {} /\ phase' = "closed"
       \/ Running # {} /\ phase' = "expired"
    /\ UNCHANGED <<subVars, jobVars, call, cacheVars, activeJobCount>>

\* The pool and the HTTP server have closed: process.exit.
Exit ==
    /\ phase \in {"closed", "expired"}
    /\ phase' = "exited"
    /\ UNCHANGED <<subVars, jobVars, call, cacheVars, activeJobCount>>

-----------------------------------------------------------------------------
\* The pool's part: calls settle when it likes, several at once if it likes.
PoolSettles ==
    /\ Up
    /\ \E S \in SUBSET Subs : Pool!Settle(S)
    /\ UNCHANGED <<phase, subVars, jobVars, cacheVars, activeJobCount>>

Admission(s) == Retrieve(s) \/ ResolveFail(s) \/ Accept(s)

Execution(s) ==
    \/ AttemptFailed(s) \/ Retry(s) \/ Conclude(s)
    \/ Deliver(s) \/ Break(s) \/ Release(s)

Next ==
    \/ Initialize \/ BeginShutdown \/ EndShutdown \/ Exit
    \/ \E s \in Subs : Submit(s) \/ Admission(s) \/ Execution(s)
    \/ \E d \in Docs : Invalidate(d)
    \/ PoolSettles

Spec == Init /\ [][Next]_vars

\* The event loop and file access go on while the process lives, and the pool
\* settles what it took, as TaskService!Spec says.  Clients, shutdown and
\* invalidation owe nothing.
Fairness ==
    \A s \in Subs :
        /\ WF_vars(Admission(s))
        /\ WF_vars(Execution(s))
        /\ WF_vars(PoolSettles /\ call[s] = "pending" /\ call'[s] # "pending")

FairSpec == Spec /\ Fairness

-----------------------------------------------------------------------------
(* Invariants                                                               *)

TypeOK ==
    /\ phase \in {"new", "ready", "draining", "closed", "expired", "exited"}
    /\ pc \in [Subs -> {"new", "rejected", "error", "retrieving", "resolving", "hit", "accepted"}]
    /\ answer \in [Subs -> Subs \cup {NoJob}]
    /\ status \in [Subs -> {"none", "running"} \cup Final]
    /\ step \in [Subs -> {"none", "done"} \cup Active]
    /\ attempt \in [Subs -> 0..MaxAttempts]
    /\ call \in [Subs -> {"none", "pending"} \cup Pool!Outcomes]
    /\ results \in SUBSET Subs
    /\ latest \in [Keys -> Subs \cup {NoJob}]
    /\ dropped \in SUBSET Subs
    /\ activeJobCount \in Nat
    /\ reports \in [Subs -> Nat]

\* The counter that stands for an iteration over the jobs (89, 280, 330) is
\* exact: it counts the jobs accepted and not yet over, whichever way they end.
ActiveIsCounted == activeJobCount = Cardinality(ActiveJobs)

\* A job that has been reported can be looked up (477-483 and 313-316), unless
\* the cache was invalidated since: the failure path stores a result as well.
ReportedIsStored == \A s \in Subs : reports[s] > 0 => s \in results \cup dropped

\* The report service and the callback hear of a job once, and of every job
\* that is over, on the normal path (485-497) and on the failure path (318-328).
ReportedOnce ==
    \A s \in Subs : reports[s] <= 1 /\ (step[s] = "done" => reports[s] = 1)

\* What a job has told the world agrees with where it is: it is reported and stored,
\* once, by whichever of its ends came first.
JobsAreConsistent == TypeOK /\ ReportedIsStored /\ ReportedOnce

\* A cache hit (220-227) answers with a job that is over, that asked for the
\* same document and ruleset, and only a submission that allows it.
HitIsFinished ==
    \A s \in Subs : pc[s] = "hit" =>
        /\ ReadsCache(s)
        /\ answer[s] \in Subs
        /\ KeyOf[answer[s]] = KeyOf[s]
        /\ status[answer[s]] \in Final

\* A job is given up for its task (511-547) only when every attempt was used.
GivesUpLast ==
    \A s \in Subs :
        status[s] \in {"timeout", "completed_with_errors"} =>
            call[s] = "ok" \/ attempt[s] = MaxAttempts

-----------------------------------------------------------------------------
(* Action properties, liveness and refinement                               *)

\* The status a client can read with a stored result is the last: 420-428 and
\* the catch handler (287) never both have their say about a reported job.
FinalIsFinal == [][\A s \in Subs : reports[s] > 0 => status'[s] = status[s]]_vars

\* The orchestrator uses the pool as TaskService lets it: a task is called
\* again only when its last call has settled and failed.
UsesPoolAsAgreed == Pool!SafeSpec

SubState(s) ==
    CASE pc[s] = "new" -> "new"
      [] pc[s] \in {"retrieving", "resolving"} -> "asked"
      [] pc[s] \in {"error", "rejected"} -> "refused"
      [] pc[s] = "hit" -> "cached"
      [] pc[s] = "accepted" /\ step[s] # "done" -> "active"
      [] pc[s] = "accepted" /\ step[s] = "done" -> "ended"

Service == INSTANCE JobService WITH state <- [s \in Subs |-> SubState(s)],
                                    up <- Up

\* Every submission is answered and every accepted job ends, through failures,
\* retries and an orderly shutdown, as long as the process is there.
ImplementsJobService == Service!Spec

-----------------------------------------------------------------------------
(* What a comment and a design document say, and the code does not do: the    *)
(* property of a run that refutes it.                                         *)

\* "overrides make results unique" (585): no submission is answered with the
\* result of a job that had rule overrides.
OverridesAreUnique ==
    \A s \in Subs : pc[s] = "hit" => answer[s] \notin Overridden
=============================================================================
