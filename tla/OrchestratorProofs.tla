------------------------- MODULE OrchestratorProofs --------------------------
(***************************************************************************)
(* Theorems about Orchestrator, for every set of submissions, documents and *)
(* rulesets, every capacity and every number of attempts.                   *)
(***************************************************************************)
EXTENDS Orchestrator, TLAPS, FiniteSetTheorems

(***************************************************************************)
(* The inductive invariant: where a job stands determines everything else   *)
(* that is known of it.                                                     *)
(***************************************************************************)
Ended  == {"delivering", "settling", "done"}    \* the steps after a result is stored

\* The steps of a job, with its status, its attempts and its reports.
JobOK(s) ==
    /\ step[s] = "none" <=> pc[s] # "accepted"
    /\ step[s] = "none" => /\ status[s] = "none" /\ call[s] = "none"
                           /\ attempt[s] = 0 /\ reports[s] = 0
    /\ step[s] \in {"calling", "backoff"} => status[s] = "running" /\ reports[s] = 0
    /\ step[s] = "calling" => call[s] # "none"
    /\ step[s] = "backoff" => call[s] \in {"failed", "timeout"} /\ attempt[s] < MaxAttempts
    /\ step[s] \in Ended \cup {"broken"} =>
          /\ status[s] \in Final
          /\ call[s] = "ok" \/ (call[s] \in {"failed", "timeout"} /\ attempt[s] = MaxAttempts)
    /\ step[s] \in {"broken", "delivering"} => reports[s] = 0
    /\ step[s] \in {"settling", "done"} => reports[s] = 1
    /\ step[s] \in Ended => s \in results \cup dropped

\* Only jobs that have ended are in the cache, under their own key, or have
\* been handed out from it.
KeyOK(k) ==
    latest[k] # NoJob => step[latest[k]] \in Ended /\ KeyOf[latest[k]] = k

SubOK(s) ==
    /\ pc[s] = "retrieving" => ReadsCache(s)
    /\ pc[s] = "hit" => /\ ReadsCache(s)
                        /\ answer[s] \in Subs
                        /\ KeyOf[answer[s]] = KeyOf[s]
                        /\ step[answer[s]] \in Ended

CacheOK ==
    /\ \A k \in Keys : KeyOK(k)
    /\ \A s \in Subs : SubOK(s)

IInv == TypeOK /\ ActiveIsCounted /\ (\A s \in Subs : JobOK(s)) /\ CacheOK

-----------------------------------------------------------------------------
(* Counting the active jobs                                                 *)

\* The jobs accepted and not over are finitely many, and one that enters or
\* leaves them changes their number by one.
LEMMA ActiveCard ==
    /\ IsFiniteSet(ActiveJobs)
    /\ Cardinality(ActiveJobs) \in Nat
    /\ \A s \in Subs :
          /\ s \notin ActiveJobs => Cardinality(ActiveJobs \cup {s}) = Cardinality(ActiveJobs) + 1
          /\ s \in ActiveJobs => /\ Cardinality(ActiveJobs \ {s}) = Cardinality(ActiveJobs) - 1
                                 /\ Cardinality(ActiveJobs \ {s}) \in Nat
<1>1. ActiveJobs \subseteq Subs
  BY DEF ActiveJobs
<1>2. IsFiniteSet(ActiveJobs)
  BY <1>1, OrchestratorAssumption, FS_Subset
<1>3. ASSUME NEW s \in Subs
      PROVE  /\ IsFiniteSet(ActiveJobs \ {s})
             /\ s \notin ActiveJobs => Cardinality(ActiveJobs \cup {s}) = Cardinality(ActiveJobs) + 1
             /\ s \in ActiveJobs => Cardinality(ActiveJobs \ {s}) = Cardinality(ActiveJobs) - 1
  BY <1>2, FS_AddElement, FS_RemoveElement
<1>4. QED
  BY <1>2, <1>3, FS_CardinalityType

\* The invariant holds at the start.
LEMMA InitInv == Init => IInv
<1> SUFFICES ASSUME Init PROVE IInv
  OBVIOUS
<1> USE DEF Init, Pool!Init, Cache!Init
<1>1. TypeOK
  BY OrchestratorAssumption DEF TypeOK
<1>2. ActiveIsCounted
  <2>1. ActiveJobs = {}
    BY DEF ActiveJobs, Active
  <2>2. QED
    BY <2>1, FS_EmptySet DEF ActiveIsCounted
<1>3. \A s \in Subs : JobOK(s)
  BY DEF JobOK, Ended
<1>4. CacheOK
  BY DEF CacheOK, KeyOK, SubOK
<1>5. QED
  BY <1>1, <1>2, <1>3, <1>4 DEF IInv

-----------------------------------------------------------------------------
(* The steps of one job                                                     *)

\* A step of a job or of its submission leaves the other jobs alone.
Other(s) == \A u \in Subs \ {s} :
    /\ pc'[u] = pc[u] /\ answer'[u] = answer[u] /\ status'[u] = status[u]
    /\ step'[u] = step[u] /\ attempt'[u] = attempt[u] /\ call'[u] = call[u]
    /\ reports'[u] = reports[u]

\* What is active changes at most by the job that moves.
LEMMA CountStep ==
    ASSUME TypeOK, ActiveIsCounted, NEW s \in Subs,
           step' \in [Subs -> {"none", "done"} \cup Active],
           \A u \in Subs \ {s} : step'[u] = step[u],
           step[s] \notin Active /\ step'[s] \in Active => activeJobCount' = activeJobCount + 1,
           step[s] \in Active /\ step'[s] \notin Active => activeJobCount' = activeJobCount - 1,
           (step[s] \in Active <=> step'[s] \in Active) => activeJobCount' = activeJobCount
    PROVE  ActiveIsCounted' /\ activeJobCount' \in Nat
<1>1. ActiveJobs' = IF step'[s] \in Active THEN ActiveJobs \cup {s} ELSE ActiveJobs \ {s}
  BY DEF ActiveJobs
<1>2. s \in ActiveJobs <=> step[s] \in Active
  BY DEF ActiveJobs
<1>3. activeJobCount = Cardinality(ActiveJobs) /\ activeJobCount \in Nat
  BY DEF ActiveIsCounted, TypeOK
<1>4. CASE step[s] \notin Active /\ step'[s] \in Active
  <2>1. ActiveJobs' = ActiveJobs \cup {s} /\ s \notin ActiveJobs
    BY <1>1, <1>2, <1>4
  <2>2. activeJobCount' = activeJobCount + 1
    BY <1>3, <1>4
  <2>3. QED
    BY <1>3, <2>1, <2>2, ActiveCard DEF ActiveIsCounted
<1>5. CASE step[s] \in Active /\ step'[s] \notin Active
  <2>1. ActiveJobs' = ActiveJobs \ {s} /\ s \in ActiveJobs
    BY <1>1, <1>2, <1>5
  <2>2. activeJobCount' = activeJobCount - 1
    BY <1>3, <1>5
  <2>3. QED
    BY <1>3, <2>1, <2>2, ActiveCard DEF ActiveIsCounted
<1>6. CASE step[s] \in Active <=> step'[s] \in Active
  <2>1. ActiveJobs' = ActiveJobs
    BY <1>1, <1>2, <1>6
  <2>2. activeJobCount' = activeJobCount
    BY <1>3, <1>6
  <2>3. QED
    BY <1>3, <2>1, <2>2 DEF ActiveIsCounted
<1>7. QED
  BY <1>4, <1>5, <1>6

\* A job stays as it is when its own part of the state, and what is stored of
\* it, does.
LEMMA JobFrame ==
    ASSUME NEW s \in Subs, JobOK(s),
           pc'[s] = pc[s], status'[s] = status[s], step'[s] = step[s],
           attempt'[s] = attempt[s], call'[s] = call[s], reports'[s] = reports[s],
           s \in results \cup dropped => s \in results' \cup dropped'
    PROVE  JobOK(s)'
  BY DEF JobOK, Ended

\* The cache stays as it should when jobs that have ended stay so.
LEMMA CacheFrame ==
    ASSUME CacheOK, UNCHANGED <<pc, answer, latest>>,
           \A u \in Subs : step[u] \in Ended => step'[u] \in Ended,
           latest \in [Keys -> Subs \cup {NoJob}]
    PROVE  CacheOK'
<1>1. \A k \in Keys : KeyOK(k)'
  BY DEF CacheOK, KeyOK
<1>2. \A s \in Subs : SubOK(s)'
  BY DEF CacheOK, SubOK, ReadsCache
<1>3. QED
  BY <1>1, <1>2 DEF CacheOK

-----------------------------------------------------------------------------
(* The invariant is inductive: one lemma per action                         *)

\* A submission read by submitJob: only its own place changes.
LEMMA SubmitStep ==
    ASSUME IInv, NEW s \in Subs, Submit(s)
    PROVE  IInv'
<1> USE DEF IInv
<1>0. /\ \E to \in {"error", "rejected", "retrieving", "resolving"} :
            /\ pc' = [pc EXCEPT ![s] = to]
            /\ to = "retrieving" => ReadsCache(s)
      /\ pc[s] = "new"
      /\ UNCHANGED <<phase, answer, status, step, attempt, reports, call,
                     results, latest, dropped, activeJobCount>>
  BY DEF Submit, Moves, jobVars, cacheVars
<1>1. TypeOK'
  BY <1>0 DEF TypeOK
<1>2. ActiveIsCounted'
  BY <1>0 DEF ActiveIsCounted, ActiveJobs
<1>3. ASSUME NEW u \in Subs PROVE JobOK(u)'
  <2>1. (pc'[u] # "accepted") <=> (pc[u] # "accepted")
    BY <1>0 DEF TypeOK
  <2>2. QED
    BY <1>0, <2>1 DEF JobOK
<1>4. CacheOK'
  <2>1. \A k \in Keys : KeyOK(k)'
    BY <1>0 DEF CacheOK, KeyOK
  <2>2. ASSUME NEW u \in Subs PROVE SubOK(u)'
    BY <1>0 DEF CacheOK, SubOK, ReadsCache, TypeOK
  <2>3. QED
    BY <2>1, <2>2 DEF CacheOK
<1>5. QED
  BY <1>1, <1>2, <1>3, <1>4

\* The answer of the cache is a job that has ended, because latest holds no other.
LEMMA RetrieveStep ==
    ASSUME IInv, NEW s \in Subs, Retrieve(s)
    PROVE  IInv'
<1> USE DEF IInv
<1>0. /\ pc[s] = "retrieving"
      /\ \/ pc' = [pc EXCEPT ![s] = "resolving"] /\ answer' = answer
         \/ /\ latest[KeyOf[s]] # NoJob
            /\ pc' = [pc EXCEPT ![s] = "hit"]
            /\ answer' = [answer EXCEPT ![s] = latest[KeyOf[s]]]
      /\ UNCHANGED <<phase, status, step, attempt, reports, call,
                     results, latest, dropped, activeJobCount>>
  BY DEF Retrieve, Moves, jobVars, cacheVars
<1>a. KeyOf[s] \in Keys /\ latest[KeyOf[s]] \in Subs \cup {NoJob}
  BY OrchestratorAssumption DEF TypeOK
<1>1. TypeOK'
  BY <1>0, <1>a DEF TypeOK
<1>2. ActiveIsCounted'
  BY <1>0 DEF ActiveIsCounted, ActiveJobs
<1>3. ASSUME NEW u \in Subs PROVE JobOK(u)'
  <2>1. (pc'[u] # "accepted") <=> (pc[u] # "accepted")
    BY <1>0 DEF TypeOK
  <2>2. QED
    BY <1>0, <2>1 DEF JobOK
<1>4. CacheOK'
  <2>1. \A k \in Keys : KeyOK(k)'
    BY <1>0 DEF CacheOK, KeyOK
  <2>2. SubOK(s)'
    <3>1. KeyOK(KeyOf[s]) /\ ReadsCache(s)
      BY <1>0, <1>a DEF CacheOK, SubOK
    <3>2. QED
      BY <1>0, <1>a, <3>1 DEF SubOK, KeyOK, ReadsCache, TypeOK
  <2>3. ASSUME NEW u \in Subs, u # s PROVE SubOK(u)'
    BY <1>0, <2>3 DEF CacheOK, SubOK, ReadsCache, TypeOK
  <2>4. QED
    BY <2>1, <2>2, <2>3 DEF CacheOK
<1>5. QED
  BY <1>1, <1>2, <1>3, <1>4

\* A submission whose document or ruleset cannot be resolved leaves no job.
LEMMA ResolveFailStep ==
    ASSUME IInv, NEW s \in Subs, ResolveFail(s)
    PROVE  IInv'
<1> USE DEF IInv
<1>0. /\ pc[s] = "resolving" /\ pc' = [pc EXCEPT ![s] = "error"]
      /\ UNCHANGED <<phase, answer, status, step, attempt, reports, call,
                     results, latest, dropped, activeJobCount>>
  BY DEF ResolveFail, Moves, jobVars, cacheVars
<1>1. TypeOK'
  BY <1>0 DEF TypeOK
<1>2. ActiveIsCounted'
  BY <1>0 DEF ActiveIsCounted, ActiveJobs
<1>3. ASSUME NEW u \in Subs PROVE JobOK(u)'
  <2>1. (pc'[u] # "accepted") <=> (pc[u] # "accepted")
    BY <1>0 DEF TypeOK
  <2>2. QED
    BY <1>0, <2>1 DEF JobOK
<1>4. CacheOK'
  <2>1. \A k \in Keys : KeyOK(k)'
    BY <1>0 DEF CacheOK, KeyOK
  <2>2. ASSUME NEW u \in Subs PROVE SubOK(u)'
    BY <1>0 DEF CacheOK, SubOK, ReadsCache, TypeOK
  <2>3. QED
    BY <2>1, <2>2 DEF CacheOK
<1>5. QED
  BY <1>1, <1>2, <1>3, <1>4

\* A new job enters, is counted, and is in no cache entry.
LEMMA AcceptStep ==
    ASSUME IInv, NEW s \in Subs, Accept(s)
    PROVE  IInv'
<1> USE DEF IInv
<1>0. /\ pc[s] = "resolving" /\ step[s] = "none" /\ reports[s] = 0
      /\ pc' = [pc EXCEPT ![s] = "accepted"]
      /\ answer' = [answer EXCEPT ![s] = s]
      /\ status' = [status EXCEPT ![s] = "running"]
      /\ step' = [step EXCEPT ![s] = "calling"]
      /\ attempt' = [attempt EXCEPT ![s] = 1]
      /\ \E c \in {"pending", "failed"} : call' = [call EXCEPT ![s] = c]
      /\ activeJobCount' = activeJobCount + 1
      /\ UNCHANGED <<phase, reports, results, latest, dropped>>
  BY DEF Accept, CallPool, JobOK, cacheVars
<1>1. TypeOK' /\ ActiveIsCounted'
  <2>1. step' \in [Subs -> {"none", "done"} \cup Active]
    BY <1>0 DEF TypeOK, Active
  <2>2. step[s] \notin Active /\ step'[s] \in Active
    BY <1>0 DEF TypeOK, Active
  <2>3. \A u \in Subs \ {s} : step'[u] = step[u]
    BY <1>0 DEF TypeOK
  <2>4. ActiveIsCounted' /\ activeJobCount' \in Nat
    BY <1>0, <2>1, <2>2, <2>3, CountStep
  <2>5. QED
    BY <1>0, <2>1, <2>4, OrchestratorAssumption DEF TypeOK, Pool!Outcomes
<1>2. ASSUME NEW u \in Subs PROVE JobOK(u)'
  <2>1. CASE u = s
    BY <1>0, <2>1 DEF JobOK, TypeOK, Ended
  <2>2. CASE u # s
    BY <1>0, <2>2, JobFrame DEF TypeOK
  <2>3. QED
    BY <2>1, <2>2
<1>3. CacheOK'
  <2>1. \A u \in Subs : step[u] \in Ended => step'[u] \in Ended
    BY <1>0 DEF TypeOK, Ended
  <2>2. \A k \in Keys : KeyOK(k)'
    BY <1>0, <2>1 DEF CacheOK, KeyOK, TypeOK
  <2>3. ASSUME NEW u \in Subs PROVE SubOK(u)'
    BY <1>0, <2>1 DEF CacheOK, SubOK, ReadsCache, TypeOK
  <2>4. QED
    BY <2>2, <2>3 DEF CacheOK
<1>4. QED
  BY <1>1, <1>2, <1>3

\* A step that leaves pc, the count and the cache alone, moves one active job
\* to another active step, and keeps what JobOK says of it.
LEMMA JobStep ==
    ASSUME IInv, NEW s \in Subs, step[s] \in Active,
           NEW stp \in Active, step' = [step EXCEPT ![s] = stp],
           step[s] \in Ended => stp \in Ended,
           status' \in [Subs -> {"none", "running"} \cup Final],
           attempt' \in [Subs -> 0..MaxAttempts],
           call' \in [Subs -> {"none", "pending"} \cup Pool!Outcomes],
           reports' \in [Subs -> Nat],
           \A u \in Subs \ {s} : /\ status'[u] = status[u] /\ attempt'[u] = attempt[u]
                                 /\ call'[u] = call[u] /\ reports'[u] = reports[u],
           \/ results' = results /\ latest' = latest
           \/ Cache!Store(s) /\ stp \in Ended,
           UNCHANGED <<phase, pc, answer, dropped, activeJobCount>>,
           JobOK(s)'
    PROVE  IInv'
<1> USE DEF IInv
<1>0. /\ results \subseteq results' /\ results' \in SUBSET Subs
      /\ latest' \in [Keys -> Subs \cup {NoJob}]
      /\ \A k \in Keys : \/ latest'[k] = latest[k]
                         \/ latest'[k] = s /\ k = KeyOf[s] /\ stp \in Ended
  BY DEF Cache!Store, TypeOK
<1>1. TypeOK' /\ ActiveIsCounted'
  <2>1. step' \in [Subs -> {"none", "done"} \cup Active]
    BY DEF TypeOK
  <2>2. /\ step'[s] \in Active
        /\ \A u \in Subs \ {s} : step'[u] = step[u]
    BY DEF TypeOK
  <2>3. ActiveIsCounted' /\ activeJobCount' \in Nat
    BY <2>1, <2>2, CountStep
  <2>4. QED
    BY <1>0, <2>1, <2>3 DEF TypeOK
<1>2. ASSUME NEW u \in Subs PROVE JobOK(u)'
  <2>1. CASE u # s
    BY <1>0, <2>1, JobFrame DEF TypeOK
  <2>2. QED
    BY <2>1
<1>3. CacheOK'
  <2>1. \A u \in Subs : step[u] \in Ended => step'[u] \in Ended
    BY DEF TypeOK
  <2>2. step'[s] = stp
    BY DEF TypeOK
  <2>3. ASSUME NEW k \in Keys PROVE KeyOK(k)'
    <3>1. CASE latest'[k] = latest[k]
      BY <2>1, <3>1 DEF CacheOK, KeyOK, TypeOK
    <3>2. CASE latest'[k] = s /\ k = KeyOf[s] /\ stp \in Ended
      BY <2>2, <3>2 DEF KeyOK
    <3>3. QED
      BY <1>0, <3>1, <3>2
  <2>4. ASSUME NEW u \in Subs PROVE SubOK(u)'
    BY <2>1 DEF CacheOK, SubOK, ReadsCache
  <2>5. QED
    BY <2>3, <2>4 DEF CacheOK
<1>4. QED
  BY <1>1, <1>2, <1>3

\* A failed attempt that is not the last leaves one attempt at least.
LEMMA AttemptFailedStep ==
    ASSUME IInv, NEW s \in Subs, AttemptFailed(s)
    PROVE  IInv'
<1>1. /\ step[s] = "calling" /\ step' = [step EXCEPT ![s] = "backoff"]
      /\ call[s] \in {"failed", "timeout"} /\ attempt[s] # MaxAttempts
      /\ UNCHANGED <<phase, pc, answer, status, attempt, reports, call,
                     results, latest, dropped, activeJobCount>>
  BY DEF AttemptFailed, LastAttempt, subVars, cacheVars
<1>2. JobOK(s)'
  <2>1. JobOK(s) /\ attempt[s] \in 0..MaxAttempts
    BY DEF IInv, TypeOK
  <2>2. step'[s] = "backoff"
    BY <1>1 DEF IInv, TypeOK
  <2>3. QED
    BY <1>1, <2>1, <2>2, OrchestratorAssumption DEF JobOK, Ended
<1>3. QED
  BY <1>1, <1>2, JobStep DEF IInv, TypeOK, Active, Ended

\* A retry uses an attempt that is left.
LEMMA RetryStep ==
    ASSUME IInv, NEW s \in Subs, Retry(s)
    PROVE  IInv'
<1>1. /\ step[s] = "backoff" /\ step' = [step EXCEPT ![s] = "calling"]
      /\ attempt' = [attempt EXCEPT ![s] = attempt[s] + 1]
      /\ \E c \in {"pending", "failed"} : call' = [call EXCEPT ![s] = c]
      /\ UNCHANGED <<phase, pc, answer, status, reports,
                     results, latest, dropped, activeJobCount>>
  BY DEF Retry, CallPool, subVars, cacheVars
<1>2. JobOK(s) /\ attempt[s] \in 0..MaxAttempts /\ attempt[s] < MaxAttempts
  BY <1>1 DEF IInv, TypeOK, JobOK
<1>3. JobOK(s)'
  BY <1>1, <1>2 DEF IInv, TypeOK, JobOK, Ended
<1>4. /\ attempt' \in [Subs -> 0..MaxAttempts]
      /\ call' \in [Subs -> {"none", "pending"} \cup Pool!Outcomes]
      /\ \A u \in Subs \ {s} : attempt'[u] = attempt[u] /\ call'[u] = call[u]
  BY <1>1, <1>2, OrchestratorAssumption DEF IInv, TypeOK, Pool!Outcomes
<1>5. QED
  BY <1>1, <1>3, <1>4, JobStep DEF IInv, TypeOK, Active, Ended

\* The last outcome gives a final status, and a stored result unless aggregation throws.
LEMMA ConcludeStep ==
    ASSUME IInv, NEW s \in Subs, Conclude(s)
    PROVE  IInv'
<1>1. PICK final \in JobStatus(call[s]) : status' = [status EXCEPT ![s] = final]
  BY DEF Conclude
<1>2. /\ step[s] = "calling"
      /\ call[s] = "ok" \/ (call[s] \in {"failed", "timeout"} /\ attempt[s] = MaxAttempts)
      /\ \/ step' = [step EXCEPT ![s] = "delivering"] /\ Cache!Store(s)
         \/ step' = [step EXCEPT ![s] = "broken"] /\ UNCHANGED <<results, latest>>
      /\ UNCHANGED <<phase, pc, answer, attempt, reports, call, dropped, activeJobCount>>
  BY DEF Conclude, LastAttempt, subVars
<1>3. final \in Final
  BY <1>2 DEF JobStatus, Final
<1>4. /\ status' \in [Subs -> {"none", "running"} \cup Final]
      /\ \A u \in Subs \ {s} : status'[u] = status[u]
      /\ status'[s] = final
  BY <1>1, <1>3 DEF IInv, TypeOK
<1>5. JobOK(s)'
  <2>1. step' = [step EXCEPT ![s] = "delivering"] => s \in results'
    BY <1>2 DEF Cache!Store, IInv, TypeOK
  <2>2. step'[s] \in {"delivering", "broken"} /\ (step'[s] = "delivering" => s \in results')
    BY <1>2, <2>1 DEF IInv, TypeOK
  <2>3. JobOK(s)
    BY DEF IInv
  <2>4. QED
    BY <1>2, <1>3, <1>4, <2>2, <2>3 DEF JobOK, Ended
<1>6. QED
  BY <1>2, <1>4, <1>5, JobStep DEF IInv, TypeOK, Active, Ended

\* The first report of a job on the normal path.
LEMMA DeliverStep ==
    ASSUME IInv, NEW s \in Subs, Deliver(s)
    PROVE  IInv'
<1>1. /\ step[s] = "delivering" /\ step' = [step EXCEPT ![s] = "settling"]
      /\ reports' = [reports EXCEPT ![s] = reports[s] + 1]
      /\ UNCHANGED <<phase, pc, answer, status, attempt, call,
                     results, latest, dropped, activeJobCount>>
  BY DEF Deliver, Report, subVars, cacheVars
<1>2. JobOK(s)'
  BY <1>1 DEF IInv, TypeOK, JobOK, Ended
<1>3. /\ reports' \in [Subs -> Nat]
      /\ \A u \in Subs \ {s} : reports'[u] = reports[u]
  BY <1>1 DEF IInv, TypeOK
<1>4. QED
  BY <1>1, <1>2, <1>3, JobStep DEF IInv, TypeOK, Active, Ended

\* The first report of a job on the failure path, with its result stored.
LEMMA BreakStep ==
    ASSUME IInv, NEW s \in Subs, Break(s)
    PROVE  IInv'
<1>1. /\ step[s] = "broken" /\ step' = [step EXCEPT ![s] = "settling"]
      /\ status' = [status EXCEPT ![s] = "failed"]
      /\ Cache!Store(s)
      /\ reports' = [reports EXCEPT ![s] = reports[s] + 1]
      /\ UNCHANGED <<phase, pc, answer, attempt, call, dropped, activeJobCount>>
  BY DEF Break, Report, subVars
<1>2. JobOK(s)'
  <2>1. s \in results'
    BY <1>1 DEF Cache!Store
  <2>2. QED
    BY <1>1, <2>1 DEF IInv, TypeOK, JobOK, Ended, Final
<1>3. /\ reports' \in [Subs -> Nat]
      /\ status' \in [Subs -> {"none", "running"} \cup Final]
      /\ \A u \in Subs \ {s} : reports'[u] = reports[u] /\ status'[u] = status[u]
  BY <1>1 DEF IInv, TypeOK, Final
<1>4. QED
  BY <1>1, <1>2, <1>3, JobStep DEF IInv, TypeOK, Active, Ended

\* The place of a job is given back once: it leaves the active jobs.
LEMMA ReleaseStep ==
    ASSUME IInv, NEW s \in Subs, Release(s)
    PROVE  IInv'
<1> USE DEF IInv
<1>0. /\ step[s] = "settling" /\ step' = [step EXCEPT ![s] = "done"]
      /\ activeJobCount' = activeJobCount - 1
      /\ UNCHANGED <<phase, pc, answer, status, attempt, reports, call,
                     results, latest, dropped>>
  BY DEF Release, subVars, cacheVars
<1>1. TypeOK' /\ ActiveIsCounted'
  <2>1. step' \in [Subs -> {"none", "done"} \cup Active]
    BY <1>0 DEF TypeOK
  <2>2. step[s] \in Active /\ step'[s] \notin Active
    BY <1>0 DEF TypeOK, Active
  <2>3. \A u \in Subs \ {s} : step'[u] = step[u]
    BY <1>0 DEF TypeOK
  <2>4. ActiveIsCounted' /\ activeJobCount' \in Nat
    BY <1>0, <2>1, <2>2, <2>3, CountStep
  <2>5. QED
    BY <1>0, <2>1, <2>4 DEF TypeOK
<1>2. ASSUME NEW u \in Subs PROVE JobOK(u)'
  <2>1. CASE u = s
    BY <1>0, <2>1 DEF JobOK, TypeOK, Ended
  <2>2. CASE u # s
    BY <1>0, <2>2, JobFrame DEF TypeOK
  <2>3. QED
    BY <2>1, <2>2
<1>3. CacheOK'
  BY <1>0, CacheFrame DEF TypeOK, Ended
<1>4. QED
  BY <1>1, <1>2, <1>3

\* Invalidation moves results from the cache to the history, and cache entries only vanish.
LEMMA InvalidateStep ==
    ASSUME IInv, NEW d \in Docs, Invalidate(d)
    PROVE  IInv'
<1> USE DEF IInv
<1>0. /\ results' \subseteq results
      /\ \A k \in Keys : latest'[k] \in {NoJob, latest[k]}
      /\ latest' \in [Keys -> Subs \cup {NoJob}]
      /\ dropped' = dropped \cup (results \ results')
      /\ UNCHANGED <<phase, pc, answer, status, step, attempt, reports, call, activeJobCount>>
  BY DEF Invalidate, Cache!Drop, subVars, jobVars, TypeOK
<1>1. TypeOK' /\ ActiveIsCounted'
  BY <1>0 DEF TypeOK, ActiveIsCounted, ActiveJobs
<1>2. ASSUME NEW u \in Subs PROVE JobOK(u)'
  BY <1>0, JobFrame
<1>3. CacheOK'
  BY <1>0 DEF CacheOK, KeyOK, SubOK, ReadsCache
<1>4. QED
  BY <1>1, <1>2, <1>3

\* The pool settles pending calls only.
LEMMA PoolStep ==
    ASSUME IInv, PoolSettles
    PROVE  IInv'
<1> USE DEF IInv
<1>0. /\ call' \in [Subs -> {"none", "pending"} \cup Pool!Outcomes]
      /\ \A u \in Subs : \/ call'[u] = call[u]
                         \/ call[u] = "pending" /\ call'[u] \in Pool!Outcomes
      /\ UNCHANGED <<phase, pc, answer, status, step, attempt, reports,
                     results, latest, dropped, activeJobCount>>
  <2>1. PICK S \in SUBSET Subs : Pool!Settle(S)
    BY DEF PoolSettles
  <2>2. PICK outcome \in [S -> Pool!Outcomes] :
            call' = [t \in Subs |-> IF t \in S THEN outcome[t] ELSE call[t]]
    BY <2>1 DEF Pool!Settle
  <2>3. QED
    BY <2>1, <2>2 DEF PoolSettles, Pool!Settle, subVars, jobVars, cacheVars, TypeOK
<1>1. TypeOK' /\ ActiveIsCounted'
  BY <1>0 DEF TypeOK, ActiveIsCounted, ActiveJobs
<1>2. ASSUME NEW u \in Subs PROVE JobOK(u)'
  BY <1>0 DEF JobOK, Pool!Outcomes, Ended
<1>3. CacheOK'
  BY <1>0, CacheFrame DEF TypeOK
<1>4. QED
  BY <1>1, <1>2, <1>3

\* Steps of the phase, and steps that leave this system alone.
LEMMA PhaseStep ==
    ASSUME IInv,
           phase' \in {"new", "ready", "draining", "closed", "expired", "exited"},
           UNCHANGED <<subVars, jobVars, call, cacheVars, activeJobCount>>
    PROVE  IInv'
<1> USE DEF IInv, subVars, jobVars, cacheVars
<1>1. TypeOK' /\ ActiveIsCounted'
  BY DEF TypeOK, ActiveIsCounted, ActiveJobs
<1>2. ASSUME NEW u \in Subs PROVE JobOK(u)'
  BY JobFrame
<1>3. CacheOK'
  BY CacheFrame DEF TypeOK
<1>4. QED
  BY <1>1, <1>2, <1>3

\* Every step keeps the invariant.
LEMMA InvStep == IInv /\ [Next]_vars => IInv'
<1> SUFFICES ASSUME IInv, [Next]_vars PROVE IInv'
  OBVIOUS
<1>1. CASE Initialize \/ BeginShutdown \/ EndShutdown \/ Exit
  BY <1>1, PhaseStep DEF Initialize, BeginShutdown, EndShutdown, Exit
<1>2. ASSUME NEW s \in Subs, Submit(s) \/ Admission(s)
      PROVE  IInv'
  BY <1>2, SubmitStep, RetrieveStep, ResolveFailStep, AcceptStep DEF Admission
<1>3. ASSUME NEW s \in Subs, Execution(s)
      PROVE  IInv'
  BY <1>3, AttemptFailedStep, RetryStep, ConcludeStep, DeliverStep, BreakStep, ReleaseStep
     DEF Execution
<1>4. CASE \E d \in Docs : Invalidate(d)
  BY <1>4, InvalidateStep
<1>5. CASE PoolSettles
  BY <1>5, PoolStep
<1>6. CASE UNCHANGED vars
  BY <1>6, PhaseStep DEF vars, IInv, TypeOK
<1>7. QED
  BY <1>1, <1>2, <1>3, <1>4, <1>5, <1>6 DEF Next

\* The inductive invariant holds in every state.
THEOREM Invariance == Spec => []IInv
  BY InitInv, InvStep, PTL DEF Spec

-----------------------------------------------------------------------------
(* What follows from the invariant                                          *)

\* Every variable keeps its type.
THEOREM TypeCorrect == Spec => []TypeOK
  BY Invariance, PTL DEF IInv

\* The counter behind the capacity check is exact.
THEOREM CounterIsExact == Spec => []ActiveIsCounted
  BY Invariance, PTL DEF IInv

\* The outcome of a job is sent out once, and before the job is over.
THEOREM ReportsAreExact == Spec => []ReportedOnce
<1>1. IInv => ReportedOnce
  BY DEF IInv, TypeOK, JobOK, ReportedOnce, Ended, Active
<1>2. QED
  BY <1>1, Invariance, PTL

\* A job that was reported is stored, or was invalidated.
THEOREM ReportsAreStored == Spec => []ReportedIsStored
<1>1. IInv => ReportedIsStored
  BY DEF IInv, TypeOK, JobOK, ReportedIsStored, Ended, Active
<1>2. QED
  BY <1>1, Invariance, PTL

\* The cache answers with finished jobs of the same document and ruleset.
THEOREM HitsAreFinished == Spec => []HitIsFinished
<1>1. IInv => HitIsFinished
  BY DEF IInv, JobOK, CacheOK, SubOK, HitIsFinished, Ended
<1>2. QED
  BY <1>1, Invariance, PTL

\* No job is given up before its last attempt.
THEOREM AllAttemptsAreUsed == Spec => []GivesUpLast
<1>1. IInv => GivesUpLast
  <2> SUFFICES ASSUME IInv, NEW s \in Subs,
                      status[s] \in {"timeout", "completed_with_errors"}
               PROVE  call[s] = "ok" \/ attempt[s] = MaxAttempts
    BY DEF GivesUpLast
  <2>1. JobOK(s) /\ step[s] \in {"none", "done"} \cup Active
    BY DEF IInv, TypeOK
  <2>2. QED
    BY <2>1 DEF JobOK, Ended, Active
<1>2. QED
  BY <1>1, Invariance, PTL

\* The status of a job does not change once it has been reported.
THEOREM StatusIsFinal == Spec => FinalIsFinal
<1>1. IInv /\ [Next]_vars => [\A s \in Subs : reports[s] > 0 => status'[s] = status[s]]_vars
  <2> SUFFICES ASSUME IInv, Next, NEW s \in Subs, reports[s] > 0
               PROVE  status'[s] = status[s]
    OBVIOUS
  <2>1. step[s] \in {"settling", "done"} /\ pc[s] = "accepted"
    BY DEF IInv, TypeOK, JobOK, Active, Ended
  <2>2. ASSUME NEW u \in Subs, Submit(u) \/ Admission(u) \/ Execution(u)
        PROVE  status'[s] = status[s]
    <3>1. CASE Accept(u) \/ Conclude(u) \/ Break(u)
      <4>1. u # s /\ \E x : status' = [status EXCEPT ![u] = x]
        BY <2>1, <3>1 DEF Accept, Conclude, Break, Report
      <4>2. QED
        BY <4>1 DEF IInv, TypeOK
    <3>2. CASE ~(Accept(u) \/ Conclude(u) \/ Break(u))
      BY <2>2, <3>2 DEF Submit, Admission, Execution, Retrieve, ResolveFail, AttemptFailed,
                        Retry, Deliver, Report, Release, jobVars
    <3>3. QED
      BY <3>1, <3>2
  <2>3. CASE ~\E u \in Subs : Submit(u) \/ Admission(u) \/ Execution(u)
    BY <2>3 DEF Next, Initialize, BeginShutdown, EndShutdown, Exit, Invalidate, PoolSettles, jobVars
  <2>4. QED
    BY <2>2, <2>3
<1>2. QED
  BY <1>1, Invariance, PTL DEF Spec, FinalIsFinal

\* The orchestrator asks of the pool only what TaskService lets a caller ask: a
\* task is called again only when its last call has settled and failed.
THEOREM PoolIsUsedAsAgreed == Spec => UsesPoolAsAgreed
<1>1. Init => Pool!Init
  BY DEF Init
<1>2. IInv /\ [Next]_vars => [Pool!Next]_call
  <2> SUFFICES ASSUME IInv, Next, call' # call PROVE Pool!Next
    BY DEF vars
  <2>1. ASSUME NEW s \in Subs, Submit(s) \/ Admission(s) \/ Execution(s)
        PROVE  Pool!Next
    <3>1. CASE Accept(s) \/ Retry(s)
      <4>1. call[s] \in {"none", "failed", "timeout"}
        BY <3>1 DEF IInv, JobOK, Accept, Retry
      <4>2. CallPool(s)
        BY <3>1 DEF Accept, Retry
      <4>3. Pool!Begin(s) \/ Pool!Refuse(s)
        BY <4>1, <4>2 DEF CallPool, Pool!Begin, Pool!Refuse, Pool!Callable
      <4>4. QED
        BY <4>3 DEF Pool!Next
    <3>2. CASE ~(Accept(s) \/ Retry(s))
      BY <2>1, <3>2 DEF Submit, Admission, Execution, Retrieve, ResolveFail, AttemptFailed,
                        Conclude, Deliver, Break, Report, Release
    <3>3. QED
      BY <3>1, <3>2
  <2>2. CASE PoolSettles
    BY <2>2 DEF PoolSettles, Pool!Next
  <2>3. QED
    BY <2>1, <2>2 DEF Next, Initialize, BeginShutdown, EndShutdown, Exit, Invalidate
<1>3. QED
  BY <1>1, <1>2, Invariance, PTL DEF Spec, UsesPoolAsAgreed, Pool!SafeSpec

-----------------------------------------------------------------------------
(* The promise of submitJob                                                 *)

\* A step that gives one submission another abstract state is that move of
\* JobService; one that gives none is a stutter.
LEMMA MoveOf ==
    ASSUME NEW s \in Subs, Up, phase' = phase,
           \A u \in Subs \ {s} : SubState(u)' = SubState(u),
           NEW from, NEW to, SubState(s) = from, SubState(s)' = to
    PROVE  Service!Move(s, from, to)
<1> DEFINE bar == [u \in Subs |-> SubState(u)]
<1>1. bar'[s] = to /\ bar[s] = from /\ \A u \in Subs \ {s} : bar'[u] = bar[u]
  OBVIOUS
<1>2. bar' = [u \in Subs |-> bar'[u]] /\ bar = [u \in Subs |-> bar[u]]
  OBVIOUS
<1>3. Up' = Up
  BY DEF Up
<1> HIDE DEF bar
<1>4. bar' = [bar EXCEPT ![s] = to]
  BY <1>1, <1>2
<1>5. QED
  BY <1>1, <1>3, <1>4 DEF Service!Move, bar

\* The safety half of the promise: a submission is refused, answered or accepted
\* once, and an accepted one ends at most once, while the process lives.
THEOREM OrchestratorImplementsJobService == Spec => Service!SafeSpec
<1> DEFINE bar == [u \in Subs |-> SubState(u)]
<1>1. Init => Service!Init
  BY DEF Init, Service!Init, SubState, Up
<1>2. IInv /\ [Next]_vars => [Service!Next]_<<[s \in Subs |-> SubState(s)], Up>>
  <2> SUFFICES ASSUME IInv, [Next]_vars PROVE Service!Next \/ UNCHANGED <<bar, Up>>
    OBVIOUS
  <2>1. ASSUME NEW s \in Subs, Submit(s) \/ Admission(s) \/ Execution(s)
        PROVE  Service!Next \/ UNCHANGED <<bar, Up>>
    <3>1. /\ Up /\ phase' = phase
          /\ \A u \in Subs \ {s} : pc'[u] = pc[u] /\ step'[u] = step[u]
      BY <2>1 DEF IInv, TypeOK, Submit, Moves, Admission, Execution, Retrieve, ResolveFail,
                  Accept, AttemptFailed, Retry, Conclude, Deliver, Break, Report, Release,
                  subVars, jobVars
    <3>2. \A u \in Subs \ {s} : SubState(u)' = SubState(u)
      BY <3>1 DEF SubState
    <3>3. Up' = Up
      BY <3>1 DEF Up
    <3>4. SubState(s)' = SubState(s) => UNCHANGED <<bar, Up>>
      BY <3>2, <3>3
    <3>5. JobOK(s) /\ pc[s] \in {"new", "rejected", "error", "retrieving", "resolving", "hit", "accepted"}
      BY DEF IInv, TypeOK
    <3>6. CASE Submit(s)
      <4>1. pc[s] = "new" /\ pc'[s] \in {"error", "rejected", "retrieving", "resolving"}
        BY <3>6 DEF Submit, Moves, IInv, TypeOK
      <4>2. SubState(s) = "new" /\ SubState(s)' \in {"refused", "asked"}
        BY <4>1 DEF SubState
      <4>3. Service!Refuse(s) \/ Service!Ask(s)
        BY <3>1, <3>2, <4>2, MoveOf DEF Service!Refuse, Service!Ask
      <4>4. QED
        BY <4>3 DEF Service!Next
    <3>7. CASE Retrieve(s)
      <4>1. pc[s] = "retrieving" /\ pc'[s] \in {"resolving", "hit"}
        BY <3>7 DEF Retrieve, Moves, IInv, TypeOK
      <4>2. SubState(s) = "asked" /\ SubState(s)' \in {"asked", "cached"}
        BY <4>1 DEF SubState
      <4>3. SubState(s)' # SubState(s) => Service!Answer(s)
        BY <3>1, <3>2, <4>2, MoveOf DEF Service!Answer
      <4>4. QED
        BY <3>4, <4>3 DEF Service!Next
    <3>8. CASE ResolveFail(s)
      <4>1. pc[s] = "resolving" /\ pc'[s] = "error"
        BY <3>8 DEF ResolveFail, Moves, IInv, TypeOK
      <4>2. SubState(s) = "asked" /\ SubState(s)' = "refused"
        BY <4>1 DEF SubState
      <4>3. Service!Answer(s)
        BY <3>1, <3>2, <4>2, MoveOf DEF Service!Answer
      <4>4. QED
        BY <4>3 DEF Service!Next
    <3>9. CASE Accept(s)
      <4>1. pc[s] = "resolving" /\ pc'[s] = "accepted" /\ step'[s] = "calling"
        BY <3>9 DEF Accept, IInv, TypeOK
      <4>2. SubState(s) = "asked" /\ SubState(s)' = "active"
        BY <4>1 DEF SubState
      <4>3. Service!Answer(s)
        BY <3>1, <3>2, <4>2, MoveOf DEF Service!Answer
      <4>4. QED
        BY <4>3 DEF Service!Next
    <3>10. CASE Execution(s) /\ ~Release(s)
      <4>1. /\ step[s] \in Active /\ step'[s] \in Active /\ pc'[s] = pc[s]
        BY <3>10 DEF Execution, AttemptFailed, Retry, Conclude, Deliver, Break, Report, subVars,
                     IInv, TypeOK, Active
      <4>2. SubState(s)' = SubState(s)
        BY <4>1 DEF SubState, Active
      <4>3. QED
        BY <3>4, <4>2
    <3>11. CASE Release(s)
      <4>1. pc[s] = "accepted" /\ pc'[s] = pc[s] /\ step[s] = "settling" /\ step'[s] = "done"
        BY <3>5, <3>11 DEF Release, subVars, JobOK, IInv, TypeOK
      <4>2. SubState(s) = "active" /\ SubState(s)' = "ended"
        BY <4>1 DEF SubState
      <4>3. Service!End(s)
        BY <3>1, <3>2, <4>2, MoveOf DEF Service!End
      <4>4. QED
        BY <4>3 DEF Service!Next
    <3>12. QED
      BY <2>1, <3>6, <3>7, <3>8, <3>9, <3>10, <3>11 DEF Admission
  <2>2. CASE Exit
    <3>1. Up /\ Up' = FALSE
      BY <2>2 DEF Exit, Up
    <3>2. UNCHANGED bar
      BY <2>2 DEF Exit, subVars, jobVars, SubState
    <3>3. QED
      BY <3>1, <3>2 DEF Service!Next, Service!Exit
  <2>3. CASE Initialize \/ BeginShutdown \/ EndShutdown \/ PoolSettles \/ \E d \in Docs : Invalidate(d)
    <3>1. UNCHANGED <<pc, step>> /\ Up' = Up
      BY <2>3 DEF Initialize, BeginShutdown, EndShutdown, PoolSettles, Invalidate,
                  subVars, jobVars, Up
    <3>2. QED
      BY <3>1 DEF SubState
  <2>4. CASE UNCHANGED vars
    BY <2>4 DEF vars, subVars, jobVars, SubState, Up
  <2>5. QED
    BY <2>1, <2>2, <2>3, <2>4 DEF Next
<1>3. QED
  BY <1>1, <1>2, Invariance, PTL DEF Spec, Service!SafeSpec

\* The orchestrator is consistent: what it reports it has stored, once, for any
\* number of submissions and documents.
THEOREM JobsCorrect == Spec => []JobsAreConsistent
<1>1. TypeOK /\ ReportedIsStored /\ ReportedOnce => JobsAreConsistent
  BY DEF JobsAreConsistent
<1>2. QED
  BY <1>1, TypeCorrect, ReportsAreStored, ReportsAreExact, PTL
=============================================================================
