---------------------------- MODULE ThreadStart ----------------------------
(***************************************************************************)
(* The ruleset loader and a worker thread together: createWorker            *)
(* (orchestrator/src/worker-pool.ts) starts the thread with the rulesetPath  *)
(* of an object that loadVersion answered, and the thread reads that file   *)
(* itself when it initializes.                                              *)
(***************************************************************************)
EXTENDS RulesetLoader, Sequences

CONSTANTS Tasks, Documents, Fitting, CacheEnabled, MayExpire, MaxEvictions,
          NoDocument

VARIABLES
    given,      \* the object whose path the thread was started with
    phase, workerStatus, slot, expired, stored, at, asked, hit, doc, results, told,
    evictions, believed

Thread == INSTANCE WorkerThread

ASSUME ThreadAssumption == Thread!WorkerThreadAssumption

threadVars == <<phase, workerStatus, slot, expired, stored, at, asked, hit, doc, results, told,
                evictions, believed>>
vars == <<loaderVars, given, threadVars>>

StartInit == Init /\ Thread!Init /\ given = NoCall

\* createWorker constructs the thread.
CreateWorker(c) ==
    /\ given = NoCall /\ step[c] = "answered"
    /\ given' = got[c]
    /\ UNCHANGED <<loaderVars, threadVars>>

\* The thread loads its ruleset: fails without the file; with it, it loads what
\* the loader could load, unless a configured resolver does not.
Initialize ==
    /\ given # NoCall
    /\ \E loads \in {PathExists(given), FALSE} : Thread!Initialize(loads)
    /\ UNCHANGED <<loaderVars, given>>

ThreadStep ==
    /\ phase = "up"
    /\ Thread!Next
    /\ UNCHANGED <<loaderVars, given>>

LoaderStep == Next /\ UNCHANGED <<given, threadVars>>

StartNext == LoaderStep \/ (\E c \in Calls : CreateWorker(c)) \/ Initialize \/ ThreadStep

StartSpec == StartInit /\ [][StartNext]_vars /\ Thread!Fairness

-----------------------------------------------------------------------------
(* Properties                                                                *)

\* The file of every object a caller or the cache holds is there: the temporary
\* file of an embedded ruleset outlives the call that wrote it, as the pool hands
\* its path to threads for as long as the process runs.
PathsExist ==
    \A object \in ({got[c] : c \in Calls} \cup {cache[r] : r \in Rulesets}) \ {NoCall} :
        PathExists(object)

\* A call that begins after another of the same ruleset was answered, with no
\* clearCache in between, neither loads nor fails: it shares an object.
LoadedOnce == \A c \in served : step[c] = "answered" /\ got[c] # c

\* What the loader has answered can be used, by the calls that share it and the
\* threads that start on it.
LoaderIsConsistent == PathsExist /\ LoadedOnce

\* Each variable of the thread holds values of its type.
ThreadTypeOK == Thread!TypeOK

\* A task is answered once (see WorkerThread).
AnsweredOnce == Thread!AnsweredOnce

\* A task's result is of the document it names (see WorkerThread).
ResultIsOfDocument == Thread!ResultIsOfDocument

\* The last status of a quiet thread is its state (see WorkerThread).
StatusIsCurrent == Thread!StatusIsCurrent

\* The tasks of a thread do not disturb each other through what they share: each is
\* answered once, of its own document, and the pool is told the truth.
ThreadIsConsistent == ThreadTypeOK /\ AnsweredOnce /\ ResultIsOfDocument /\ StatusIsCurrent

\* A task that was sent is answered, or the thread ends (see WorkerThread).
TasksAreAnswered == Thread!TasksAreAnswered
=============================================================================
