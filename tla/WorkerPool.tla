------------------------------ MODULE WorkerPool ------------------------------
(***************************************************************************)
(* WorkerPoolManager (packages/orchestrator/src/worker-pool.ts): the pool   *)
(* of worker threads that runs lint tasks.                                  *)
(*                                                                          *)
(* The manager is single threaded JavaScript.  An action is one run of      *)
(* synchronous code between two awaits.  A promise that is resolved is      *)
(* continued from the microtask queue, which is drained before the event    *)
(* loop takes the next macrotask (a timer, a message or an error of a       *)
(* thread, a finished terminate()): a macrotask has MicrotasksDrained among *)
(* its guards, and the continuations of several calls run in any order.     *)
(*                                                                          *)
(* A task is run by at most MaxAttempts calls of executeTask, all with the  *)
(* same taskId (Orchestrator.executeTaskWithRetry).  One executeOnWorker    *)
(* registers a timer, a 'message' handler and an 'error' handler; they are  *)
(* kept in three sets because the code does not remove them together.       *)
(***************************************************************************)
EXTENDS Naturals, FiniteSets, SequencesExt

CONSTANTS
    Tasks,          \* lint tasks (taskId)
    Keys,           \* ruleset keys, "name@version"
    KeyOf,          \* the ruleset key a task asks for
    Docs,           \* documents
    DocOf,          \* the document a task lints
    NoDoc,          \* cachedDocumentId undefined
    MaxAttempts,    \* calls of executeTask per task
    TotalMax,       \* config.totalMaxWorkers
    MinPerKey,      \* config.minWorkersPerRuleset
    MaxPerKey,      \* config.maxWorkersPerRuleset
    ScaleUpThreshold,
    MaxRetries,     \* config.maxRetries, the restart limit of a worker
    Cpus,           \* os.cpus().length
    MaxSpawns,      \* bound: threads ever created
    MaxSpawning     \* bound: createWorker calls per key under way at a tick

ASSUME PoolAssumption ==
    /\ Keys # {} /\ IsFiniteSet(Keys)
    /\ KeyOf \in [Tasks -> Keys]
    /\ DocOf \in [Tasks -> Docs]
    /\ NoDoc \notin Docs
    /\ MaxAttempts \in Nat \ {0}
    /\ TotalMax \in Nat \ {0}
    /\ MinPerKey \in Nat
    /\ MaxPerKey \in Nat
    /\ ScaleUpThreshold \in Nat
    /\ MaxRetries \in Nat
    /\ Cpus \in Nat \ {0}
    /\ MaxSpawns \in Nat
    /\ MaxSpawning \in Nat

Workers == 1..MaxSpawns              \* worker ids, issued in order
Execs == [task : Tasks, attempt : 1..MaxAttempts, worker : Workers]

VARIABLES
    phase,       \* initialized, with the two transitions that take time
    spawned,     \* number of worker ids issued
    workers,     \* the workers map (and workersByRuleset, through home)
    home,        \* ruleset key of a worker
    status,      \* WorkerInfo.status
    taskCount,   \* WorkerInfo.taskCount
    cachedDoc,   \* WorkerInfo.cachedDocumentId
    alive,       \* the thread runs and takes messages
    inbox,       \* executions a thread has been sent and has not answered
    spawning,    \* createWorker calls of the pool itself under way, per key
    failing,     \* handleWorkerFailure calls awaiting terminate(), per worker
    draining,    \* workers scaleDownOne is terminating
    queue,       \* workerReadyCallbacks
    pc,          \* where the call of a task stands
    attempt,     \* which call of the task it is
    pick,        \* the worker selectWorker resolved with
    timers,      \* armed task timers
    handlers,    \* registered 'message' handlers
    errHandlers  \* registered 'error' handlers

workerVars == <<spawned, workers, home, status, taskCount, cachedDoc, alive, inbox>>
createVars == <<spawning, failing, draining>>
callVars   == <<pc, attempt, pick>>
execVars   == <<timers, handlers, errHandlers>>
vars == <<phase, workerVars, createVars, queue, callVars, execVars>>

Settled == {"ok", "failed", "timeout"}
Pending == {"resolving", "reselecting", "creating", "waiting", "picked", "running"}

-----------------------------------------------------------------------------
(* Reading the pool                                                         *)

Initialized == phase \in {"ready", "stopping"}

\* workersByRuleset.get(key)
WorkersOf(k) == {w \in workers : home[w] = k}

AtCapacity == Cardinality(workers) >= TotalMax

InitialPerKey ==
    LET total == Min({TotalMax, 2 * Cpus})
    IN  Min({Max({1, total \div Cardinality(Keys)}), MinPerKey})

MicrotasksDrained == \A t \in Tasks : pc[t] \notin {"picked", "reselecting"}

LeastUsed(W) == {w \in W : \A v \in W : taskCount[w] <= taskCount[v]}

\* The places in workerReadyCallbacks of the waiters for a ruleset.
WaitersOf(k) == {i \in 1..Len(queue) : KeyOf[queue[i]] = k}

\* The execution the current call of t has started.
ExecOf(t) == [task |-> t, attempt |-> attempt[t], worker |-> pick[t]]

IsCurrent(e) == pc[e.task] = "running" /\ e = ExecOf(e.task)

-----------------------------------------------------------------------------
Init ==
    /\ phase = "new"
    /\ spawned = 0
    /\ workers = {}
    /\ home = [w \in Workers |-> CHOOSE k \in Keys : TRUE]
    /\ status = [w \in Workers |-> "initializing"]
    /\ taskCount = [w \in Workers |-> 0]
    /\ cachedDoc = [w \in Workers |-> NoDoc]
    /\ alive = [w \in Workers |-> FALSE]
    /\ inbox = [w \in Workers |-> {}]
    /\ spawning = [k \in Keys |-> 0]
    /\ failing = [w \in Workers |-> 0]
    /\ draining = {}
    /\ queue = <<>>
    /\ pc = [t \in Tasks |-> "idle"]
    /\ attempt = [t \in Tasks |-> 0]
    /\ pick = [t \in Tasks |-> 0]
    /\ timers = {}
    /\ handlers = {}
    /\ errHandlers = {}

-----------------------------------------------------------------------------
(* initialize                                                               *)

\* All initial createWorker calls start in one run, each before any of the
\* others has registered its worker.
Initialize ==
    /\ phase = "new"
    /\ MicrotasksDrained
    /\ phase' = "starting"
    /\ spawning' = [k \in Keys |-> InitialPerKey]
    /\ UNCHANGED <<workerVars, failing, draining, queue, callVars, execVars>>

\* Promise.all has settled: the pool opens, unless no worker came up.
InitializeDone ==
    /\ phase = "starting"
    /\ MicrotasksDrained
    /\ \A k \in Keys : spawning[k] = 0
    /\ phase' = IF workers = {} THEN "new" ELSE "ready"
    /\ UNCHANGED <<workerVars, createVars, queue, callVars, execVars>>

-----------------------------------------------------------------------------
(* createWorker, after its capacity check                                   *)

Register(w, k) ==
    /\ spawned' = w
    /\ workers' = workers \cup {w}
    /\ home' = [home EXCEPT ![w] = k]
    /\ status' = [status EXCEPT ![w] = "ready"]
    /\ alive' = [alive EXCEPT ![w] = TRUE]
    /\ UNCHANGED <<taskCount, cachedDoc, inbox>>

\* The 'ready' message of a thread the pool wanted (start-up, scale-up or
\* replacement).  Registering does not look at the wait queue, nor at the
\* number of workers, nor at whether the pool has been shut down.
SpawnDone(k) ==
    /\ spawning[k] > 0
    /\ MicrotasksDrained
    /\ spawned < MaxSpawns
    /\ Register(spawned + 1, k)
    /\ spawning' = [spawning EXCEPT ![k] = @ - 1]
    /\ UNCHANGED <<phase, failing, draining, queue, callVars, execVars>>

\* The ruleset does not load, or the thread fails or takes over 30 seconds.
SpawnFail(k) ==
    /\ spawning[k] > 0
    /\ MicrotasksDrained
    /\ spawning' = [spawning EXCEPT ![k] = @ - 1]
    /\ UNCHANGED <<phase, workerVars, failing, draining, queue, callVars, execVars>>

\* The same for the worker selectWorker creates for a call without any.
CreateDone(t) ==
    /\ pc[t] = "creating"
    /\ MicrotasksDrained
    /\ spawned < MaxSpawns
    /\ Register(spawned + 1, KeyOf[t])
    /\ pc' = [pc EXCEPT ![t] = "reselecting"]
    /\ UNCHANGED <<phase, createVars, queue, attempt, pick, execVars>>

CreateFail(t) ==
    /\ pc[t] = "creating"
    /\ MicrotasksDrained
    /\ pc' = [pc EXCEPT ![t] = "failed"]
    /\ UNCHANGED <<phase, workerVars, createVars, queue, attempt, pick, execVars>>

-----------------------------------------------------------------------------
(* executeTask and selectWorker                                             *)

\* A first call, or the retry after a failed one.
Call(t) ==
    /\ pc[t] \in {"idle", "failed", "timeout"}
    /\ attempt[t] < MaxAttempts
    /\ MicrotasksDrained
    /\ pc' = [pc EXCEPT ![t] = IF Initialized THEN "resolving" ELSE "failed"]
    /\ attempt' = [attempt EXCEPT ![t] = @ + 1]
    /\ UNCHANGED <<phase, workerVars, createVars, queue, pick, execVars>>

\* getDocumentPath throws, or documentExists is false.
ResolveFail(t) ==
    /\ pc[t] = "resolving"
    /\ pc' = [pc EXCEPT ![t] = "failed"]
    /\ UNCHANGED <<phase, workerVars, createVars, queue, attempt, pick, execVars>>

\* selectWorker up to its first await or its result.  Nothing reserves the
\* worker it resolves with.  The document store may have answered from its
\* cache, within the microtask queue: several calls may be here in one drain.
Select(t) ==
    /\ pc[t] \in {"resolving", "reselecting"}
    /\ LET own        == WorkersOf(KeyOf[t])
           candidates == {w \in own : status[w] \notin {"error", "terminated"}}
           ready      == {w \in candidates : status[w] = "ready"}
           withDoc    == {w \in ready : cachedDoc[w] = DocOf[t]}
       IN  \/ /\ own = {}
              /\ pc' = [pc EXCEPT ![t] = IF AtCapacity THEN "failed" ELSE "creating"]
              /\ UNCHANGED <<queue, pick>>
           \/ /\ own # {} /\ candidates = {}
              /\ pc' = [pc EXCEPT ![t] = "failed"]
              /\ UNCHANGED <<queue, pick>>
           \/ /\ ready # {}
              /\ \E w \in LeastUsed(IF withDoc # {} THEN withDoc ELSE ready) :
                    pick' = [pick EXCEPT ![t] = w]
              /\ pc' = [pc EXCEPT ![t] = "picked"]
              /\ UNCHANGED queue
           \/ /\ candidates # {} /\ ready = {}
              /\ queue' = Append(queue, t)
              /\ pc' = [pc EXCEPT ![t] = "waiting"]
              /\ UNCHANGED pick
    /\ UNCHANGED <<phase, workerVars, createVars, attempt, execVars>>

\* The waiter's own timer (workerWaitTimeout): selectWorker resolves with null.
WaitTimeout(t) ==
    /\ pc[t] = "waiting"
    /\ MicrotasksDrained
    /\ \E i \in 1..Len(queue) : queue[i] = t /\ queue' = RemoveAt(queue, i)
    /\ pc' = [pc EXCEPT ![t] = "failed"]
    /\ UNCHANGED <<phase, workerVars, createVars, attempt, pick, execVars>>

-----------------------------------------------------------------------------
(* executeOnWorker                                                          *)

\* The registrations of an execution, and what its own timer undoes.
\* Mutant: a worker whose thread is gone gets no timer.
ArmIfAlive(e) ==
    /\ timers' = IF alive[e.worker] THEN timers \cup {e} ELSE timers
    /\ handlers' = handlers \cup {e}
    /\ errHandlers' = errHandlers \cup {e}

Arm(e) ==
    /\ timers' = timers \cup {e}
    /\ handlers' = handlers \cup {e}
    /\ errHandlers' = errHandlers \cup {e}

\* Mutant: off('message') is forgotten.
DisarmTimerOnly(e) ==
    /\ timers' = timers \ {e}
    /\ errHandlers' = errHandlers \ {e}
    /\ UNCHANGED handlers

Disarm(e) ==
    /\ timers' = timers \ {e}
    /\ handlers' = handlers \ {e}
    /\ errHandlers' = errHandlers \ {e}

\* The worker is taken whatever became of it since selectWorker looked at it;
\* postMessage to a dead thread is silent.
Execute(t) ==
    /\ pc[t] = "picked"
    /\ LET w == pick[t]
           e == ExecOf(t)
       IN  /\ status' = [status EXCEPT ![w] = "busy"]
           /\ Arm(e)
           /\ inbox' = IF alive[w] THEN [inbox EXCEPT ![w] = @ \cup {e}] ELSE inbox
    /\ pc' = [pc EXCEPT ![t] = "running"]
    /\ UNCHANGED <<phase, spawned, workers, home, taskCount, cachedDoc, alive,
                   createVars, queue, attempt, pick>>

\* The waiter at i gets worker w, in a run that leaves the other calls in `calls`.
Serve(i, w, calls) ==
    /\ queue' = RemoveAt(queue, i)
    /\ pc' = [calls EXCEPT ![queue[i]] = "picked"]
    /\ pick' = [pick EXCEPT ![queue[i]] = w]

ServeNobody(calls) == pc' = calls /\ UNCHANGED <<queue, pick>>

\* Mutant: the queue is not drained.
NotifyNobody(w, calls) == ServeNobody(calls)

\* Mutant: the last waiter is served first.
NotifyLast(w, calls) ==
    LET waiting == WaitersOf(home[w])
    IN  IF waiting = {} THEN ServeNobody(calls) ELSE Serve(Max(waiting), w, calls)

\* notifyWorkerReady: the first waiter for the worker's ruleset gets it.
NotifyWorkerReady(w, calls) ==
    LET waiting == WaitersOf(home[w])
    IN  IF waiting = {} THEN ServeNobody(calls) ELSE Serve(Min(waiting), w, calls)

\* A 'result' message.  It is matched by taskId only, and the handler leaves
\* the timer armed and the error handler registered.
Result(w, e, success, cacheHit) ==
    /\ e \in inbox[w]
    /\ MicrotasksDrained
    /\ inbox' = [inbox EXCEPT ![w] = @ \ {e}]
    /\ LET matching == {h \in handlers : h.worker = w /\ h.task = e.task}
       IN  IF matching = {}
           THEN UNCHANGED <<status, taskCount, cachedDoc, queue, callVars, execVars>>
           ELSE /\ handlers' = handlers \ matching
                /\ status' = [status EXCEPT ![w] = "ready"]
                /\ taskCount' = [taskCount EXCEPT ![w] = @ + 1]
                /\ cachedDoc' = IF success /\ cacheHit
                                THEN [cachedDoc EXCEPT ![w] = DocOf[e.task]]
                                ELSE cachedDoc
                /\ NotifyWorkerReady(w, [pc EXCEPT ![e.task] = IF success THEN "ok" ELSE "failed"])
                /\ UNCHANGED <<attempt, timers, errHandlers>>
    /\ UNCHANGED <<phase, spawned, workers, home, alive, createVars>>

\* The timer of an execution, settled or not: the worker becomes 'ready'
\* although its thread may still be at work, on this task or on another.
TaskTimeout(e) ==
    /\ e \in timers
    /\ MicrotasksDrained
    /\ Disarm(e)
    /\ status' = [status EXCEPT ![e.worker] = "ready"]
    /\ NotifyWorkerReady(e.worker,
                         [pc EXCEPT ![e.task] = IF IsCurrent(e) THEN "timeout" ELSE @])
    /\ UNCHANGED <<phase, spawned, workers, home, taskCount, cachedDoc, alive, inbox,
                   createVars, attempt>>

-----------------------------------------------------------------------------
(* handleWorkerFailure                                                      *)

\* An 'error' event runs every error handler still registered on the thread,
\* those of settled executions too, and each calls handleWorkerFailure.  (An
\* 'error' event without a handler is an uncaught exception: it ends the
\* process, which no state here survives.)  restartCount is 0 in every
\* WorkerInfo and never incremented.
WorkerError(w) ==
    LET hit == {e \in errHandlers : e.worker = w}
    IN  /\ alive[w]
        /\ MicrotasksDrained
        /\ hit # {}
        /\ alive' = [alive EXCEPT ![w] = FALSE]
        /\ inbox' = [inbox EXCEPT ![w] = {}]
        /\ handlers' = handlers \ hit
        /\ errHandlers' = errHandlers \ hit
        /\ pc' = [t \in Tasks |-> IF pc[t] = "running" /\ ExecOf(t) \in hit
                                  THEN "failed" ELSE pc[t]]
        /\ \/ /\ MaxRetries = 0
              /\ status' = [status EXCEPT ![w] = "terminated"]
              /\ UNCHANGED failing
           \/ /\ MaxRetries > 0
              /\ status' = [status EXCEPT ![w] = "error"]
              /\ failing' = [failing EXCEPT ![w] = @ + Cardinality(hit)]
        /\ UNCHANGED <<phase, spawned, workers, home, taskCount, cachedDoc,
                       spawning, draining, queue, attempt, pick, timers>>

\* Mutant: a worker that cannot be replaced stays in the map.
ReplaceWorkerOrKeep(w) ==
    /\ failing[w] > 0
    /\ MicrotasksDrained
    /\ failing' = [failing EXCEPT ![w] = @ - 1]
    /\ IF AtCapacity
       THEN UNCHANGED <<workers, spawning>>
       ELSE /\ workers' = workers \ {w}
            /\ spawning' = [spawning EXCEPT ![home[w]] = @ + 1]
    /\ UNCHANGED <<phase, spawned, home, status, taskCount, cachedDoc, alive, inbox,
                   draining, queue, callVars, execVars>>

\* terminate() has resolved: the worker leaves the maps and a replacement is
\* started if the capacity check of createWorker lets it.
ReplaceWorker(w) ==
    /\ failing[w] > 0
    /\ MicrotasksDrained
    /\ failing' = [failing EXCEPT ![w] = @ - 1]
    /\ workers' = workers \ {w}
    /\ spawning' = IF Cardinality(workers \ {w}) >= TotalMax
                   THEN spawning
                   ELSE [spawning EXCEPT ![home[w]] = @ + 1]
    /\ UNCHANGED <<phase, spawned, home, status, taskCount, cachedDoc, alive, inbox,
                   draining, queue, callVars, execVars>>

-----------------------------------------------------------------------------
(* startScalingMonitor, scaleDownOne                                        *)

ScaleUp(k) ==
    /\ WorkersOf(k) # {}
    /\ Cardinality(WaitersOf(k)) >= ScaleUpThreshold
    /\ Cardinality(WorkersOf(k)) < MaxPerKey
    /\ ~AtCapacity

ScaleDown(k) ==
    /\ WorkersOf(k) # {}
    /\ \A w \in WorkersOf(k) : status[w] = "ready"
    /\ WaitersOf(k) = {}
    /\ Cardinality(WorkersOf(k)) > MinPerKey

\* One tick of the two-second interval looks at every ruleset key.  Workers
\* under way are not counted: each tick may start another.  The
\* worker to go stays in the maps, 'ready', until terminate() resolves.
ScalingTick ==
    LET up   == {k \in Keys : ScaleUp(k)}
        down == {k \in Keys : ScaleDown(k)}
    IN  /\ phase = "ready"
        /\ MicrotasksDrained
        /\ up \cup down # {}
        /\ \A k \in up : spawning[k] < MaxSpawning
        /\ spawning' = [k \in Keys |-> IF k \in up THEN spawning[k] + 1 ELSE spawning[k]]
        /\ \E target \in [down -> workers] :
              /\ \A k \in down : target[k] \in LeastUsed(WorkersOf(k))
              /\ draining' = draining \cup {target[k] : k \in down}
              /\ alive' = [w \in Workers |-> alive[w] /\ \A k \in down : w # target[k]]
        /\ UNCHANGED <<phase, spawned, workers, home, status, taskCount, cachedDoc, inbox,
                       failing, queue, callVars, execVars>>

\* terminate() has resolved; results not delivered by now never will be.
ScaleDownDone(w) ==
    /\ w \in draining
    /\ MicrotasksDrained
    /\ draining' = draining \ {w}
    /\ workers' = workers \ {w}
    /\ inbox' = [inbox EXCEPT ![w] = {}]
    /\ UNCHANGED <<phase, spawned, home, status, taskCount, cachedDoc, alive,
                   spawning, failing, queue, callVars, execVars>>

-----------------------------------------------------------------------------
(* shutdown                                                                 *)

\* The interval is cleared and every registered thread is told to stop; the
\* pool keeps answering executeTask until they have.
Shutdown ==
    /\ phase = "ready"
    /\ MicrotasksDrained
    /\ phase' = "stopping"
    /\ alive' = [w \in Workers |-> alive[w] /\ w \notin workers]
    /\ UNCHANGED <<spawned, workers, home, status, taskCount, cachedDoc, inbox,
                   createVars, queue, callVars, execVars>>

\* Mutant: the waiters' timers are cleared and nobody resolves them.
ShutdownForgetsWaiters ==
    /\ phase = "stopping"
    /\ MicrotasksDrained
    /\ phase' = "stopped"
    /\ queue' = <<>>
    /\ workers' = {}
    /\ UNCHANGED <<spawned, home, status, taskCount, cachedDoc, alive, inbox,
                   createVars, callVars, execVars>>

\* Every waiter is resolved with null and the maps are cleared.
ShutdownDone ==
    /\ phase = "stopping"
    /\ MicrotasksDrained
    /\ phase' = "stopped"
    /\ pc' = [t \in Tasks |-> IF Contains(queue, t) THEN "failed" ELSE pc[t]]
    /\ queue' = <<>>
    /\ workers' = {}
    /\ inbox' = [w \in Workers |-> IF alive[w] THEN inbox[w] ELSE {}]
    /\ UNCHANGED <<spawned, home, status, taskCount, cachedDoc, alive,
                   createVars, attempt, pick, execVars>>

-----------------------------------------------------------------------------
CallStep(t) ==
    \/ Call(t) \/ ResolveFail(t) \/ Select(t) \/ WaitTimeout(t)
    \/ CreateDone(t) \/ CreateFail(t) \/ Execute(t)

WorkerStep(w) ==
    \/ \E e \in inbox[w] : \E success, cacheHit \in BOOLEAN : Result(w, e, success, cacheHit)
    \/ WorkerError(w) \/ ReplaceWorker(w) \/ ScaleDownDone(w)

Next ==
    \/ Initialize \/ InitializeDone
    \/ \E k \in Keys : SpawnDone(k) \/ SpawnFail(k)
    \/ \E t \in Tasks : CallStep(t)
    \/ \E w \in Workers : WorkerStep(w)
    \/ \E e \in timers : TaskTimeout(e)
    \/ ScalingTick
    \/ Shutdown \/ ShutdownDone

Spec == Init /\ [][Next]_vars

\* The event loop runs on: microtasks and timers are not put off forever,
\* terminate() and file access return, and loading a thread ends in the
\* 'ready' message or in its 30-second timer.  Nothing is asked of the threads
\* that run tasks, nor of callers, of the scaling monitor or of shutdown.
Fairness ==
    /\ WF_vars(\E k \in Keys : SpawnDone(k) \/ SpawnFail(k))
    /\ \A t \in Tasks :
          /\ WF_vars(ResolveFail(t) \/ Select(t))
          /\ WF_vars(CreateDone(t) \/ CreateFail(t))
          /\ WF_vars(Execute(t))
          /\ WF_vars(WaitTimeout(t))
    /\ \A w \in Workers : WF_vars(ReplaceWorker(w)) /\ WF_vars(ScaleDownDone(w))
    /\ \A e \in Execs : WF_vars(TaskTimeout(e))

FairSpec == Spec /\ Fairness

-----------------------------------------------------------------------------
(* Invariants                                                               *)

TypeOK ==
    /\ phase \in {"new", "starting", "ready", "stopping", "stopped"}
    /\ spawned \in 0..MaxSpawns
    /\ workers \in SUBSET (1..spawned)
    /\ home \in [Workers -> Keys]
    /\ status \in [Workers -> {"initializing", "ready", "busy", "error", "terminated"}]
    /\ taskCount \in [Workers -> Nat]
    /\ cachedDoc \in [Workers -> Docs \cup {NoDoc}]
    /\ alive \in [Workers -> BOOLEAN]
    /\ inbox \in [Workers -> SUBSET Execs]
    /\ spawning \in [Keys -> Nat]
    /\ failing \in [Workers -> Nat]
    /\ draining \in SUBSET Workers
    /\ queue \in Seq(Tasks)
    /\ pc \in [Tasks -> {"idle"} \cup Pending \cup Settled]
    /\ attempt \in [Tasks -> 0..MaxAttempts]
    /\ pick \in [Tasks -> 0..MaxSpawns]
    /\ timers \in SUBSET Execs
    /\ handlers \in SUBSET Execs
    /\ errHandlers \in SUBSET Execs

\* An execution that has not settled has its timer armed and both its handlers
\* registered (lines 370-383): whatever becomes of the thread, the promise of
\* executeTask still has something that will settle it.
RunningIsArmed ==
    \A t \in Tasks : pc[t] = "running" =>
        ExecOf(t) \in timers /\ ExecOf(t) \in handlers /\ ExecOf(t) \in errHandlers

\* A 'message' handler is registered only for an execution that has not
\* settled (the off() calls at 312, 354 and 368): a late answer of the thread
\* never counts for a call that has already been told something else.
HandlersAreLive == \A e \in handlers : IsCurrent(e)

\* A worker marked busy has a timer that will mark it ready again, also when
\* its thread is dead or was replaced: no worker stays busy for ever.
BusyIsArmed ==
    \A w \in Workers : status[w] = "busy" => \E e \in timers : e.worker = w

\* workerReadyCallbacks holds each call that waits exactly once and no other:
\* no waiter is dropped, and none is given two workers.
QueueHoldsWaiters ==
    /\ \A i, j \in 1..Len(queue) : queue[i] = queue[j] => i = j
    /\ \A t \in Tasks : pc[t] = "waiting" <=> \E i \in 1..Len(queue) : queue[i] = t

\* No lost wakeup: while a call waits for a ruleset, some worker of that
\* ruleset is about to be taken or has a timer armed, so notifyWorkerReady will
\* be called for the ruleset again (315-321 and 372-376).
NoLostWakeup ==
    \A k \in Keys : WaitersOf(k) # {} =>
        \/ \E e \in timers : home[e.worker] = k
        \/ \E t \in Tasks : pc[t] = "picked" /\ KeyOf[t] = k

\* A task is only ever given to a worker that has loaded the ruleset it asks
\* for, through selection, through the queue, and after replacements.
WorkerPerRuleset ==
    \A t \in Tasks : pc[t] \in {"picked", "running"} =>
        pick[t] \in 1..spawned /\ home[pick[t]] = KeyOf[t]

\* The pool as its calls, workers, timers and handlers have it together: no execution
\* is under way or over without the others knowing, whatever overlapped.
PoolIsConsistent ==
    /\ TypeOK /\ QueueHoldsWaiters /\ WorkerPerRuleset
    /\ RunningIsArmed /\ HandlersAreLive /\ BusyIsArmed

\* A worker that is in the map as 'error' (352-363) has a handleWorkerFailure
\* under way that will remove it: a failed worker is never left to block the
\* ruleset, where selectWorker would answer null for ever (243-249).
ErrorIsReplaced ==
    \A w \in workers : status[w] = "error" => failing[w] > 0

-----------------------------------------------------------------------------
(* Action properties                                                        *)

\* Waiters for one ruleset are served in the order they came (506-511): when
\* one gets a worker, none that came before it is still in the queue.
ServedInOrder ==
    [][\A i, j \in 1..Len(queue) :
          /\ i < j /\ KeyOf[queue[i]] = KeyOf[queue[j]]
          /\ pc'[queue[j]] = "picked"
          => pc'[queue[i]] # "waiting"]_vars

-----------------------------------------------------------------------------
(* Liveness and refinement                                                  *)

\* Every busy worker is given back, whether or not its thread ever answers.
EveryWorkerFreed ==
    \A w \in Workers : status[w] = "busy" ~> status[w] # "busy"

CallState(t) ==
    CASE pc[t] = "idle"      -> "none"
      [] pc[t] \in Pending   -> "pending"
      [] pc[t] \in Settled   -> pc[t]

Service == INSTANCE TaskService WITH call <- [t \in Tasks |-> CallState(t)]

\* executeTask keeps its promise: every call settles once, and does settle,
\* whatever the threads do - they may never answer, die, be scaled down or be
\* shut down under the call.
ImplementsTaskService == Service!Spec
=============================================================================
