# Linting Orchestrator: TLA+ specifications

This directory specifies the linting orchestrator (`packages/orchestrator`, with
`packages/document-store` and `packages/reports` beside it): a Node.js daemon that
accepts lint jobs over HTTP, runs them on a pool of worker threads, caches the
results and reports them to a service of its own, and a CLI in front of it.

Run from this directory:

    tlc -workers 2 -config orch_jobs.cfg MCOrchestrator.tla     (one run)
    tlapm OrchestratorProofs.tla                                (the proofs)

`PROJECT.json` lists the runs, what each checks, the source lines each
definition models, the known hazards of the code and the finding.

## 1. The system

| Component (source) | State | Operations | Talks to |
|---|---|---|---|
| Worker pool (`orchestrator/src/worker-pool.ts`) | `workers`, `workersByRuleset`, `workerReadyCallbacks`, per worker a status, a task count and the document it last held; per execution a timer and two handlers on the thread | `initialize`, `executeTask`, `selectWorker`, `executeOnWorker`, `createWorker`, `notifyWorkerReady`, `handleWorkerFailure`, the scaling tick, `shutdown` | worker threads by message, the document store, the ruleset loader |
| Worker thread (`worker.ts`) | loaded ruleset, one cached document, its status | `execute`, `evict-cache` and `shutdown` messages, a time limit | the pool by message, files |
| Ruleset loader (`ruleset-loader.ts`) | rulesets loaded, temporary files of embedded ones | `loadVersion`, `clearCache`, source metadata | file system |
| Job orchestrator (`orchestrator.ts`) | `jobs`, `activeJobCount`, `initialized` | `submitJob`, `executeJob`, `executeTaskWithRetry`, `checkCache`, `invalidateCache`, `shutdown`, queries | pool, result storage, document store, report client |
| Result storage (`storage/*.ts`) | results by job, indexes by document, key, status, ruleset, time | `storeJob`, `retrieveJob`, `exists`, `invalidate`, `clear`, `listJobs`, statistics | called by the orchestrator |
| HTTP server (`server.ts`, `formatters/sarif-builder.ts`) | - | the routes | orchestrator, storage, document store |
| Document store (`document-store/src`) | files with metadata, a memory cache, a search index, an upload history | store, get, update, delete, list, search | file system |
| Report client (`reports/src/client`) | pending notifications on disk, the retry job | `notify`, retry run, dead letters, `shutdown` | report server by HTTP |
| Report server (`reports/src`) | SQLite tables | insert, pages, queries, health, shutdown | - |
| Report cleanup (`reports/src/cleanup`) | the jobs it has listed | list, ask, delete | the same tables, from another process |
| CLI (`orchestrator/src/cli`) | history and configuration files | `lint`, `history`, `config` | HTTP API |

The daemon is one JavaScript thread plus worker threads. Its concurrency is the
interleaving of code between `await`s: a function runs alone from one `await`
to the next, promise continuations run before the next timer or message, and
everything read before an `await` may be stale after it. The CLI and the cleanup
are processes that share files or tables with others. What is hard in this
code, component by component, and what makes it correct:

- **Pool.** Calls select a worker without reserving it; an execution's timer and
  error handler outlive its result; threads die, hang or are scaled down under
  a call; creations, failures and shutdown overlap. Correct means: every call
  settles once, waiters are served in order and never forgotten, a worker is
  never lost as busy or in error, and runs only tasks of its ruleset.
- **Thread.** Handlers of several `execute` messages interleave at their awaits and
  share one cached document; the linter may settle after the thread's own timer.
  Correct means: each task is answered once, with the findings of its document,
  and the last status sent is true.
- **Ruleset loader.** Loads overlap, and the temporary file one of them wrote is read by
  threads started much later. Correct means: a path that was answered exists.
- **Orchestrator.** Capacity is read before awaits and counted after; a job can
  fail in its task, in its aggregation, or at shutdown. Correct means: the
  counter is exact, each job ends with one final status, one stored result and
  one report, hits are finished jobs of the same key, and all attempts are used.
- **Storage.** Six indexes change together, results expire, and `invalidate` is
  interruptible. Correct means: they agree, lookups answer the latest result,
  and an invalidation removes everything its document had when it began.
- **HTTP server.** A client makes several requests, between which jobs end and results
  are removed. Correct means: what one answer said, the next does not deny.
- **Document store.** Deduplication, quota and version numbers are checked, then
  awaited, then written; three files are rewritten whole by calls that overlap.
  Correct means: a listed document has its file, and a creation that was
  answered survives.
- **Report delivery.** A notification survives failures through files; crashes
  and ambiguous timeouts may lose or repeat it. Correct means: what reached the
  pending directory is delivered or dead-lettered, and the server keeps it once.
- **Report server.** Another process deletes between two statements of a handler, or
  while its own user is asked. Correct means: tables agree, pages miss nothing but what a
  deletion between them takes away, only old jobs are deleted, and the server stops.
- **CLI.** Processes load, change and save the same files; the daemon restarts under
  a command. Correct means: as long as no two commands use a file at once, the
  history is of one session and settings stay as told; errors that were fetched reach the
  exit code.

## 2. Modules

| Module | Contents |
|---|---|
| `TaskService` | abstract: what `executeTask` promises a caller |
| `WorkerPool` | the pool in full; implements `TaskService` |
| `LintCache` | abstract: what the result storage promises the orchestrator |
| `LintStorage` | the memory storage with its indexes; implements `LintCache` |
| `JobService` | abstract: what `submitJob` promises a client |
| `Orchestrator` | the job orchestrator over `TaskService` and `LintCache`; implements `JobService` |
| `HttpApi` | extends `LintStorage`: the conversations of clients with the routes |
| `RulesetLoader`, `WorkerThread` | the loader; one thread |
| `ThreadStart` | composes them: a thread started on a path a load has answered |
| `DocumentStore` | coordinator, cache, data store and upload history |
| `DeliveryService` | abstract: what the report client promises of a notification |
| `ReportDelivery` | the report client, its files and the server's insert; implements `DeliveryService` |
| `ReportServer` | the server's handlers over its tables, and the cleanup process |
| `LintCommand` | runs of the CLI over one home directory |
| `MC...` | small instances for TLC |
| `WorkerPoolProofs`, `ThreadStartProofs`, `OrchestratorProofs`, `DocumentStoreProofs`, `ReportDeliveryProofs`, `ReportServerProofs`, `LintCommandProofs` | theorems and proofs |
| `HttpApiProofs` | theorems and proofs of `LintStorage` and, resting on them, of `HttpApi` |

The orchestrator and the pool meet in `TaskService`: `WorkerPool` is shown to
implement it, and `Orchestrator` uses it as its pool and is shown to stay within
it (`UsesPoolAsAgreed`). The orchestrator and its storage meet in `LintCache` in
the same way. Neither model needs the other's state.

A definition named *Mutant* is a plausible wrong version of the one after it. No
specification uses it; putting it in the place of the right one makes the
property that guards the spot fail, which shows that the property can fail.

Properties that belong together are conjuncts of one that is checked:
`PoolIsConsistent`, `JobsAreConsistent`, `StorageIsConsistent`, `ThreadIsConsistent`,
`LoaderIsConsistent`, `StoreIsConsistent`, `DeliveryIsConsistent`,
`TablesAreConsistent`, `ReadersSeeAll`, `HistoryIsConsistent` and `ToldIsSo`. The
comment before each conjunct says what it means.

### WorkerPool

An action is one run of synchronous code. Timers, messages, `error` events and
finished `terminate()` calls are macrotasks: they need `MicrotasksDrained`, that
is, no call between `selectWorker` resolving and `executeOnWorker` running.
`pc[t]` says where the call of task `t` stands:

    idle -> resolving -> picked -> running -> ok / failed / timeout
                |  \-> waiting -> picked
                \-> creating -> reselecting -> ...

`timers`, `handlers` and `errHandlers` hold executions (task, attempt, worker).
They are three sets because the code removes them separately: the result handler
removes only itself, the timer removes all three, an error removes both handlers.
`Result`, `TaskTimeout`, `WorkerError`, `ReplaceWorker`, `ScalingTick`,
`ScaleDownDone`, `Shutdown` and `ShutdownDone` are the handlers of the code,
each with the `notifyWorkerReady` it ends in. A dead thread takes messages and
never answers. An `error` event nobody listens for ends the process and is left
out.

### RulesetLoader, WorkerThread, ThreadStart

A load is named after its call, and so is the object it makes: two overlapping
loads of one ruleset make two objects, and the cache keeps the later. An embedded
ruleset has a temporary file (`shims`). `WorkerThread` is the message handler of one
thread. `at[t]` is where the handler of a task is: `reading` the document,
`running` Spectral under the time limit, `stray` when the limit has answered and
Spectral has not settled yet. `slot` is the one cached document, which every
handler may replace at its awaits; `told` is the last `status` message. The
document a task is computed on, `doc[t]`, is fixed when its read returns.
`ThreadStart` lets a thread start on any path a load has answered, with
`clearCache` in between.

### Orchestrator

A submission is its job and its task: the code has one task per job. `pc` is the
place in `submitJob`, `step` the place of `executeJob` and the handlers on its
promise:

    calling <-> backoff
       |-> delivering -> settling -> done          (the normal path)
       \-> broken     -> settling -> done          (aggregation throws)

`Submit` reads the capacity and the index in one run; `Accept` counts the job
after the awaits. `Conclude` sets the status and stores the result in one run, as
the code does. The aggregation throwing is kept as a choice, because the code
has a handler for it. `Exit` is the `process.exit` that follows shutdown.
A finished job is handed to the report client in `settling`; what comes of it is
`ReportDelivery`.

### LintStorage

Every method of `MemoryLintStorage` is one step, except `invalidate`, which awaits
between removals while it iterates over the document's own `Set`. A `Set` keeps
its identity (it is named after the job it was made for), because one that the map has
dropped lives on for the loop that iterates over it. `looping[v]` is what a call of
`invalidate` has visited; `raced` remembers results stored meanwhile. `listJobs`,
`getDocumentLintActivity` and `getStats` are operators over this state.

### HttpApi

The storage of `LintStorage` with the orchestrator's map of jobs and clients that
submit, poll, read statistics, page through filtered issues until `hasMore` is
false, have the SARIF report made, ask for instructions to reproduce, or page through the
list of jobs, with or without the documents' metadata. The answers are computed by
`ApplyRuleOverrides`, `QueryJobResults`, `Breakdown`, `BuildSarif` and `Listing`, on
sequences of issues with a rule, a severity and a path. Jobs of other clients and
`DELETE` go on between any two requests.

### DocumentStore

One call is at one `await` of the file system. The manager's map and its three images
on disk (`metadata.json`, the search index, the upload index) are separate
state. A write takes an image when it begins; while it is under way the process may
end, which leaves the old file, the new one or a torn one, and another write may
overlap it, which leaves either (`rivals`). A document is its content, which stands
for its checksum. `obj` holds the metadata objects, of removed documents too, as
`update` mutates the object it looked up before its awaits.

### ReportDelivery

Between two `await`s the client does one file operation or waits for one answer,
so a worker is at one of a few places. There are two kinds of workers, with the
parts they share written once: a notify call, named after its notification, and a
run of `retryPendingNotifications`.

    notify:  new -> sending <-> backoff
                       |  \-> store -> storing -> over
                       |-> over
                       \-> storeDead -> storingDead -> move ...
    run:     idle -> listing -> next -> update -> updateWrite -> updating -> sending
                                 |                                  unlink <-|
                                 \-> move -> bury -> burying -> unlink -> next

Nothing keeps two runs apart: the timer starts one while another, or `retryNow`, is
under way. A file is written in two steps, since `writeFile` truncates first;
`file[n]` is absent, torn or the count of attempts in it, and `list()` and
`updateAttempt` treat a torn one as the code does, as one that does not parse.
A request that is given up stays in `late` and may still arrive.
`Exit` is any end of the process: `shutdown()` only stops the timer. Errors of the
file system other than a missing file are left out, and all notifications are
for one document, which is the case the server's counter can go wrong in.

### ReportServer

A handler runs alone in its process, except `GET /health`, which awaits the pending
directory. The cleanup, in its own process, may delete between two statements of a
handler: a page counts and then selects, a job view reads the job and then its
rows. The cleanup lists, may ask its user, and then deletes what it listed.
Completion times count half days, so that the code's comparison of a time as text
with a cutoff of another format has its effect: the jobs of the cutoff day stay.
A notification is one step here; how it gets there is `ReportDelivery`. `cut` counts,
for each reader, the jobs it was going through that a cleanup deleted. A deletion
between two pages moves later jobs up over the reader's offset, so that it misses one
that still is there; `MissesAreBounded` says that it misses no more than were deleted,
whatever is stored meanwhile. A job deleted between the two statements of its view is
shown without results (`ViewIsWhole`).

### LintCommand

A run of the CLI is a process. It shares `config.json`, `history.json` and
`history-metadata.json` with the others; a file is read at once and written in two
steps, being empty in between. `lint` loads its configuration, submits one job
per ruleset, polls, fetches the results, saves the history and computes its exit
code; `history --clear` and `config` use the same files. Any fetch may fail, for whatever
reason: at the first, a run of one ruleset ends with 1 and a run of several writes a
minimal entry; in the summary the job counts no errors (`SummaryFails`, remembered in
`missed`). A reset does not read the file before it writes. The server may restart, with
a new session and without its jobs, and a run may be interrupted anywhere.
`raced` and `mixed` remember that two runs have overlapped on the history or on the
configuration, or that one was interrupted in a write: the code locks nothing and renames
nothing, so what the properties say of the files is for behaviours in which that has not
happened.

## 3. Runs

Passing runs:

| Run | Instance | Shows |
|---|---|---|
| `pool_queue` | 3 tasks on 1 of 2 rulesets, up to 3 threads, no restarts | `PoolIsConsistent` (queue, timers, handlers and workers know of each other; tasks stay with their ruleset), no lost wakeup, first come first served |
| `pool_liveness` | 2 tasks, 3 threads, restarts, fair event loop | workers in error are being replaced, busy workers come back; `TaskService` with liveness |
| `orch_jobs` | 2 submissions for one key, one with overrides, 1 job place, 2 attempts, fair event loop and pool | `JobsAreConsistent` (reported once, and stored), the counter, hits, attempts, use of the pool; `JobService` with liveness |
| `lint_storage` | 3 results of one document, 2 keys, 2 invalidations, expiry | `StorageIsConsistent` (indexes, lookups, listings, counts), invalidations are complete; `LintCache` |
| `http_api` | 3 jobs, 2 keys, 1 client beside others, 1 invalidation, page sizes 1 and 2 | `ToldIsSo`, pages and SARIF report agree with the statistics, counts agree (of the statuses `completed` and `timeout`), a listing misses no job |
| `threads` | 2 loads (one ruleset embedded, one broken), 1 thread, 2 tasks on 2 documents, 1 eviction | `LoaderIsConsistent`, `ThreadIsConsistent`, every task is answered |
| `documents` | 2 clients, 2 calls, 2 contents of different size under a quota, 1 cached document, 1 fault | `StoreIsConsistent`, created documents survive, uploads are recorded, pages agree with searches |
| `delivery_overlap` | 1 notification, 2 retry runs, 1 end of the process | what is on disk is safe, the retry limit, `DeliveryService` with liveness |
| `delivery_kinds` | 2 notifications (one too large, one refused), 1 retry run, 2 ends | `DeliveryIsConsistent`, `DeliveryService` with liveness |
| `report_server` | 3 jobs of 2 documents, 1 reader with pages of 1, 1 cleanup, 4 half days | `TablesAreConsistent`, `ReadersSeeAll` beside a deletion, only old jobs are deleted, the server stops |
| `cli` | 2 runs (lint with 2 rulesets beside lint, clear; lint or config beside config), 1 restart, 1 interruption | `HistoryIsConsistent`, settings are kept, errors that were fetched are reported, every command ends |

One run refutes what the documentation says (see `findings`): in `orch_overrides`
a submission without rule overrides is answered with the result of a job that had
some, although a comment and `exclude-rules.md` say that overrides are
part of what makes a result unique.

More disagreements were seen while modelling. They are behaviours of the models, which
no property forbids, and have no run of their own.

In the pool and its threads:

- The timer of an execution that is over marks its worker ready while a later task runs
  on it (`worker-pool.ts:367`, against `lint-orchestrator-design.md:345`).
- `createWorker` compares with `totalMaxWorkers` (`worker-pool.ts:416`, "Check total
  worker limit") and counts the worker after an `await`, so that overlapping
  creations exceed the limit; a scaling tick (578) ignores those under way, too.
- A worker that has just started is marked ready without `notifyWorkerReady`
  (`worker-pool.ts:487`), while `concurrency.md:588` has waiters be notified when a
  worker becomes ready: a waiter waits for the next worker to finish.
- A worker whose creation was under way registers after the pool was shut down,
  with nobody left to terminate its thread.
- An `error` event starts one replacement per error handler still registered,
  those of finished executions included, where `worker-pool.ts:539` speaks of one.
- `restartCount`, which the restart limit compares (520), is never incremented.
- The pool notes a worker's document on cache hits only (328), against the comment
  at 249 and `CHANGELOG.md:40`. An expired entry is read again and still reported as a hit.
- Overlapping first loads of an embedded ruleset each write a temporary directory.

In the orchestrator, its storage and its routes:

- Submissions that overlap exceed the capacity: it is read before two awaits and raised
  after them (`orchestrator.ts:210`, against `concurrency.md:672`). The check also comes
  before the cache lookup that `concurrency.md:525` says bypasses it.
- `shutdown` waits for the active jobs and then stops; a submission accepted after
  its last poll (`orchestrator.ts:1020`) is cut off.
- `results.push(...incoming)` (388) throws for very many results; the job then counts
  as completed and as failed.
- `listJobs` computes the total from the page it has cut, so that `hasMore` is always
  false (`orchestrator.ts:700`, against `job-and-document-listing.md:1020`); the model's
  client, like `cli/commands/jobs.ts`, cannot rely on it.
- `getStats` counts a job that timed out in no bucket. `task.result.issueCount` is
  read from `issues` (370) while a worker answers `results`, and is 0.
- A job that was running when its document was invalidated stores its result
  afterwards, and a result stored under a running `invalidate` stays retrievable by key
  but not by document. A result that had expired when it was invalidated counts twice.
- The filter by path compares text, so that it may find more than the statistics count
  for that path; the fingerprints of two issues of one rule, path and line coincide.

In the document store:

- A duplicate may be answered with a document that another call is still saving.
- Two writes of `metadata.json`, or of the index of uploads, that overlap may leave the
  older image, a write that fails leaves an upload unrecorded, and the end of
  the process in a write a torn one, with which `initialize` throws; a torn upload index
  starts afresh instead.
- The quota is checked before the duplicate is looked for. Updating a document with its own
  content makes it its own previous version. A listing is filtered after it was cut into
  pages. A read that missed the cache fills it after a delete has evicted the document.

In the reports:

- "Never lose reports" (`reports/README.md:20`): a notification in back-off is in
  memory only. The fate `lost` of `DeliveryService` is this.
- A retry run that was overtaken writes a delivered notification's file again
  (`client/storage.ts:97`, against `client-integration.md:394`); a file torn there is
  skipped for ever.
- A server that stored a job after its client gave up answers the retries with
  500 for the duplicate, and the delivered notification ends as a "permanently
  failed" one (`client/storage.ts:141`).
- The pending file keeps the notification as it was before it was shrunk
  (`client/index.ts:217`), so that retries are refused for their size.
- With three retry runs at once a stale count, written late, renews the limit on
  retries; `AttemptsBounded` is stated for two.
- `architecture.md:384` has the cleanup update the documents' `total_lints`; `deleteJobs`
  (`cleanup.ts:126`) deletes from `jobs` only, and the count goes on including what was
  deleted. `LintsAreCounted` takes no side: a count is at least the stored jobs and at
  most those and the deleted ones, which either behaviour satisfies.
- Cleanup prints the number listed as the number deleted and keeps the jobs of the cutoff
  day. A job sent again after its deletion is stored and counted anew.

In the CLI:

- A port set in the session that created `config.json` is written into the defaults,
  which `load` copies one level deep, and a reset keeps it; `SettingsAreKept` excepts it.
- Two runs that change `config.json` overwrite each other, and one that loads it while it
  is written resets it. Setting a default mode, or a reset, does not tell the history.
- An interrupted write of `config.json` leaves a file that does not parse, and the next
  command puts the defaults in its place.
- The summary of several rulesets counts no errors for a job whose results it cannot fetch
  (`lint.ts:354`: the server does not answer, the results were invalidated, the job is
  gone), nor for one that failed: `lint` then exits with 0, which `cli/README.md:155` and
  181 explain as a run without errors. `ErrorsAreReported` says what is left: all jobs
  were seen settled, and errors are unreported only where `missed` has the job.
- `lint` takes the server from the embedded configuration and ignores `url` and
  `SPECTIFYD_URL` (`utils/embedded-server.ts:61`); it never exits with 2 (against
  `quick-start-cli.md:327`).

**Bounds.** `MaxSpawns` limits the threads ever created: three are two initial
ones and a replacement or a scaled-up one, enough for every overlap of
creation, failure and shutdown of two workers. `MaxAttempts` is 1: with two attempts of two
or three tasks the pool is out of reach, so that a retry of a task on the worker of its
first attempt, whose timer and handler are still there, is covered by the theorems of
`WorkerPoolProofs` alone, which hold for any number of attempts. `MaxSpawning` limits creations
under way at a scaling tick. Two tasks are enough for a stale timer or
handler to meet another execution; three are needed for an order in the queue.
Two submissions of one key give a hit, a refusal at one place, and a job with
overrides beside a plain one; the theorems are for any number. Three
results make one that replaces another of its key and one that does not, and two
invalidations make one run in the `Set` another is in. Two issues on a page leave a full
page, a short one and an empty one of four issues. Two tasks suffice for
one to replace the document of the other between its awaits. In the document store two
calls of two clients show each overlap of two writes; `MaxFaults` bounds failing writes
and ends of the process together. Notifications meet only in the server's counter, so one
notification with two runs shows the overlaps, and two notifications the counter;
two attempts and two retries let each be the last and not the last. Three jobs on
pages of one let a job be inserted or deleted before, at and behind the reader. In the CLI
one restart and one interruption, at any point of two runs, show each case in
which a run meets what another left; `MaxEntries` of two makes the history full.
Time is not modelled: a timer that is armed may fire at any later moment, so every
order of a timeout and an answer is there. Deadlock checking is off since tasks,
submissions and calls are finite and the system then stops.

**Fairness.** Weak fairness on what the event loop runs by itself: microtasks,
armed timers, the end of `terminate()` and of file access, a thread's start-up,
which is limited to 30 seconds by a timer of the code. None on a thread's
answer to a task, on errors, on clients, on the scaling tick, on shutdown or on
invalidation. `Orchestrator` adds that the pool settles what it has accepted: that
is `TaskService!Spec`, which `pool_liveness` checks of the pool. `ReportDelivery`
assumes that requests end, by the time limit of `fetch`, that file operations
end, and that the retry timer, an interval, keeps starting runs (the client is
configured with its retry job on). It assumes nothing of the server, the
network, the callers, or the end and start of the process. `WorkerThread` assumes that a
read ends and that the thread's own timer fires, not that Spectral settles.
`ReportServer` assumes that `close()` calls back and that a health
request's file access ends. `LintCommand` assumes that a run goes on, polls being
limited in number by the code, and nothing of the server.

## 4. Proofs

Eight modules of proofs hold for every value of the constants that the named
assumptions allow: finite sets where the code counts, natural numbers, a null value
outside the set it extends. Each has an inductive invariant `IInv` (`LoaderInv` and
`ThreadInv` in `ThreadStartProofs`, `LimitInv` beside it in `ReportDeliveryProofs`), the lemmas that each step keeps it, and short theorems.
`PROJECT.json` lists those that state a property of a run.

`WorkerPoolProofs` proves, for all sets of tasks, rulesets and documents, that
`IInv` is inductive. It joins

- the types, with the finiteness of the sets and the counters within the number
  of threads started (`TypeInv`, `Started`);
- `WorkerPerRuleset` and `ExecsPlaced`: tasks, timers and handlers are on a worker
  of the task's ruleset. The invariant about lost wakeups needs this of timers,
  since it is the worker of the timer that is offered to the queue;
- `RunningIsArmed`, `HandlersAreLive`: who is running and who listens determine
  each other, which is why a result settles only the call it belongs to;
- `BusyIsArmed`, `RegisteredWasReady`, `ErrorIsReplaced`: what each status of a
  worker promises;
- `QueueHoldsWaiters` and `WaiterHasWaker`, the inductive form of `NoLostWakeup`.

From it follow `PoolIsConsistent`, no lost wakeup, the order of service, and
`Spec => Service!SafeSpec`.

`OrchestratorProofs` does the same for `Orchestrator`. Its invariant says that
`step` determines the status, the attempts, the reports and the storage of a job
(`JobOK`), that the cache holds ended jobs under their own key (`CacheOK`), and that
the counter is the cardinality of the active jobs. `GivesUpLast` is not inductive
without what `JobOK` says of a call in back-off, nor `HitIsFinished` without
what `CacheOK` says of every entry of the index. It also proves that a status that
was reported does not change (`FinalIsFinal`), which no run repeats.

`HttpApiProofs` proves, of `LintStorage`, for any number of interleaved invalidations that lookups
answer the latest result (`LookupIsLatest`), that only a result stored under a running
`invalidate` can be missing from its document's index, that an invalidation is
complete, that a listing is exact, and `Spec => Cache!Spec`. The
invariant relates each loop to the `Set` it iterates over, which the index may have
dropped: what is due and not yet visited is still in that `Set` or gone. From it and
two more parts (`WholeInv`) follows all of `StorageIsConsistent`. `TimesOK` says that the
index by time is sorted, which needs what an insertion before the first older result
and a removal by place do to a sequence. `Counted` says what `RemovalsAreCounted` leaves
open while invalidations run: a removal not yet counted is a visit of one of
them, a visit that found nothing may be counted for another's removal, and both are
counted when the loop ends.

Of `HttpApi` it proves the five properties of `http_api` for any number of clients, jobs,
issues, filters, page sizes and invalidations. A step of the API is one of the
storage or none (`StorageStep`), so `WholeInv` carries over; `JobsInv` says that the
orchestrator's ended jobs are the stored ones, once each. `Talks` says what is true of a client
at each point of its conversation, and stays true under the steps of all others
(`RecordKept`) because of three facts: a job keeps its status, so what is computed from it
stays the same; a stored job stays stored and a removed one removed; and a job in a
listing only moves back while nothing is removed (`PlaceGrows`). From the last follows
`ListMissesNothing`: a job that was due is read, in the page at hand, or at a place not
before the next page. The pages of issues are a beginning of the issues that pass, and
`Sequenced`, `Chosen` and `RulesOnce` say how long such lists are.

`DocumentStoreProofs` proves `StoreIsConsistent`, `CreatedAreKept`, `UploadsRecorded`
and `PagesMatchSearch` for any number of clients, documents, failing writes and ends of
the process. Its invariant has three layers, as the properties have hypotheses.
`BaseInv` holds always: the types, what an image on disk can be (whole, missing or
torn), that a listed document has its file, and what each call holds at its
await. `FaultlessOK` holds until the first fault: every image on disk or in a
write is one the map has had, and the record of an upload follows its document.
`OrderlyOK` holds while no two writes of `metadata.json` have overlapped: the call that
writes is the only one, so the image it leaves is the latest, which is what a
creation that was answered needs to survive a restart.
`PagesMatchSearch` needs of all this only that the map is finite; the rest is about
what a page and a filter compute, for any page size: the places of the listing and the
pairs of a page and a place on it correspond (`PageOf`, `OnePageOf`), and the documents
left of a page are told apart by how many that pass come before them (`Ranks`).

`ThreadStartProofs` proves that every path answered or cached exists (a file written
by a load is removed by none), that with the cache enabled loads are shared, and for any number
of open tasks that each is answered once and from its own document. `ResultIsOfDocument`
is inductive only with the fact that `doc` is set, to the document asked for, when
a task leaves `reading`, whatever the slot holds later.

`ReportDeliveryProofs` proves, for any number of notifications and overlapping runs,
that the server counts each job once, that a dead letter for a refusal is one
the server refuses, and `Durable`: what is on disk stays there until the
server has it. `Durable` needs two facts about steps far from each other.
`UnlinksWhatIsSafe`: a worker about to remove a file has seen the notification
delivered, or its dead letter is complete, or another worker is writing the same
dead letter again. `EarlyIsUnseen`: as long as a first delivery may still call
`store()`, no run knows of its notification, so the truncation there hits nothing.
It assumes that the process does not end within a write (`~TornWrites`):
`updateAttempt` rewrites the file in place, and a torn file is skipped for ever.

Under the same assumption it proves `Spec => Service!SafeSpec`: a notification is tried,
kept, set aside, lost or delivered, and goes from one to another only as the service
allows. The fates of `DeliveryService` are read off the disk, the
server and what the workers hold. `RInv` adds what the mapping needs: what `notify`
has not taken was sent to nobody, and whoever knows of a notification knows it from the
disk or has it delivered (`KnownIsSafe`, inductive because of `Durable`). A step is
about one notification (`OneStep`), so the fate of every other stands still.

The same module proves `AttemptsBounded` for any number of notifications, retries
and ends of the process, and one or two runs that overlap (`FewRuns`). A run that may
yet raise a count (`Armed`, `Pending`) leaves one below the limit, and the highest
count is written by a run that is alone (`Bounded`); a run meets a notification once
(`MeetsOnce`), so it raises a count once.

`ReportServerProofs` proves for any number of jobs, readers and cleanups that results follow
jobs, that `total_lints` counts each stored job once, that walks over pages miss no more
than was deleted and that the cleanup deletes no job younger than asked. A walk's
invariant (`WalkOK`): of the jobs that were there when the reader began, those it has not
seen stand at or after its offset in the order of the pages, but for as many (`Missing`) as
were deleted. Insertions only move them back. `DeletionShifts` says what a deletion of k
jobs does: the jobs at the first n places are n or all (`FirstCount`, as no two jobs have
one place), so no more can move up into those places than are deleted there, and with
those deleted behind them they are k.

`LintCommandProofs` proves `ErrorsAreReported` for any plans of up to three rulesets, runs,
restarts and interruptions. Per run (`LintOK`) the jobs submitted are those of the
rulesets passed, a job seen settled does not run again, whatever becomes of the server,
each job the summary has passed has its errors noted or is in `missed`, and every other
way out has another exit code.

It also proves `HistoryIsConsistent` and `SettingsAreKept`, which speak of the files that
the runs share. `FilesInv` says who holds them: while no two runs have overlapped
on the history (`raced`) one run at most is between its load and its last write
(`OneAtOnce`), and what it holds is what is on disk with its own entry added, or the start
of a new session (`FilingOK`). Only so does the pair of files on disk, of which the code
writes one after the other, belong to one session again when it is done. The
same is said of the configuration and `mixed` (`ConfigInv`).

Model-checked only: liveness and what needs fairness (`EveryWorkerFreed`,
`TasksAreAnswered`, `Stops`, `RunsEnd`, the liveness halves of the three services).
Every invariant and every action property that a passing run checks is also a theorem.

## 5. Not modelled

- The content of documents, rulesets and issues beyond rule, severity and path;
  the text of reports, pages and instructions (`formatters/reproduce-markdown.ts`,
  `cli/formatters.ts`, `templates`), which no later step reads.
- Schemas, types, `validation.ts`, `logger.ts`, `config.ts`: declarations and checks of
  one input. `applyEnvOverrides` and `validateConfig` are called by nothing the daemon
  runs.
- What the loader reads out of a ruleset (`extractRules`): data no step depends on.
- An exception nobody catches, running out of memory: they end the process.
- `RedisLintStorage`, whose methods throw; `document-accessor.ts` and the CLI's `start`,
  `stop` and `ps`, which nothing calls; `mock-server.ts`; the pass-through store, which
  keeps nothing.
- Version histories and relevance scores of documents; `clearPending` and the
  status and compatibility queries of the report client; `agents`, `list-rulesets`,
  completion and the embedded daemon of the CLI: they read, or start processes.

## 6. Plan

What would come next, in this order:

1. The retry limit for more than two runs that overlap.
2. `System`: `Orchestrator` over `WorkerPool` and `LintStorage` themselves.
