---------------------------- MODULE WorkerThread ----------------------------
(***************************************************************************)
(* A worker thread (orchestrator/src/worker.ts): 'execute' messages are     *)
(* handled concurrently, each handler awaiting the file system and Spectral, *)
(* and share the slot of a cache for one document.                          *)
(*                                                                         *)
(* An action is the code between two awaits.  What the thread tells the     *)
(* pool is kept as the last 'status' message and the results of each task;  *)
(* 'ping' and its answer change nothing and are left out, and so are the    *)
(* contents of a diagnostic: a result is the document it was computed on.   *)
(***************************************************************************)
EXTENDS Naturals, Sequences, FiniteSets

CONSTANTS
    Tasks,          \* lint tasks sent to the thread, each once
    Documents,
    Fitting,        \* documents within maxCacheSizePerWorker
    CacheEnabled,   \* documentCache.enabled
    MayExpire,      \* evictAfterMinutes > 0
    MaxEvictions,   \* bound: 'evict-cache' messages
    NoDocument      \* null

\* What the modules that start a thread assume of these.
WorkerThreadAssumption ==
    /\ Fitting \subseteq Documents
    /\ CacheEnabled \in BOOLEAN /\ MayExpire \in BOOLEAN
    /\ MaxEvictions \in Nat
    /\ NoDocument \notin Documents

VARIABLES
    phase,          \* "new", "up", "ended"
    workerStatus,
    slot,           \* cachedDocumentId and cachedDocument
    expired,        \* the slot's document is older than evictAfterMinutes
    stored,         \* documents whose file exists
    at,             \* of a task: "unsent", "reading", "running", "answered" or
                    \* "stray": answered while Spectral still runs
    asked,          \* the document a task names
    hit,            \* wasCacheHit
    doc,            \* the document a task's handler has
    results,        \* the 'result' messages of a task
    told,           \* the last 'status' message
    evictions,      \* 'evict-cache' messages so far
    believed        \* WorkerInfo.cachedDocumentId, which the pool keeps

threadVars == <<phase, workerStatus, slot, expired, stored, at, asked, hit, doc, results,
                told, evictions, believed>>

Statuses == {"initializing", "ready", "busy", "error", "terminated"}
Results == [success : BOOLEAN, document : Documents \cup {NoDocument}, cacheHit : BOOLEAN]

Init ==
    /\ phase = "new" /\ workerStatus = "initializing"
    /\ slot = NoDocument /\ expired = FALSE
    /\ stored = Documents
    /\ at = [t \in Tasks |-> "unsent"]
    /\ asked = [t \in Tasks |-> NoDocument]
    /\ hit = [t \in Tasks |-> FALSE]
    /\ doc = [t \in Tasks |-> NoDocument]
    /\ results = [t \in Tasks |-> <<>>]
    /\ told = [status |-> "initializing", slot |-> NoDocument]
    /\ evictions = 0
    /\ believed = NoDocument

Open == {t \in Tasks : at[t] \in {"reading", "running"}}

\* sendStatus
SendStatus(status, document) == told' = [status |-> status, slot |-> document]

\* initialize: the ruleset and the resolver load, or an 'error' message and
\* process.exit(1).
Initialize(loads) ==
    /\ phase = "new"
    /\ phase' = IF loads THEN "up" ELSE "ended"
    /\ workerStatus' = IF loads THEN "ready" ELSE "error"
    /\ UNCHANGED <<slot, expired, stored, at, asked, hit, doc, results, told, evictions, believed>>

\* The end of executeTask, its 'result' message and the status after it.  The pool
\* hears the message unless its own timer went first, and notes hits only.
Reply(t, success, next) ==
    LET m == [success |-> success,
              document |-> IF success THEN doc[t] ELSE NoDocument,
              cacheHit |-> success /\ hit[t]]
    IN  /\ workerStatus' = "ready"
        /\ results' = [results EXCEPT ![t] = Append(@, m)]
        /\ at' = [at EXCEPT ![t] = next]
        /\ believed' \in {believed, IF m.cacheHit THEN asked[t] ELSE believed}
        /\ SendStatus("ready", slot)

\* Mutant: the handler takes what the slot holds when it starts.
ExecuteAnyCached(t, d) ==
    LET cached == CacheEnabled /\ slot # NoDocument
    IN  /\ phase = "up" /\ at[t] = "unsent"
        /\ workerStatus' = "busy"
        /\ SendStatus("busy", slot)
        /\ asked' = [asked EXCEPT ![t] = d]
        /\ hit' = [hit EXCEPT ![t] = slot = d]
        /\ IF cached /\ ~(MayExpire /\ expired)
           THEN /\ doc' = [doc EXCEPT ![t] = slot]
                /\ at' = [at EXCEPT ![t] = "running"]
                /\ UNCHANGED <<slot, expired>>
           ELSE /\ slot' = IF cached THEN NoDocument ELSE slot
                /\ expired' = (expired /\ ~cached)
                /\ at' = [at EXCEPT ![t] = "reading"]
                /\ UNCHANGED doc
        /\ UNCHANGED <<phase, stored, results, evictions, believed>>

\* An 'execute' message up to the first await.  An expired entry is evicted and
\* read again, and still reported as a hit.
Execute(t, d) ==
    LET cached == CacheEnabled /\ slot = d
    IN  /\ phase = "up" /\ at[t] = "unsent"
        /\ workerStatus' = "busy"
        /\ SendStatus("busy", slot)
        /\ asked' = [asked EXCEPT ![t] = d]
        /\ hit' = [hit EXCEPT ![t] = slot = d]
        /\ IF cached /\ ~(MayExpire /\ expired)
           THEN /\ doc' = [doc EXCEPT ![t] = slot]
                /\ at' = [at EXCEPT ![t] = "running"]
                /\ UNCHANGED <<slot, expired>>
           ELSE /\ slot' = IF cached THEN NoDocument ELSE slot
                /\ expired' = (expired /\ ~cached)
                /\ at' = [at EXCEPT ![t] = "reading"]
                /\ UNCHANGED doc
        /\ UNCHANGED <<phase, stored, results, evictions, believed>>

\* cacheDocument: what the slot held is evicted even if d does not fit.
CacheDocument(d) ==
    IF CacheEnabled
    THEN /\ slot' = IF d \in Fitting THEN d ELSE NoDocument
         /\ expired' = FALSE
    ELSE UNCHANGED <<slot, expired>>

\* The file has been read and parsed: the handler runs Spectral on it.
Read(t) ==
    /\ phase = "up" /\ at[t] = "reading" /\ asked[t] \in stored
    /\ doc' = [doc EXCEPT ![t] = asked[t]]
    /\ at' = [at EXCEPT ![t] = "running"]
    /\ CacheDocument(asked[t])
    /\ UNCHANGED <<phase, workerStatus, stored, asked, hit, results, told, evictions, believed>>

\* Mutant: a document that cannot be read is not answered.
ReadFailsUnheard(t) ==
    /\ phase = "up" /\ at[t] = "reading" /\ asked[t] \notin stored
    /\ at' = [at EXCEPT ![t] = "answered"]
    /\ UNCHANGED <<phase, workerStatus, slot, expired, stored, asked, hit, doc, results,
                   told, evictions, believed>>

\* The file cannot be read.
ReadFails(t) ==
    /\ phase = "up" /\ at[t] = "reading" /\ asked[t] \notin stored
    /\ Reply(t, FALSE, "answered")
    /\ UNCHANGED <<phase, slot, expired, stored, asked, hit, doc, evictions>>

\* Spectral settles before the timer.
Settle(t, success) ==
    /\ phase = "up" /\ at[t] = "running"
    /\ Reply(t, success, "answered")
    /\ UNCHANGED <<phase, slot, expired, stored, asked, hit, doc, evictions>>

\* The timer of executeWithTimeout fires; Spectral goes on.
TimeOut(t) ==
    /\ phase = "up" /\ at[t] = "running"
    /\ Reply(t, FALSE, "stray")
    /\ UNCHANGED <<phase, slot, expired, stored, asked, hit, doc, evictions>>

\* Spectral settles after the timer: nothing is sent.
SettleLate(t) ==
    /\ phase = "up" /\ at[t] = "stray"
    /\ at' = [at EXCEPT ![t] = "answered"]
    /\ UNCHANGED <<phase, workerStatus, slot, expired, stored, asked, hit, doc, results,
                   told, evictions, believed>>

\* The 'evict-cache' message.
EvictCache ==
    /\ phase = "up" /\ evictions < MaxEvictions
    /\ evictions' = evictions + 1
    /\ slot' = NoDocument /\ expired' = FALSE
    /\ SendStatus(workerStatus, NoDocument)
    /\ UNCHANGED <<phase, workerStatus, stored, at, asked, hit, doc, results, believed>>

\* The 'shutdown' message.
Shutdown ==
    /\ phase = "up"
    /\ phase' = "ended" /\ workerStatus' = "terminated"
    /\ SendStatus("terminated", slot)
    /\ UNCHANGED <<slot, expired, stored, at, asked, hit, doc, results, evictions, believed>>

\* Time passes, and documents are deleted from the store.
Age ==
    /\ MayExpire /\ slot # NoDocument /\ ~expired
    /\ expired' = TRUE
    /\ UNCHANGED <<phase, workerStatus, slot, stored, at, asked, hit, doc, results, told,
                   evictions, believed>>

Unlink(d) ==
    /\ d \in stored
    /\ stored' = stored \ {d}
    /\ UNCHANGED <<phase, workerStatus, slot, expired, at, asked, hit, doc, results, told,
                   evictions, believed>>

Handle(t) == Read(t) \/ ReadFails(t) \/ TimeOut(t)

Next ==
    \/ \E loads \in BOOLEAN : Initialize(loads)
    \/ \E t \in Tasks, d \in Documents : Execute(t, d)
    \/ \E t \in Tasks : Handle(t) \/ SettleLate(t)
    \/ \E t \in Tasks, success \in BOOLEAN : Settle(t, success)
    \/ EvictCache \/ Shutdown \/ Age
    \/ \E d \in Documents : Unlink(d)

\* A read of a file settles, and a timer fires; Spectral itself may never settle.
Fairness == \A t \in Tasks : WF_threadVars(Handle(t))

Spec == Init /\ [][Next]_threadVars /\ Fairness

-----------------------------------------------------------------------------
(* Properties                                                                *)

\* Each variable holds values of its type.
TypeOK ==
    /\ phase \in {"new", "up", "ended"} /\ workerStatus \in Statuses
    /\ slot \in Documents \cup {NoDocument} /\ expired \in BOOLEAN
    /\ stored \subseteq Documents
    /\ at \in [Tasks -> {"unsent", "reading", "running", "stray", "answered"}]
    /\ asked \in [Tasks -> Documents \cup {NoDocument}]
    /\ hit \in [Tasks -> BOOLEAN]
    /\ doc \in [Tasks -> Documents \cup {NoDocument}]
    /\ results \in [Tasks -> Seq(Results)]
    /\ told \in [status : Statuses, slot : Documents \cup {NoDocument}]
    /\ evictions \in 0..MaxEvictions
    /\ believed \in Documents \cup {NoDocument}

\* A task is answered once: by the run, by its timer or by a failing read,
\* whichever is first, and Spectral settling after the timer sends nothing
\* (executeWithTimeout).  The pool tells answers apart by taskId only.
AnsweredOnce ==
    \A t \in Tasks : Len(results[t]) = IF at[t] \in {"answered", "stray"} THEN 1 ELSE 0

\* A task that succeeds was computed on the document it names, though handlers of
\* other tasks replace or evict the cached document between its awaits.
ResultIsOfDocument ==
    \A t \in Tasks : \A n \in 1..Len(results[t]) :
        results[t][n].success => results[t][n].document = asked[t]

\* When no task is open, the last status sent says 'ready' and names the document
\* that is cached, though every open task wrote the status and may have replaced
\* the document.
StatusIsCurrent ==
    phase = "up" /\ Open = {} /\ told.status # "initializing"
        => told = [status |-> "ready", slot |-> slot]

\* A task that was sent is answered, or the thread ends.
TasksAreAnswered ==
    \A t \in Tasks : at[t] # "unsent" ~> (results[t] # <<>> \/ phase = "ended")
=============================================================================
