-------------------------- MODULE ThreadStartProofs --------------------------
(***************************************************************************)
(* Theorems about ThreadStart: the ruleset loader and the worker thread, for *)
(* any number of loads, tasks, documents and rulesets.                      *)
(***************************************************************************)
EXTENDS ThreadStart, TLAPS

(***************************************************************************)
(* The loader                                                               *)
(***************************************************************************)
LoaderTypeOK ==
    /\ cache \in [Rulesets -> Calls \cup {NoCall}]
    /\ want \in [Calls -> Rulesets]
    /\ step \in [Calls -> {"idle", "loading", "answered", "failed"}]
    /\ got \in [Calls -> Calls \cup {NoCall}]
    /\ shims \subseteq Calls
    /\ recent \subseteq Calls /\ served \subseteq Calls

\* An object that is held has been answered, and its file is there.
Held(object) == object # NoCall => step[object] = "answered" /\ PathExists(object)

\* What is held anywhere is sound, and what was answered lately is in the cache.
LoaderInv ==
    /\ LoaderTypeOK
    /\ \A r \in Rulesets : Held(cache[r])
    /\ \A c \in Calls : Held(got[c])
    /\ \A c \in Calls : step[c] = "answered" => got[c] # NoCall
    /\ EnableCache => \A b \in recent : cache[want[b]] # NoCall
    /\ EnableCache => LoadedOnce

\* The loader starts with nothing held.
LEMMA LoaderInitially == ASSUME Init PROVE LoaderInv
BY RulesetLoaderAssumption DEF Init, LoaderInv, LoaderTypeOK, Held, LoadedOnce

\* A call answered from the cache shares an object another call loaded.
LEMMA LoadVersionKeeps ==
  ASSUME LoaderInv, NEW c \in Calls, LoadVersion(c) PROVE LoaderInv'
<1> USE RulesetLoaderAssumption DEF LoaderInv
<1>1. LoaderTypeOK'
  BY DEF LoaderTypeOK, LoadVersion, Answer
<1>2. step[c] = "idle" /\ UNCHANGED <<cache, want, shims>>
  BY DEF LoadVersion
<1>3. \A object \in Calls \cup {NoCall} : Held(object) => Held(object)'
  BY <1>2 DEF Held, PathExists, LoadVersion, Answer, LoaderTypeOK
<1>4. \A r \in Rulesets : Held(cache[r])'
  BY <1>2, <1>3 DEF LoaderTypeOK
<1>5. CASE /\ EnableCache /\ cache[want[c]] # NoCall
           /\ Answer(c, cache[want[c]])
  <2>1. cache[want[c]] \in Calls /\ cache[want[c]] # c
    BY <1>2, <1>5 DEF Held, LoaderTypeOK
  <2>2. \A b \in Calls : Held(got[b])'
    BY <1>3, <1>5, <2>1 DEF Answer, LoaderTypeOK, Held
  <2>3. \A b \in Calls : (step[b] = "answered" => got[b] # NoCall)'
    BY <1>5, <2>1 DEF Answer, LoaderTypeOK
  <2>4. EnableCache' => \A b \in recent' : cache'[want'[b]] # NoCall
    BY <1>2, <1>5 DEF Answer, LoaderTypeOK
  <2>5. EnableCache => LoadedOnce'
    BY <1>2, <1>5, <2>1 DEF Answer, LoaderTypeOK, LoadedOnce, LoadVersion
  <2>6. QED BY <1>1, <1>4, <2>2, <2>3, <2>4, <2>5 DEF LoaderInv
<1>6. CASE /\ ~EnableCache \/ cache[want[c]] = NoCall
           /\ step' = [step EXCEPT ![c] = "loading"]
           /\ UNCHANGED <<got, recent>>
  <2>1. \A b \in Calls : Held(got[b])'
    BY <1>3, <1>6 DEF LoaderTypeOK
  <2>2. \A b \in Calls : (step[b] = "answered" => got[b] # NoCall)'
    BY <1>6 DEF LoaderTypeOK
  <2>3. EnableCache => \A b \in recent : want[b] # want[c]
    BY <1>6
  <2>4. EnableCache => LoadedOnce'
    BY <1>2, <1>6, <2>3 DEF LoaderTypeOK, LoadedOnce, LoadVersion
  <2>5. QED BY <1>1, <1>2, <1>4, <1>6, <2>1, <2>2, <2>4 DEF LoaderInv
<1>7. QED BY <1>5, <1>6 DEF LoadVersion

\* A load that ends has its file on disk when its object is given out.
LEMMA LoadedKeeps ==
  ASSUME LoaderInv, NEW c \in Calls, Loaded(c) PROVE LoaderInv'
<1> USE RulesetLoaderAssumption DEF LoaderInv
<1>0. step[c] = "loading" /\ want' = want /\ served' = served /\ shims \subseteq shims'
  BY DEF Loaded, Shims
<1>1. LoaderTypeOK'
  BY DEF LoaderTypeOK, Loaded, Answer, Shims
<1>2. Held(c)'
  BY DEF Loaded, Answer, Shims, Held, PathExists, LoaderTypeOK
<1>3. \A object \in Calls \cup {NoCall} : Held(object) => Held(object)'
  BY <1>0, <1>2 DEF Held, PathExists, Loaded, Answer, LoaderTypeOK
<1>4. \A r \in Rulesets : Held(cache[r])'
  <2> TAKE r \in Rulesets
  <2>1. cache'[r] = c \/ cache'[r] = cache[r]
    BY DEF Loaded, LoaderTypeOK
  <2>2. cache[r] \in Calls \cup {NoCall} /\ Held(cache[r])
    BY DEF LoaderTypeOK
  <2>3. Held(cache[r])'
    BY <1>2, <1>3, <2>1, <2>2 DEF Held, PathExists
  <2>4. QED BY <2>3
<1>5. \A b \in Calls : Held(got[b])'
  <2> TAKE b \in Calls
  <2>1. got'[b] = c \/ got'[b] = got[b]
    BY DEF Loaded, Answer, LoaderTypeOK
  <2>2. got[b] \in Calls \cup {NoCall} /\ Held(got[b])
    BY DEF LoaderTypeOK
  <2>3. QED BY <1>2, <1>3, <2>1, <2>2 DEF Held, PathExists
<1>6. \A b \in Calls : (step[b] = "answered" => got[b] # NoCall)'
  BY DEF Loaded, Answer, LoaderTypeOK
<1>7. EnableCache => \A b \in recent' : cache'[want'[b]] # NoCall
  BY DEF Loaded, Answer, LoaderTypeOK
<1>8. EnableCache => LoadedOnce'
  BY <1>0 DEF LoadedOnce, Loaded, Answer, LoaderTypeOK
<1>9. QED BY <1>1, <1>4, <1>5, <1>6, <1>7, <1>8 DEF LoaderInv

\* A load that fails leaves what is held alone.
LEMMA LoadFailsKeeps ==
  ASSUME LoaderInv, NEW c \in Calls, LoadFails(c) PROVE LoaderInv'
<1> USE RulesetLoaderAssumption DEF LoaderInv
<1>1. LoaderTypeOK'
  BY DEF LoaderTypeOK, LoadFails, Shims
<1>2. \A object \in Calls \cup {NoCall} : Held(object) => Held(object)'
  BY DEF Held, PathExists, LoadFails, Shims, LoaderTypeOK
<1>3. /\ \A r \in Rulesets : Held(cache[r])'
      /\ \A b \in Calls : Held(got[b])'
  BY <1>2 DEF LoadFails, LoaderTypeOK
<1>4. \A b \in Calls : (step[b] = "answered" => got[b] # NoCall)'
  BY DEF LoadFails, LoaderTypeOK
<1>5. EnableCache => LoadedOnce'
  BY DEF LoadedOnce, LoadFails, LoaderTypeOK
<1>6. QED BY <1>1, <1>3, <1>4, <1>5 DEF LoaderInv, LoadFails

\* Clearing the cache leaves what callers hold alone.
LEMMA ClearCacheKeeps ==
  ASSUME LoaderInv, ClearCache PROVE LoaderInv'
BY RulesetLoaderAssumption
   DEF LoaderInv, LoaderTypeOK, ClearCache, Held, PathExists, LoadedOnce

\* Every step keeps the loader's invariant.
LEMMA LoaderKeeps ==
  ASSUME LoaderInv, [StartNext]_vars PROVE LoaderInv'
<1>1. CASE Next
  BY <1>1, LoadVersionKeeps, LoadedKeeps, LoadFailsKeeps, ClearCacheKeeps DEF Next
<1>2. CASE UNCHANGED loaderVars
  BY <1>2 DEF loaderVars, LoaderInv, LoaderTypeOK, Held, PathExists, LoadedOnce
<1>3. QED
  BY <1>1, <1>2 DEF StartNext, LoaderStep, CreateWorker, Initialize, ThreadStep, vars

\* The file of every ruleset a caller or the cache holds is there for the threads.
THEOREM PathsCorrect == StartSpec => []PathsExist
<1>1. StartInit => LoaderInv
  BY LoaderInitially DEF StartInit
<1>2. LoaderInv /\ [StartNext]_vars => LoaderInv'
  BY LoaderKeeps
<1>3. LoaderInv => PathsExist
  BY DEF LoaderInv, PathsExist, Held
<1>4. QED BY <1>1, <1>2, <1>3, PTL DEF StartSpec

\* With the cache enabled, a call that begins after an answer for its ruleset shares
\* that object: no later call loads or fails until the cache is cleared.
THEOREM LoadsAreShared == ASSUME EnableCache PROVE StartSpec => []LoadedOnce
<1>1. StartInit => LoaderInv
  BY LoaderInitially DEF StartInit
<1>2. LoaderInv /\ [StartNext]_vars => LoaderInv'
  BY LoaderKeeps
<1>3. LoaderInv => LoadedOnce
  BY EnableCache DEF LoaderInv
<1>4. QED BY <1>1, <1>2, <1>3, PTL DEF StartSpec

(***************************************************************************)
(* The thread                                                               *)
(***************************************************************************)

\* The number and the contents of a task's answers follow from where it is.
TaskOK(t) ==
    /\ at[t] \in {"unsent", "reading", "running"} => results[t] = <<>>
    /\ at[t] \in {"answered", "stray"} =>
          \E m \in Thread!Results : results[t] = <<m>> /\ (m.success => m.document = asked[t])
    /\ at[t] = "running" => doc[t] = asked[t]

\* A thread with no task open is ready, and a new one has told nothing.
QuietOK ==
    /\ phase = "up" /\ Thread!Open = {} => workerStatus = "ready"
    /\ phase = "new" => told.status = "initializing"

ThreadInv ==
    /\ ThreadTypeOK
    /\ \A t \in Tasks : TaskOK(t)
    /\ QuietOK
    /\ StatusIsCurrent

\* A thread starts with no task.
LEMMA ThreadInitially == ASSUME Thread!Init PROVE ThreadInv
<1> USE ThreadAssumption DEF Thread!WorkerThreadAssumption, Thread!Init
<1>1. ThreadTypeOK
  <2>1. results \in [Tasks -> Seq(Thread!Results)]
    <3>1. <<>> \in Seq(Thread!Results)
      OBVIOUS
    <3>2. QED BY <3>1
  <2>2. evictions \in 0..MaxEvictions
    OBVIOUS
  <2>3. told \in [status : Thread!Statuses, slot : Documents \cup {NoDocument}]
    BY DEF Thread!Statuses
  <2>4. QED BY <2>1, <2>2, <2>3 DEF ThreadTypeOK, Thread!TypeOK, Thread!Statuses
<1>2. QED
  BY <1>1 DEF ThreadInv, TaskOK, QuietOK, StatusIsCurrent, Thread!StatusIsCurrent

\* An answer is one message, for a task that had none, and says what was linted.
LEMMA ReplyKeeps ==
  ASSUME ThreadInv, NEW t \in Tasks, NEW success \in BOOLEAN, NEW next \in {"answered", "stray"},
         phase = "up", at[t] \in {"reading", "running"}, success => at[t] = "running",
         Thread!Reply(t, success, next),
         UNCHANGED <<phase, slot, expired, stored, asked, hit, doc, evictions>>
  PROVE  ThreadInv'
<1> DEFINE m == [success |-> success,
                 document |-> IF success THEN doc[t] ELSE NoDocument,
                 cacheHit |-> success /\ hit[t]]
<1>1. ThreadTypeOK /\ TaskOK(t) /\ QuietOK
  BY DEF ThreadInv
<1>2. /\ workerStatus' = "ready" /\ results' = [results EXCEPT ![t] = Append(@, m)]
      /\ at' = [at EXCEPT ![t] = next] /\ told' = [status |-> "ready", slot |-> slot]
      /\ believed' \in {believed, IF m.cacheHit THEN asked[t] ELSE believed}
  BY DEF Thread!Reply, Thread!SendStatus
<1>3. /\ doc[t] \in Documents \cup {NoDocument} /\ hit[t] \in BOOLEAN
      /\ asked[t] \in Documents \cup {NoDocument}
  BY <1>1 DEF ThreadTypeOK, Thread!TypeOK
<1>4. m \in Thread!Results
  BY <1>3 DEF Thread!Results
<1>5. results[t] = <<>>
  BY <1>1 DEF TaskOK
<1>6. results'[t] = <<m>>
  BY <1>1, <1>2, <1>5 DEF ThreadTypeOK, Thread!TypeOK
<1>7. ThreadTypeOK'
  <2>1. results' \in [Tasks -> Seq(Thread!Results)]
    <3> HIDE DEF m
    <3> QED BY <1>1, <1>2, <1>4, <1>6 DEF ThreadTypeOK, Thread!TypeOK
  <2>2. believed' \in Documents \cup {NoDocument}
    <3>1. believed' = believed \/ believed' = asked[t]
      BY <1>2
    <3> QED BY <1>1, <1>3, <3>1 DEF ThreadTypeOK, Thread!TypeOK
  <2> HIDE DEF m
  <2>3. QED BY <1>1, <1>2, <2>1, <2>2 DEF ThreadTypeOK, Thread!TypeOK, Thread!Statuses
<1>8. \A u \in Tasks : TaskOK(u)'
  <2> TAKE u \in Tasks
  <2>1. CASE u = t
    <3>1. m.success => m.document = asked[t]
      BY <1>1 DEF TaskOK
    <3> HIDE DEF m
    <3>2. at'[t] = next
      BY <1>1, <1>2 DEF ThreadTypeOK, Thread!TypeOK
    <3>3. QED BY <1>4, <1>6, <2>1, <3>1, <3>2 DEF TaskOK, Thread!Results
  <2>2. CASE u # t
    <3> HIDE DEF m
    <3>1. results'[u] = results[u] /\ at'[u] = at[u]
      BY <1>1, <1>2, <2>2 DEF ThreadTypeOK, Thread!TypeOK
    <3>2. TaskOK(u)
      BY DEF ThreadInv
    <3>3. QED BY <3>1, <3>2 DEF TaskOK, Thread!Results
  <2>3. QED BY <2>1, <2>2
<1>9. QuietOK'
  BY <1>2 DEF QuietOK
<1>10. StatusIsCurrent'
  BY <1>2 DEF StatusIsCurrent, Thread!StatusIsCurrent
<1>11. QED BY <1>7, <1>8, <1>9, <1>10 DEF ThreadInv

\* A new task takes the document it names from the slot, or reads it.
LEMMA ExecuteKeeps ==
  ASSUME ThreadInv, NEW t \in Tasks, NEW d \in Documents, Thread!Execute(t, d)
  PROVE  ThreadInv'
<1> USE ThreadAssumption DEF Thread!WorkerThreadAssumption
<1>1. ThreadTypeOK /\ TaskOK(t)
  BY DEF ThreadInv
<1>2. /\ phase = "up" /\ phase' = "up" /\ at[t] = "unsent" /\ results[t] = <<>> /\ results' = results
      /\ asked' = [asked EXCEPT ![t] = d] /\ hit' = [hit EXCEPT ![t] = slot = d]
      /\ workerStatus' = "busy" /\ told' = [status |-> "busy", slot |-> slot]
      /\ UNCHANGED <<stored, evictions, believed>>
  BY <1>1 DEF Thread!Execute, Thread!SendStatus, TaskOK
<1>3. \/ at' = [at EXCEPT ![t] = "running"] /\ doc' = [doc EXCEPT ![t] = d] /\ UNCHANGED <<slot, expired>>
      \/ at' = [at EXCEPT ![t] = "reading"] /\ doc' = doc /\ slot' \in {slot, NoDocument} /\ expired' \in {expired, FALSE}
  BY <1>1 DEF Thread!Execute, ThreadTypeOK, Thread!TypeOK
<1>4. ThreadTypeOK'
  <2>1. at' \in [Tasks -> {"unsent", "reading", "running", "stray", "answered"}]
    BY <1>1, <1>3 DEF ThreadTypeOK, Thread!TypeOK
  <2>2. doc' \in [Tasks -> Documents \cup {NoDocument}]
    BY <1>1, <1>3 DEF ThreadTypeOK, Thread!TypeOK
  <2>3. slot' \in Documents \cup {NoDocument} /\ expired' \in BOOLEAN
    BY <1>1, <1>3 DEF ThreadTypeOK, Thread!TypeOK
  <2>4. hit' \in [Tasks -> BOOLEAN] /\ asked' \in [Tasks -> Documents \cup {NoDocument}]
    BY <1>1, <1>2 DEF ThreadTypeOK, Thread!TypeOK
  <2>5. told' \in [status : Thread!Statuses, slot : Documents \cup {NoDocument}]
    BY <1>1, <1>2 DEF ThreadTypeOK, Thread!TypeOK, Thread!Statuses
  <2>6. QED
    BY <1>1, <1>2, <2>1, <2>2, <2>3, <2>4, <2>5 DEF ThreadTypeOK, Thread!TypeOK, Thread!Statuses
<1>5. \A u \in Tasks : TaskOK(u)'
  <2> TAKE u \in Tasks
  <2>1. CASE u = t
    BY <1>1, <1>2, <1>3, <2>1 DEF ThreadTypeOK, Thread!TypeOK, TaskOK
  <2>2. CASE u # t
    <3>1. at'[u] = at[u] /\ asked'[u] = asked[u] /\ doc'[u] = doc[u]
      BY <1>1, <1>2, <1>3, <2>2 DEF ThreadTypeOK, Thread!TypeOK
    <3>2. TaskOK(u)
      BY DEF ThreadInv
    <3>3. QED BY <1>2, <3>1, <3>2 DEF TaskOK, Thread!Results
  <2>3. QED BY <2>1, <2>2
<1>6. t \in Thread!Open'
  BY <1>1, <1>3 DEF Thread!Open, ThreadTypeOK, Thread!TypeOK
<1>7. QED
  BY <1>2, <1>4, <1>5, <1>6 DEF ThreadInv, QuietOK, StatusIsCurrent, Thread!StatusIsCurrent

\* A document that was read is the one the task names, whatever the slot held.
LEMMA ReadKeeps ==
  ASSUME ThreadInv, NEW t \in Tasks, Thread!Read(t) PROVE ThreadInv'
<1> USE ThreadAssumption DEF Thread!WorkerThreadAssumption
<1>1. ThreadTypeOK
  BY DEF ThreadInv
<1>2. /\ phase = "up" /\ at[t] = "reading" /\ asked[t] \in stored
      /\ doc' = [doc EXCEPT ![t] = asked[t]] /\ at' = [at EXCEPT ![t] = "running"]
      /\ UNCHANGED <<phase, workerStatus, stored, asked, hit, results, told, evictions, believed>>
  BY DEF Thread!Read
<1>3. slot' \in {slot, asked[t], NoDocument} /\ expired' \in {expired, FALSE}
  BY DEF Thread!Read, Thread!CacheDocument
<1>4. ThreadTypeOK'
  BY <1>1, <1>2, <1>3 DEF ThreadTypeOK, Thread!TypeOK
<1>5. \A u \in Tasks : TaskOK(u)'
  <2> TAKE u \in Tasks
  <2>1. TaskOK(u)
    BY DEF ThreadInv
  <2>2. CASE u = t
    BY <1>1, <1>2, <2>1, <2>2 DEF ThreadTypeOK, Thread!TypeOK, TaskOK
  <2>3. CASE u # t
    <3>1. at'[u] = at[u] /\ doc'[u] = doc[u]
      BY <1>1, <1>2, <2>3 DEF ThreadTypeOK, Thread!TypeOK
    <3>2. QED BY <1>2, <2>1, <3>1 DEF TaskOK, Thread!Results
  <2>4. QED BY <2>2, <2>3
<1>6. t \in Thread!Open'
  BY <1>1, <1>2 DEF Thread!Open, ThreadTypeOK, Thread!TypeOK
<1>7. QED
  BY <1>2, <1>4, <1>5, <1>6 DEF ThreadInv, QuietOK, StatusIsCurrent, Thread!StatusIsCurrent

\* Spectral settling after the timer ends the run and sends nothing.
LEMMA SettleLateKeeps ==
  ASSUME ThreadInv, NEW t \in Tasks, Thread!SettleLate(t) PROVE ThreadInv'
<1>1. ThreadTypeOK
  BY DEF ThreadInv
<1>2. /\ phase = "up" /\ at[t] = "stray" /\ at' = [at EXCEPT ![t] = "answered"]
      /\ UNCHANGED <<phase, workerStatus, slot, expired, stored, asked, hit, doc, results,
                     told, evictions, believed>>
  BY DEF Thread!SettleLate
<1>3. ThreadTypeOK'
  BY <1>1, <1>2 DEF ThreadTypeOK, Thread!TypeOK
<1>4. \A u \in Tasks : TaskOK(u)'
  BY <1>1, <1>2 DEF ThreadInv, ThreadTypeOK, Thread!TypeOK, TaskOK, Thread!Results
<1>5. Thread!Open' = Thread!Open
  BY <1>1, <1>2 DEF Thread!Open, ThreadTypeOK, Thread!TypeOK
<1>6. QED
  BY <1>2, <1>3, <1>4, <1>5 DEF ThreadInv, QuietOK, StatusIsCurrent, Thread!StatusIsCurrent

\* The steps that touch no task: an eviction reports the empty slot.
LEMMA OthersKeep ==
  ASSUME ThreadInv,
         \/ \E loads \in BOOLEAN : Thread!Initialize(loads)
         \/ phase = "up" /\ Thread!EvictCache
         \/ phase = "up" /\ Thread!Shutdown
         \/ phase = "up" /\ (Thread!Age \/ \E d \in Documents : Thread!Unlink(d))
  PROVE  ThreadInv'
<1> USE ThreadAssumption DEF Thread!WorkerThreadAssumption
<1>1. ThreadTypeOK /\ QuietOK /\ StatusIsCurrent
  BY DEF ThreadInv
<1>2. UNCHANGED <<at, asked, hit, doc, results, believed>>
  BY DEF Thread!Initialize, Thread!EvictCache, Thread!Shutdown, Thread!Age, Thread!Unlink
<1>3. (\A u \in Tasks : TaskOK(u)') /\ Thread!Open' = Thread!Open
  BY <1>2 DEF ThreadInv, TaskOK, Thread!Results, Thread!Open
<1>4. CASE \E loads \in BOOLEAN : Thread!Initialize(loads)
  <2>1. /\ told.status = "initializing" /\ phase' # "new"
        /\ workerStatus' \in {"ready", "error"} /\ (phase' = "up" => workerStatus' = "ready")
        /\ UNCHANGED <<slot, expired, stored, told, evictions>>
    BY <1>1, <1>4 DEF Thread!Initialize, QuietOK
  <2>2. phase' \in {"up", "ended"}
    BY <1>4 DEF Thread!Initialize
  <2>3. ThreadTypeOK'
    BY <1>1, <1>2, <2>1, <2>2 DEF ThreadTypeOK, Thread!TypeOK, Thread!Statuses
  <2>4. QED
    BY <1>3, <2>1, <2>2, <2>3 DEF ThreadInv, QuietOK, StatusIsCurrent, Thread!StatusIsCurrent
<1>5. CASE phase = "up" /\ Thread!EvictCache
  <2>1. ThreadTypeOK'
    <3>1. evictions' \in 0..MaxEvictions
      BY <1>1, <1>5 DEF ThreadTypeOK, Thread!TypeOK, Thread!EvictCache
    <3>2. QED
      BY <1>1, <1>2, <1>5, <3>1
         DEF ThreadTypeOK, Thread!TypeOK, Thread!EvictCache, Thread!SendStatus
  <2>2. QED
    BY <1>1, <1>3, <1>5, <2>1
       DEF ThreadInv, QuietOK, StatusIsCurrent, Thread!StatusIsCurrent, Thread!EvictCache, Thread!SendStatus
<1>6. CASE phase = "up" /\ Thread!Shutdown
  <2>1. ThreadTypeOK'
    BY <1>1, <1>2, <1>6
       DEF ThreadTypeOK, Thread!TypeOK, Thread!Statuses, Thread!Shutdown, Thread!SendStatus
  <2>2. QED
    BY <1>3, <1>6, <2>1
       DEF ThreadInv, QuietOK, StatusIsCurrent, Thread!StatusIsCurrent, Thread!Shutdown
<1>7. CASE phase = "up" /\ (Thread!Age \/ \E d \in Documents : Thread!Unlink(d))
  <2>1. /\ UNCHANGED <<phase, workerStatus, slot, told, evictions>>
        /\ stored' \subseteq stored /\ expired' \in {expired, TRUE}
    BY <1>7 DEF Thread!Age, Thread!Unlink
  <2>2. ThreadTypeOK'
    BY <1>1, <1>2, <2>1 DEF ThreadTypeOK, Thread!TypeOK
  <2>3. QED
    BY <1>1, <1>3, <2>1, <2>2 DEF ThreadInv, QuietOK, StatusIsCurrent, Thread!StatusIsCurrent
<1>8. QED BY <1>4, <1>5, <1>6, <1>7

\* Every step keeps the thread's invariant.
LEMMA ThreadKeeps ==
  ASSUME ThreadInv, [StartNext]_vars PROVE ThreadInv'
<1>1. CASE UNCHANGED threadVars
  BY <1>1 DEF ThreadInv, ThreadTypeOK, Thread!TypeOK, Thread!Results, Thread!Statuses, TaskOK,
              QuietOK, Thread!Open, StatusIsCurrent, Thread!StatusIsCurrent, threadVars
<1>2. CASE Initialize
  <2>1. PathExists(given) \in BOOLEAN
    BY DEF PathExists
  <2>2. QED BY <1>2, <2>1, OthersKeep DEF Initialize
<1>3. CASE ThreadStep
  <2>1. phase = "up" /\ Thread!Next
    BY <1>3 DEF ThreadStep
  <2>2. ASSUME NEW t \in Tasks, NEW success \in BOOLEAN, Thread!Settle(t, success)
        PROVE  ThreadInv'
    BY <2>1, <2>2, ReplyKeeps DEF Thread!Settle
  <2>3. ASSUME NEW t \in Tasks, Thread!Handle(t) PROVE ThreadInv'
    <3>1. CASE Thread!Read(t)
      BY <3>1, ReadKeeps
    <3>2. CASE Thread!ReadFails(t)
      BY <2>1, <3>2, ReplyKeeps DEF Thread!ReadFails
    <3>3. CASE Thread!TimeOut(t)
      BY <2>1, <3>3, ReplyKeeps DEF Thread!TimeOut
    <3>4. QED BY <2>3, <3>1, <3>2, <3>3 DEF Thread!Handle
  <2>4. QED
    BY <2>1, <2>2, <2>3, ExecuteKeeps, SettleLateKeeps, OthersKeep DEF Thread!Next
<1>4. QED
  BY <1>1, <1>2, <1>3 DEF StartNext, LoaderStep, CreateWorker, vars

\* What the invariant says of the answers of a task.
LEMMA ThreadSafe ==
  ASSUME ThreadInv PROVE ThreadTypeOK /\ AnsweredOnce /\ ResultIsOfDocument /\ StatusIsCurrent
<1>1. ThreadTypeOK /\ StatusIsCurrent
  BY DEF ThreadInv
<1>2. ASSUME NEW t \in Tasks
      PROVE  \/ at[t] \in {"answered", "stray"} /\ Len(results[t]) = 1
                /\ (results[t][1].success => results[t][1].document = asked[t])
             \/ at[t] \notin {"answered", "stray"} /\ Len(results[t]) = 0
  <2>1. TaskOK(t) /\ at[t] \in {"unsent", "reading", "running", "stray", "answered"}
    BY <1>1 DEF ThreadInv, ThreadTypeOK, Thread!TypeOK
  <2>2. CASE at[t] \in {"answered", "stray"}
    <3>1. PICK m \in Thread!Results : results[t] = <<m>> /\ (m.success => m.document = asked[t])
      BY <2>1, <2>2 DEF TaskOK
    <3>2. Len(results[t]) = 1 /\ results[t][1] = m
      BY <3>1
    <3>3. QED BY <2>2, <3>1, <3>2
  <2>3. CASE at[t] \notin {"answered", "stray"}
    BY <2>1, <2>3 DEF TaskOK
  <2>4. QED BY <2>2, <2>3
<1>3. AnsweredOnce
  BY <1>2 DEF AnsweredOnce, Thread!AnsweredOnce
<1>4. ResultIsOfDocument
  BY <1>2 DEF ResultIsOfDocument, Thread!ResultIsOfDocument
<1>5. QED BY <1>1, <1>3, <1>4

\* Every variable of the thread keeps its type.
THEOREM ThreadTypeCorrect == StartSpec => []ThreadTypeOK
<1>1. StartInit => ThreadInv
  BY ThreadInitially DEF StartInit
<1>2. ThreadInv /\ [StartNext]_vars => ThreadInv'
  BY ThreadKeeps
<1>3. QED BY <1>1, <1>2, ThreadSafe, PTL DEF StartSpec

\* Each task is answered once, by whichever of its run, its timer and a failing read
\* is first, however many tasks the thread handles at once.
THEOREM AnswersAreSingle == StartSpec => []AnsweredOnce
<1>1. StartInit => ThreadInv
  BY ThreadInitially DEF StartInit
<1>2. ThreadInv /\ [StartNext]_vars => ThreadInv'
  BY ThreadKeeps
<1>3. QED BY <1>1, <1>2, ThreadSafe, PTL DEF StartSpec

\* A task that succeeds was computed on its own document, although all the tasks of
\* the thread replace and evict the one cached document.
THEOREM ResultsAreOwn == StartSpec => []ResultIsOfDocument
<1>1. StartInit => ThreadInv
  BY ThreadInitially DEF StartInit
<1>2. ThreadInv /\ [StartNext]_vars => ThreadInv'
  BY ThreadKeeps
<1>3. QED BY <1>1, <1>2, ThreadSafe, PTL DEF StartSpec

\* A thread with no task open has told the pool that it is ready, and the document
\* it holds.
THEOREM StatusCorrect == StartSpec => []StatusIsCurrent
<1>1. StartInit => ThreadInv
  BY ThreadInitially DEF StartInit
<1>2. ThreadInv /\ [StartNext]_vars => ThreadInv'
  BY ThreadKeeps
<1>3. QED BY <1>1, <1>2, ThreadSafe, PTL DEF StartSpec

\* The tasks of a thread do not disturb each other through the document they share.
THEOREM ThreadCorrect == StartSpec => []ThreadIsConsistent
<1>1. ThreadTypeOK /\ AnsweredOnce /\ ResultIsOfDocument /\ StatusIsCurrent => ThreadIsConsistent
  BY DEF ThreadIsConsistent
<1>2. QED
  BY <1>1, ThreadTypeCorrect, AnswersAreSingle, ResultsAreOwn, StatusCorrect, PTL

\* With its cache enabled, what the loader answers is there for those who use it, and
\* is shared by the loads that come later.
THEOREM LoaderCorrect == ASSUME EnableCache PROVE StartSpec => []LoaderIsConsistent
<1>1. PathsExist /\ LoadedOnce => LoaderIsConsistent
  BY DEF LoaderIsConsistent
<1>2. StartSpec => []LoadedOnce
  BY LoadsAreShared
<1>3. QED
  BY <1>1, <1>2, PathsCorrect, PTL
=============================================================================
