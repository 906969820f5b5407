-------------------------- MODULE WorkerPoolProofs --------------------------
(***************************************************************************)
(* Theorems about WorkerPool, for every set of tasks, rulesets, documents   *)
(* and every configuration that satisfies PoolAssumption.                   *)
(***************************************************************************)
EXTENDS WorkerPool, TLAPS, FiniteSetTheorems, SequenceTheorems

(***************************************************************************)
(* Minimum and maximum, of two numbers and of a set of places.              *)
(***************************************************************************)
LEMMA MinOfTwo ==
    ASSUME NEW a \in Nat, NEW b \in Nat
    PROVE  Min({a, b}) \in Nat /\ (a >= 1 /\ b >= 1 => Min({a, b}) >= 1)
<1>1. \E x \in {a, b} : \A y \in {a, b} : x =< y
  OBVIOUS
<1>2. QED
  BY <1>1 DEF Min

\* The maximum of two numbers is a number.
LEMMA MaxOfTwo ==
    ASSUME NEW a \in Nat, NEW b \in Nat
    PROVE  Max({a, b}) \in Nat
<1>1. \E x \in {a, b} : \A y \in {a, b} : x >= y
  OBVIOUS
<1>2. QED
  BY <1>1 DEF Max

\* A set of places that is not empty has a first one: Min finds it.
LEMMA MinOfPlaces ==
    ASSUME NEW S, S \subseteq Nat, S # {}
    PROVE  Min(S) \in S /\ \A y \in S : Min(S) =< y
<1> DEFINE less == OpToRel(<, Nat)
<1>1. IsWellFoundedOn(less, Nat)
  BY NatLessThanWellFounded, Zenon
<1>2. less = {p \in Nat \X Nat : p[1] < p[2]}
  BY Zenon DEF OpToRel
<1> HIDE DEF less
<1>3. PICK x \in S : \A y \in S : ~(<<y, x>> \in less)
  BY <1>1, WFMin
<1>4. ASSUME NEW y \in S, y < x
      PROVE  FALSE
  <2>1. <<y, x>> \in Nat \X Nat /\ <<y, x>>[1] < <<y, x>>[2]
    BY <1>4
  <2>2. <<y, x>> \in less
    BY <1>2, <2>1, Zenon
  <2>3. QED
    BY <1>3, <2>2
<1>5. \A y \in S : x =< y
  BY <1>4
<1>6. QED
  BY <1>5 DEF Min

\* The number of workers initialize starts per ruleset is a number.
LEMMA InitialPerKeyType == InitialPerKey \in Nat
<1>1. Cardinality(Keys) \in Nat \ {0}
  BY PoolAssumption, FS_CardinalityType, FS_EmptySet
<1>2. Min({TotalMax, 2 * Cpus}) \in Nat
  <2>1. TotalMax \in Nat /\ 2 * Cpus \in Nat
    BY PoolAssumption
  <2>2. QED
    BY <2>1, MinOfTwo
<1> DEFINE share == Min({TotalMax, 2 * Cpus}) \div Cardinality(Keys)
<1>3. share \in Nat
  BY <1>1, <1>2
<1>4. Max({1, share}) \in Nat
  BY <1>3, MaxOfTwo
<1>5. QED
  BY <1>4, MinOfTwo, PoolAssumption DEF InitialPerKey

(***************************************************************************)
(* Taking one element out of a sequence.                                    *)
(***************************************************************************)
LEMMA RemoveAtProperties ==
    ASSUME NEW S, NEW q \in Seq(S), NEW i \in 1..Len(q)
    PROVE  /\ RemoveAt(q, i) \in Seq(S)
           /\ Len(RemoveAt(q, i)) = Len(q) - 1
           /\ \A j \in 1..(Len(q) - 1) :
                 RemoveAt(q, i)[j] = IF j < i THEN q[j] ELSE q[j + 1]
<1> DEFINE before == SubSeq(q, 1, i - 1)
           after  == SubSeq(q, i + 1, Len(q))
<1>1. Len(q) \in Nat /\ \A j \in 1..Len(q) : q[j] \in S
  BY LenProperties, ElementOfSeq
<1>2. /\ before \in Seq(S)
      /\ Len(before) = i - 1
      /\ \A j \in 1..(i - 1) : before[j] = q[j]
  <2>1. \A j \in 1..(i - 1) : q[j] \in S
    BY <1>1
  <2>2. /\ before \in Seq(S)
        /\ Len(before) = IF 1 <= i - 1 THEN (i - 1) - 1 + 1 ELSE 0
        /\ \A j \in 1..((i - 1) - 1 + 1) : before[j] = q[1 + j - 1]
    BY <1>1, <2>1, SubSeqProperties
  <2>3. QED
    BY <1>1, <2>2
<1>3. /\ after \in Seq(S)
      /\ Len(after) = Len(q) - i
      /\ \A j \in 1..(Len(q) - i) : after[j] = q[i + j]
  <2>1. \A j \in (i + 1)..Len(q) : q[j] \in S
    BY <1>1
  <2>2. /\ after \in Seq(S)
        /\ Len(after) = IF i + 1 <= Len(q) THEN Len(q) - (i + 1) + 1 ELSE 0
        /\ \A j \in 1..(Len(q) - (i + 1) + 1) : after[j] = q[(i + 1) + j - 1]
    BY <1>1, <2>1, SubSeqProperties
  <2>3. QED
    BY <1>1, <2>2
<1> HIDE DEF before, after
<1>4. /\ before \o after \in Seq(S)
      /\ Len(before \o after) = Len(before) + Len(after)
      /\ \A j \in 1..(Len(before) + Len(after)) :
            (before \o after)[j] = IF j <= Len(before) THEN before[j]
                                   ELSE after[j - Len(before)]
  BY <1>2, <1>3, ConcatProperties
<1>5. RemoveAt(q, i) = before \o after
  BY DEF RemoveAt, before, after
<1>6. Len(before) + Len(after) = Len(q) - 1
  BY <1>1, <1>2, <1>3
<1>7. ASSUME NEW j \in 1..(Len(q) - 1)
      PROVE  RemoveAt(q, i)[j] = IF j < i THEN q[j] ELSE q[j + 1]
  <2>1. CASE j < i
    BY <1>1, <1>2, <1>4, <1>5, <1>6, <2>1
  <2>2. CASE ~(j < i)
    <3>1. j - (i - 1) \in 1..(Len(q) - i) /\ i + (j - (i - 1)) = j + 1
      BY <1>1, <2>2
    <3>2. (before \o after)[j] = after[j - (i - 1)]
      BY <1>1, <1>2, <1>4, <1>6, <2>2
    <3>3. QED
      BY <1>3, <1>5, <2>2, <3>1, <3>2
  <2>3. QED
    BY <2>1, <2>2
<1>8. QED
  BY <1>4, <1>5, <1>6, <1>7

\* Taking the i-th element out of a sequence without repetitions leaves the
\* others, each still once.
LEMMA RemoveOnce ==
    ASSUME NEW q \in Seq(Tasks), NEW i \in 1..Len(q),
           \A m, n \in 1..Len(q) : q[m] = q[n] => m = n,
           NEW r \in Seq(Tasks), r = RemoveAt(q, i)
    PROVE  /\ r \in Seq(Tasks)
           /\ \A m, n \in 1..Len(r) : r[m] = r[n] => m = n
           /\ \A x \in Tasks : (\E m \in 1..Len(r) : r[m] = x)
                        <=> x # q[i] /\ \E m \in 1..Len(q) : q[m] = x
<1>1. Len(q) \in Nat
  BY LenProperties
<1>2. /\ r \in Seq(Tasks)
      /\ Len(r) = Len(q) - 1
      /\ \A j \in 1..(Len(q) - 1) : r[j] = IF j < i THEN q[j] ELSE q[j + 1]
  BY RemoveAtProperties
<1> DEFINE old(j) == IF j < i THEN j ELSE j + 1
<1>3. \A j \in 1..Len(r) : old(j) \in 1..Len(q) /\ old(j) # i /\ r[j] = q[old(j)]
  BY <1>1, <1>2
<1>4. \A m, n \in 1..Len(r) : old(m) = old(n) => m = n
  BY <1>1, <1>2
<1>5. ASSUME NEW m \in 1..Len(q), m # i
      PROVE  \E j \in 1..Len(r) : old(j) = m
  <2> DEFINE j == IF m < i THEN m ELSE m - 1
  <2>1. j \in 1..Len(r) /\ old(j) = m
    BY <1>1, <1>2, <1>5
  <2>2. QED
    BY <2>1
<1> HIDE DEF old
<1>6. \A m, n \in 1..Len(r) : r[m] = r[n] => m = n
  BY <1>3, <1>4
<1>7. ASSUME NEW x \in Tasks
      PROVE  (\E m \in 1..Len(r) : r[m] = x) <=> x # q[i] /\ \E m \in 1..Len(q) : q[m] = x
  <2>1. ASSUME NEW m \in 1..Len(r), r[m] = x
        PROVE  x # q[i] /\ \E n \in 1..Len(q) : q[n] = x
    BY <1>3, <2>1
  <2>2. ASSUME x # q[i], NEW m \in 1..Len(q), q[m] = x
        PROVE  \E n \in 1..Len(r) : r[n] = x
    BY <1>3, <1>5, <2>2
  <2>3. QED
    BY <2>1, <2>2
<1>8. QED
  BY <1>2, <1>6, <1>7

(***************************************************************************)
(* The inductive invariant.  The parts that are not properties of a run say *)
(* where executions and picks can point: without them TypeOK itself is not  *)
(* inductive, because an execution started for attempt 0 or on a worker     *)
(* that does not exist is not in Execs.                                     *)
(***************************************************************************)

\* How many error handlers a dead thread runs is a number.
TypeInv == TypeOK /\ IsFiniteSet(errHandlers)

Started == \A t \in Tasks : pc[t] \in Pending => attempt[t] # 0

ExecsPlaced ==
    \A e \in timers \cup handlers \cup errHandlers :
        e.worker \in 1..spawned /\ home[e.worker] = KeyOf[e.task]

BaseInv == TypeInv /\ Started /\ WorkerPerRuleset /\ ExecsPlaced /\ QueueHoldsWaiters

\* A worker in the map has been 'ready' at least once.
RegisteredWasReady == \A w \in workers : status[w] # "initializing"

\* NoLostWakeup, said of calls instead of places in the queue.
WaiterHasWaker ==
    \A t \in Tasks : pc[t] = "waiting" =>
        \/ \E e \in timers : home[e.worker] = KeyOf[t]
        \/ \E u \in Tasks : pc[u] = "picked" /\ KeyOf[u] = KeyOf[t]

IInv ==
    /\ BaseInv
    /\ RunningIsArmed
    /\ HandlersAreLive
    /\ BusyIsArmed
    /\ RegisteredWasReady
    /\ ErrorIsReplaced
    /\ WaiterHasWaker

\* What notifyWorkerReady does: nothing when nobody waits for the ruleset,
\* else the first of those that do is served.
LEMMA NotifyCases ==
    ASSUME TypeOK, NEW w \in Workers, NEW calls, NotifyWorkerReady(w, calls)
    PROVE  \/ /\ \A i \in 1..Len(queue) : KeyOf[queue[i]] # home[w]
              /\ pc' = calls
              /\ UNCHANGED <<queue, pick>>
           \/ \E i \in 1..Len(queue) :
                 /\ queue[i] \in Tasks
                 /\ KeyOf[queue[i]] = home[w]
                 /\ \A j \in 1..Len(queue) : KeyOf[queue[j]] = home[w] => i =< j
                 /\ queue' = RemoveAt(queue, i)
                 /\ pc' = [calls EXCEPT ![queue[i]] = "picked"]
                 /\ pick' = [pick EXCEPT ![queue[i]] = w]
<1> DEFINE W == WaitersOf(home[w])
<1>1. CASE W = {}
  BY <1>1 DEF NotifyWorkerReady, ServeNobody, WaitersOf
<1>2. CASE W # {}
  <2>1. W \subseteq Nat
    BY LenProperties DEF WaitersOf, TypeOK
  <2>2. Min(W) \in W /\ \A j \in W : Min(W) =< j
    BY <1>2, <2>1, MinOfPlaces
  <2>3. Serve(Min(W), w, calls)
    BY <1>2 DEF NotifyWorkerReady
  <2>4. /\ Min(W) \in 1..Len(queue)
        /\ KeyOf[queue[Min(W)]] = home[w]
        /\ \A j \in 1..Len(queue) : KeyOf[queue[j]] = home[w] => Min(W) =< j
    BY <2>2 DEF WaitersOf
  <2>5. queue[Min(W)] \in Tasks
    BY <2>4, ElementOfSeq DEF TypeOK
  <2> HIDE DEF W
  <2>6. QED
    BY <2>3, <2>4, <2>5 DEF Serve
<1>3. QED
  BY <1>1, <1>2

\* In particular the types of what it changes.
LEMMA NotifyType ==
    ASSUME TypeOK, NEW w \in Workers,
           NEW calls \in [Tasks -> {"idle"} \cup Pending \cup Settled],
           NotifyWorkerReady(w, calls)
    PROVE  /\ queue' \in Seq(Tasks)
           /\ pc' \in [Tasks -> {"idle"} \cup Pending \cup Settled]
           /\ pick' \in [Tasks -> 0..MaxSpawns]
<1>1. w \in 0..MaxSpawns
  BY PoolAssumption DEF Workers
<1>2. CASE pc' = calls /\ UNCHANGED <<queue, pick>>
  BY <1>2 DEF TypeOK
<1>3. ASSUME NEW i \in 1..Len(queue), queue[i] \in Tasks,
             queue' = RemoveAt(queue, i),
             pc' = [calls EXCEPT ![queue[i]] = "picked"],
             pick' = [pick EXCEPT ![queue[i]] = w]
      PROVE  /\ queue' \in Seq(Tasks)
             /\ pc' \in [Tasks -> {"idle"} \cup Pending \cup Settled]
             /\ pick' \in [Tasks -> 0..MaxSpawns]
  <2>1. queue' \in Seq(Tasks)
    BY <1>3, RemoveAtProperties DEF TypeOK
  <2>2. QED
    BY <1>1, <1>3, <2>1 DEF TypeOK, Pending
<1>4. QED
  BY <1>2, <1>3, NotifyCases

\* The types of what createWorker's registration changes.
LEMMA RegisterType ==
    ASSUME TypeOK, spawned < MaxSpawns, NEW k \in Keys, Register(spawned + 1, k)
    PROVE  /\ spawned' \in 0..MaxSpawns
           /\ workers' \in SUBSET (1..spawned')
           /\ home' \in [Workers -> Keys]
           /\ status' \in [Workers -> {"initializing", "ready", "busy", "error", "terminated"}]
           /\ alive' \in [Workers -> BOOLEAN]
           /\ UNCHANGED <<taskCount, cachedDoc, inbox>>
<1>1. /\ spawned' = spawned + 1
      /\ workers' = workers \cup {spawned + 1}
      /\ home' = [home EXCEPT ![spawned + 1] = k]
      /\ status' = [status EXCEPT ![spawned + 1] = "ready"]
      /\ alive' = [alive EXCEPT ![spawned + 1] = TRUE]
      /\ UNCHANGED <<taskCount, cachedDoc, inbox>>
  BY DEF Register
<1>2. spawned' \in 0..MaxSpawns
  BY <1>1, PoolAssumption DEF TypeOK
<1>3. workers' \in SUBSET (1..spawned')
  BY <1>1 DEF TypeOK
<1>4. QED
  BY <1>1, <1>2, <1>3 DEF TypeOK

\* The four ways selectWorker can go.
LEMMA SelectCases ==
    ASSUME NEW t \in Tasks, Select(t)
    PROVE  \/ /\ \E p \in {"failed", "creating"} : pc' = [pc EXCEPT ![t] = p]
              /\ UNCHANGED <<queue, pick>>
           \/ \E w \in workers :
                 /\ home[w] = KeyOf[t]
                 /\ pick' = [pick EXCEPT ![t] = w]
                 /\ pc' = [pc EXCEPT ![t] = "picked"]
                 /\ UNCHANGED queue
           \/ /\ \E w \in workers :
                    home[w] = KeyOf[t] /\ status[w] \notin {"error", "terminated", "ready"}
              /\ queue' = Append(queue, t)
              /\ pc' = [pc EXCEPT ![t] = "waiting"]
              /\ UNCHANGED pick
<1> DEFINE own        == WorkersOf(KeyOf[t])
           candidates == {w \in own : status[w] \notin {"error", "terminated"}}
           ready      == {w \in candidates : status[w] = "ready"}
           withDoc    == {w \in ready : cachedDoc[w] = DocOf[t]}
<1>1. \/ /\ own = {}
         /\ pc' = [pc EXCEPT ![t] = IF AtCapacity THEN "failed" ELSE "creating"]
         /\ UNCHANGED <<queue, pick>>
      \/ /\ own # {} /\ candidates = {}
         /\ pc' = [pc EXCEPT ![t] = "failed"]
         /\ UNCHANGED <<queue, pick>>
      \/ /\ ready # {}
         /\ \E w \in LeastUsed(IF withDoc # {} THEN withDoc ELSE ready) :
               pick' = [pick EXCEPT ![t] = w]
         /\ pc' = [pc EXCEPT ![t] = "picked"]
         /\ UNCHANGED queue
      \/ /\ candidates # {} /\ ready = {}
         /\ queue' = Append(queue, t)
         /\ pc' = [pc EXCEPT ![t] = "waiting"]
         /\ UNCHANGED pick
  BY Zenon DEF Select
<1>2. \A w \in LeastUsed(IF withDoc # {} THEN withDoc ELSE ready) :
         w \in workers /\ home[w] = KeyOf[t]
  BY DEF LeastUsed, WorkersOf
<1>3. \A w \in candidates :
         w \in workers /\ home[w] = KeyOf[t] /\ status[w] \notin {"error", "terminated"}
  BY DEF WorkersOf
<1>4. candidates # {} /\ ready = {} =>
         \E w \in workers :
            home[w] = KeyOf[t] /\ status[w] \notin {"error", "terminated", "ready"}
  BY <1>3
<1> HIDE DEF own, candidates, ready, withDoc
<1>5. QED
  BY <1>1, <1>2, <1>4

\* The typing part of the invariant holds at the start.
LEMMA TypeInit == Init => TypeInv
<1> SUFFICES ASSUME Init PROVE TypeInv
  OBVIOUS
<1>1. (CHOOSE k \in Keys : TRUE) \in Keys
  BY PoolAssumption
<1>2. <<>> \in Seq(Tasks)
  OBVIOUS
<1>3. IsFiniteSet(errHandlers)
  BY FS_EmptySet DEF Init
<1>4. TypeOK
  BY <1>1, <1>2, PoolAssumption DEF Init, TypeOK, Workers
<1>5. QED
  BY <1>3, <1>4 DEF TypeInv

\* Every step keeps the typing part of the invariant.
LEMMA TypeStep == BaseInv /\ [Next]_vars => TypeInv'
<1> SUFFICES ASSUME BaseInv, [Next]_vars
             PROVE  TypeInv'
  OBVIOUS
<1> USE PoolAssumption
<1>0. TypeOK /\ IsFiniteSet(errHandlers)
  BY DEF BaseInv, TypeInv
<1> SUFFICES TypeOK' /\ IsFiniteSet(errHandlers)'
  BY DEF TypeInv
<1> USE <1>0
<1>1. CASE Initialize
  BY <1>1, InitialPerKeyType DEF Initialize, TypeOK, workerVars, callVars, execVars
<1>2. CASE InitializeDone
  BY <1>2 DEF InitializeDone, TypeOK, workerVars, createVars, callVars, execVars
<1>3. ASSUME NEW k \in Keys, SpawnDone(k)
      PROVE  TypeOK' /\ IsFiniteSet(errHandlers)'
  <2>1. spawned < MaxSpawns /\ Register(spawned + 1, k)
    BY <1>3 DEF SpawnDone
  <2>2. spawning' \in [Keys -> Nat]
    BY <1>3 DEF SpawnDone, TypeOK
  <2>3. UNCHANGED <<phase, failing, draining, queue, callVars, execVars>>
    BY <1>3 DEF SpawnDone
  <2>4. QED
    BY <2>1, <2>2, <2>3, RegisterType DEF TypeOK, callVars, execVars
<1>4. ASSUME NEW k \in Keys, SpawnFail(k)
      PROVE  TypeOK' /\ IsFiniteSet(errHandlers)'
  BY <1>4 DEF SpawnFail, TypeOK, workerVars, callVars, execVars
<1>5. ASSUME NEW t \in Tasks, Call(t)
      PROVE  TypeOK' /\ IsFiniteSet(errHandlers)'
  BY <1>5 DEF Call, TypeOK, workerVars, createVars, execVars, Pending, Settled
<1>6. ASSUME NEW t \in Tasks, ResolveFail(t)
      PROVE  TypeOK' /\ IsFiniteSet(errHandlers)'
  BY <1>6 DEF ResolveFail, TypeOK, workerVars, createVars, execVars, Settled
<1>7. ASSUME NEW t \in Tasks, Select(t)
      PROVE  TypeOK' /\ IsFiniteSet(errHandlers)'
  <2>1. queue' \in Seq(Tasks)
    <3>1. queue' = queue \/ queue' = Append(queue, t)
      BY <1>7, SelectCases
    <3>2. Append(queue, t) \in Seq(Tasks)
      BY AppendProperties DEF TypeOK
    <3>3. QED
      BY <3>1, <3>2 DEF TypeOK
  <2>2. pc' \in [Tasks -> {"idle"} \cup Pending \cup Settled]
    BY <1>7, SelectCases DEF TypeOK, Pending, Settled
  <2>3. pick' \in [Tasks -> 0..MaxSpawns]
    <3>1. pick' = pick \/ \E w \in workers : pick' = [pick EXCEPT ![t] = w]
      BY <1>7, SelectCases
    <3>2. workers \subseteq 0..MaxSpawns
      BY DEF TypeOK
    <3>3. QED
      BY <3>1, <3>2 DEF TypeOK
  <2>4. UNCHANGED <<phase, workerVars, createVars, attempt, execVars>>
    BY <1>7 DEF Select
  <2>5. QED
    BY <2>1, <2>2, <2>3, <2>4 DEF TypeOK, workerVars, createVars, execVars
<1>8. ASSUME NEW t \in Tasks, WaitTimeout(t)
      PROVE  TypeOK' /\ IsFiniteSet(errHandlers)'
  <2>1. queue' \in Seq(Tasks)
    BY <1>8, RemoveAtProperties DEF WaitTimeout, TypeOK
  <2>2. QED
    BY <1>8, <2>1 DEF WaitTimeout, TypeOK, workerVars, createVars, execVars, Settled
<1>9. ASSUME NEW t \in Tasks, CreateDone(t)
      PROVE  TypeOK' /\ IsFiniteSet(errHandlers)'
  <2>1. spawned < MaxSpawns /\ Register(spawned + 1, KeyOf[t])
    BY <1>9 DEF CreateDone
  <2>2. pc' \in [Tasks -> {"idle"} \cup Pending \cup Settled]
    BY <1>9 DEF CreateDone, TypeOK, Pending
  <2>3. UNCHANGED <<phase, createVars, queue, attempt, pick, execVars>>
    BY <1>9 DEF CreateDone
  <2>4. KeyOf[t] \in Keys
    OBVIOUS
  <2>5. QED
    BY <2>1, <2>2, <2>3, <2>4, RegisterType DEF TypeOK, createVars, execVars
<1>10. ASSUME NEW t \in Tasks, CreateFail(t)
       PROVE  TypeOK' /\ IsFiniteSet(errHandlers)'
  BY <1>10 DEF CreateFail, TypeOK, workerVars, createVars, execVars, Settled
<1>11. ASSUME NEW t \in Tasks, Execute(t)
       PROVE  TypeOK' /\ IsFiniteSet(errHandlers)'
  <2> DEFINE w == pick[t]
             e == ExecOf(t)
  <2>1. e \in Execs
    BY <1>11 DEF BaseInv, Execute, ExecOf, Execs, Started, WorkerPerRuleset, TypeOK, Pending, Workers
  <2>2. IsFiniteSet(errHandlers \cup {e})
    BY FS_AddElement
  <2>3. /\ status' = [status EXCEPT ![w] = "busy"]
        /\ Arm(e)
        /\ inbox' = IF alive[w] THEN [inbox EXCEPT ![w] = @ \cup {e}] ELSE inbox
        /\ pc' = [pc EXCEPT ![t] = "running"]
        /\ UNCHANGED <<phase, spawned, workers, home, taskCount, cachedDoc, alive,
                       createVars, queue, attempt, pick>>
    BY <1>11 DEF Execute
  <2> HIDE DEF w, e
  <2>4. inbox' \in [Workers -> SUBSET Execs]
    BY <2>1, <2>3 DEF TypeOK
  <2>5. QED
    BY <2>1, <2>2, <2>3, <2>4 DEF TypeOK, Arm, createVars, Pending
<1>12. ASSUME NEW w \in Workers, NEW e \in inbox[w], NEW success \in BOOLEAN,
              NEW cacheHit \in BOOLEAN, Result(w, e, success, cacheHit)
       PROVE  TypeOK' /\ IsFiniteSet(errHandlers)'
  <2> DEFINE matching == {h \in handlers : h.worker = w /\ h.task = e.task}
  <2>1. e \in Execs /\ e.task \in Tasks
    BY DEF TypeOK, Execs
  <2>2. inbox' \in [Workers -> SUBSET Execs]
    BY <1>12 DEF Result, TypeOK
  <2>3. UNCHANGED <<phase, spawned, workers, home, alive, createVars>>
    BY <1>12 DEF Result
  <2>4. CASE matching = {}
    <3>1. UNCHANGED <<status, taskCount, cachedDoc, queue, callVars, execVars>>
      BY <1>12, <2>4 DEF Result
    <3>2. QED
      BY <2>2, <2>3, <3>1 DEF TypeOK, createVars, callVars, execVars
  <2>5. CASE matching # {}
    <3> DEFINE calls == [pc EXCEPT ![e.task] = IF success THEN "ok" ELSE "failed"]
    <3>1. /\ handlers' = handlers \ matching
          /\ status' = [status EXCEPT ![w] = "ready"]
          /\ taskCount' = [taskCount EXCEPT ![w] = @ + 1]
          /\ cachedDoc' = IF success /\ cacheHit
                          THEN [cachedDoc EXCEPT ![w] = DocOf[e.task]]
                          ELSE cachedDoc
          /\ NotifyWorkerReady(w, calls)
          /\ UNCHANGED <<attempt, timers, errHandlers>>
      BY <1>12, <2>5 DEF Result
    <3>2. calls \in [Tasks -> {"idle"} \cup Pending \cup Settled]
      BY <2>1 DEF TypeOK, Settled
    <3>3. /\ queue' \in Seq(Tasks)
          /\ pc' \in [Tasks -> {"idle"} \cup Pending \cup Settled]
          /\ pick' \in [Tasks -> 0..MaxSpawns]
      BY <3>1, <3>2, NotifyType
    <3> HIDE DEF calls
    <3>4. QED
      <4>1. handlers' \in SUBSET Execs
        BY <3>1 DEF TypeOK
      <4>2. status' \in [Workers -> {"initializing", "ready", "busy", "error", "terminated"}]
        BY <3>1 DEF TypeOK
      <4>3. taskCount' \in [Workers -> Nat]
        BY <3>1 DEF TypeOK
      <4>4. cachedDoc' \in [Workers -> Docs \cup {NoDoc}]
        BY <2>1, <3>1 DEF TypeOK
      <4>5. QED
        BY <2>2, <2>3, <3>1, <3>3, <4>1, <4>2, <4>3, <4>4 DEF TypeOK, createVars
  <2>6. QED
    BY <2>4, <2>5
<1>13. ASSUME NEW w \in Workers, WorkerError(w)
       PROVE  TypeOK' /\ IsFiniteSet(errHandlers)'
  <2> DEFINE hit == {e \in errHandlers : e.worker = w}
  <2>1. IsFiniteSet(hit) /\ IsFiniteSet(errHandlers \ hit)
    BY FS_Subset
  <2>2. Cardinality(hit) \in Nat
    BY <2>1, FS_CardinalityType
  <2>3. /\ alive' = [alive EXCEPT ![w] = FALSE]
        /\ inbox' = [inbox EXCEPT ![w] = {}]
        /\ handlers' = handlers \ hit
        /\ errHandlers' = errHandlers \ hit
        /\ pc' = [t \in Tasks |-> IF pc[t] = "running" /\ ExecOf(t) \in hit
                                  THEN "failed" ELSE pc[t]]
        /\ \/ status' = [status EXCEPT ![w] = "terminated"] /\ UNCHANGED failing
           \/ /\ status' = [status EXCEPT ![w] = "error"]
              /\ failing' = [failing EXCEPT ![w] = @ + Cardinality(hit)]
        /\ UNCHANGED <<phase, spawned, workers, home, taskCount, cachedDoc,
                       spawning, draining, queue, attempt, pick, timers>>
    BY <1>13 DEF WorkerError
  <2> HIDE DEF hit
  <2>4. handlers' \subseteq Execs /\ errHandlers' \subseteq Execs
    BY <2>3 DEF TypeOK
  <2>5. failing' \in [Workers -> Nat]
    BY <2>2, <2>3 DEF TypeOK
  <2>6. pc' \in [Tasks -> {"idle"} \cup Pending \cup Settled]
    BY <2>3 DEF TypeOK, Settled
  <2>7. QED
    BY <2>1, <2>3, <2>4, <2>5, <2>6 DEF TypeOK
<1>14. ASSUME NEW w \in Workers, ReplaceWorker(w)
       PROVE  TypeOK' /\ IsFiniteSet(errHandlers)'
  <2>1. failing' \in [Workers -> Nat]
    BY <1>14 DEF ReplaceWorker, TypeOK
  <2>2. home[w] \in Keys
    BY DEF TypeOK
  <2>3. spawning' = spawning \/ spawning' = [spawning EXCEPT ![home[w]] = @ + 1]
    BY <1>14 DEF ReplaceWorker
  <2>4. spawning' \in [Keys -> Nat]
    BY <2>2, <2>3 DEF TypeOK
  <2>5. QED
    BY <1>14, <2>1, <2>4 DEF ReplaceWorker, TypeOK, callVars, execVars
<1>15. ASSUME NEW w \in Workers, ScaleDownDone(w)
       PROVE  TypeOK' /\ IsFiniteSet(errHandlers)'
  BY <1>15 DEF ScaleDownDone, TypeOK, callVars, execVars
<1>16. ASSUME NEW e \in timers, TaskTimeout(e)
       PROVE  TypeOK' /\ IsFiniteSet(errHandlers)'
  <2>1. e \in Execs /\ e.task \in Tasks /\ e.worker \in Workers
    BY DEF TypeOK, Execs
  <2> DEFINE calls == [pc EXCEPT ![e.task] = IF IsCurrent(e) THEN "timeout" ELSE @]
  <2>2. calls \in [Tasks -> {"idle"} \cup Pending \cup Settled]
    BY <2>1 DEF TypeOK, Settled
  <2>3. /\ Disarm(e)
        /\ status' = [status EXCEPT ![e.worker] = "ready"]
        /\ NotifyWorkerReady(e.worker, calls)
        /\ UNCHANGED <<phase, spawned, workers, home, taskCount, cachedDoc, alive, inbox,
                       createVars, attempt>>
    BY <1>16 DEF TaskTimeout
  <2>4. /\ queue' \in Seq(Tasks)
        /\ pc' \in [Tasks -> {"idle"} \cup Pending \cup Settled]
        /\ pick' \in [Tasks -> 0..MaxSpawns]
    BY <2>1, <2>2, <2>3, NotifyType
  <2>5. IsFiniteSet(errHandlers')
    BY <2>3, FS_RemoveElement DEF Disarm
  <2> HIDE DEF calls
  <2>6. QED
    BY <2>1, <2>3, <2>4, <2>5 DEF TypeOK, Disarm, createVars
<1>17. CASE ScalingTick
  <2>1. spawning' \in [Keys -> Nat]
    BY <1>17 DEF ScalingTick, TypeOK
  <2>2. draining' \in SUBSET Workers /\ alive' \in [Workers -> BOOLEAN]
    <3> DEFINE down == {k \in Keys : ScaleDown(k)}
    <3>1. PICK target \in [down -> workers] :
             /\ draining' = draining \cup {target[k] : k \in down}
             /\ alive' = [w \in Workers |-> alive[w] /\ \A k \in down : w # target[k]]
      BY <1>17 DEF ScalingTick
    <3>2. workers \subseteq Workers
      BY DEF TypeOK, Workers
    <3> HIDE DEF down
    <3>3. {target[k] : k \in down} \subseteq Workers
      BY <3>2
    <3>4. draining' \in SUBSET Workers
      BY <3>1, <3>3 DEF TypeOK
    <3>5. alive' \in [Workers -> BOOLEAN]
      BY <3>1, Zenon
    <3>6. QED
      BY <3>4, <3>5
  <2>3. QED
    BY <1>17, <2>1, <2>2 DEF ScalingTick, TypeOK, callVars, execVars
<1>18. CASE Shutdown
  BY <1>18 DEF Shutdown, TypeOK, createVars, callVars, execVars
<1>19. CASE ShutdownDone
  <2>1. <<>> \in Seq(Tasks)
    OBVIOUS
  <2>2. QED
    BY <1>19, <2>1 DEF ShutdownDone, TypeOK, createVars, execVars, Settled
<1>20. CASE UNCHANGED vars
  BY <1>20 DEF TypeOK, vars, workerVars, createVars, callVars, execVars
<1>21. QED
  BY <1>1, <1>2, <1>3, <1>4, <1>5, <1>6, <1>7, <1>8, <1>9, <1>10, <1>11, <1>12,
     <1>13, <1>14, <1>15, <1>16, <1>17, <1>18, <1>19, <1>20
     DEF Next, CallStep, WorkerStep

\* The worker w is given back by the execution that task t has under way.
Settles(w, t, o) ==
    /\ pc[t] = "running" /\ pick[t] = w
    /\ ExecOf(t) \in handlers
    /\ handlers' = handlers \ {ExecOf(t)}
    /\ status' = [status EXCEPT ![w] = "ready"]
    /\ NotifyWorkerReady(w, [pc EXCEPT ![t] = o])
    /\ UNCHANGED <<attempt, timers, errHandlers>>

\* A result either finds nobody waiting for it, or settles the one execution
\* that its task has under way.
LEMMA ResultCases ==
    ASSUME TypeOK, HandlersAreLive,
           NEW w \in Workers, NEW e \in inbox[w],
           NEW success \in BOOLEAN, NEW cacheHit \in BOOLEAN,
           Result(w, e, success, cacheHit)
    PROVE  \/ UNCHANGED <<status, queue, callVars, execVars>>
           \/ \E t \in Tasks, o \in Settled : Settles(w, t, o)
<1> DEFINE matching == {h \in handlers : h.worker = w /\ h.task = e.task}
           t == e.task
           o == IF success THEN "ok" ELSE "failed"
<1>1. e \in Execs
  BY DEF TypeOK
<1>2. t \in Tasks /\ o \in Settled
  BY <1>1 DEF Execs, Settled
<1>3. CASE matching = {}
  BY <1>3 DEF Result
<1>4. CASE matching # {}
  <2>1. /\ handlers' = handlers \ matching
        /\ status' = [status EXCEPT ![w] = "ready"]
        /\ NotifyWorkerReady(w, [pc EXCEPT ![t] = o])
        /\ UNCHANGED <<attempt, timers, errHandlers>>
    BY <1>4 DEF Result
  <2>2. \A h \in matching : pc[t] = "running" /\ h = ExecOf(t)
    BY DEF HandlersAreLive, IsCurrent
  <2>3. matching = {ExecOf(t)}
    BY <1>4, <2>2
  <2>4. ExecOf(t) \in handlers /\ ExecOf(t).worker = w
    BY <2>3
  <2>5. pc[t] = "running" /\ pick[t] = w
    BY <1>4, <2>2, <2>4 DEF ExecOf
  <2> HIDE DEF matching, t, o
  <2>6. QED
    BY <1>2, <2>1, <2>3, <2>4, <2>5 DEF Settles
<1>5. QED
  BY <1>3, <1>4

(***************************************************************************)
(* Steps, by what they can disturb: the steps that only create and remove   *)
(* workers leave the calls and the executions alone.                        *)
(***************************************************************************)
LEMMA StepCases ==
    ASSUME TypeOK, HandlersAreLive, [Next]_vars
    PROVE  \/ UNCHANGED <<queue, callVars, execVars>>
           \/ \E t \in Tasks : CallStep(t)
           \/ \E w \in Workers, t \in Tasks, o \in Settled : Settles(w, t, o)
           \/ \E w \in Workers : WorkerError(w)
           \/ \E e \in timers : TaskTimeout(e)
           \/ ShutdownDone
<1>1. CASE UNCHANGED vars
  BY <1>1 DEF vars
<1>2. CASE \/ Initialize \/ InitializeDone \/ ScalingTick \/ Shutdown
           \/ \E k \in Keys : SpawnDone(k) \/ SpawnFail(k)
           \/ \E w \in Workers : ReplaceWorker(w) \/ ScaleDownDone(w)
  BY <1>2 DEF Initialize, InitializeDone, ScalingTick, Shutdown, SpawnDone, SpawnFail,
              ReplaceWorker, ScaleDownDone
<1>3. ASSUME NEW w \in Workers, NEW e \in inbox[w],
             NEW success \in BOOLEAN, NEW cacheHit \in BOOLEAN,
             Result(w, e, success, cacheHit)
      PROVE  \/ UNCHANGED <<queue, callVars, execVars>>
             \/ \E t \in Tasks, o \in Settled : Settles(w, t, o)
  BY <1>3, ResultCases
<1>4. CASE \E w \in Workers : \E e \in inbox[w] : \E success, cacheHit \in BOOLEAN :
              Result(w, e, success, cacheHit)
  BY <1>3, <1>4, Zenon
<1>5. QED
  BY <1>1, <1>2, <1>4, Zenon DEF Next, WorkerStep

\* Ids are issued in order, and a worker never changes its ruleset.
LEMMA HomeKept ==
    ASSUME TypeOK, [Next]_vars
    PROVE  spawned' >= spawned /\ \A w \in 1..spawned : home'[w] = home[w]
<1>1. ASSUME NEW k \in Keys, Register(spawned + 1, k)
      PROVE  spawned' >= spawned /\ \A w \in 1..spawned : home'[w] = home[w]
  BY <1>1, PoolAssumption DEF Register, TypeOK, Workers
<1>2. CASE UNCHANGED <<spawned, home>>
  BY <1>2 DEF TypeOK
<1>3. CASE \E k \in Keys : SpawnDone(k)
  BY <1>1, <1>3 DEF SpawnDone
<1>4. CASE \E t \in Tasks : CreateDone(t)
  BY <1>1, <1>4, PoolAssumption DEF CreateDone
<1>5. CASE \/ Initialize \/ InitializeDone \/ ScalingTick \/ Shutdown \/ ShutdownDone
           \/ \E k \in Keys : SpawnFail(k)
           \/ UNCHANGED vars
  BY <1>2, <1>5 DEF Initialize, InitializeDone, ScalingTick, Shutdown, ShutdownDone,
                    SpawnFail, vars, workerVars
<1>6. CASE \E t \in Tasks : \/ Call(t) \/ ResolveFail(t) \/ Select(t) \/ WaitTimeout(t)
                            \/ CreateFail(t) \/ Execute(t)
  BY <1>2, <1>6 DEF Call, ResolveFail, Select, WaitTimeout, CreateFail, Execute, workerVars
<1>7. CASE \E w \in Workers : ReplaceWorker(w) \/ ScaleDownDone(w) \/ WorkerError(w)
  BY <1>2, <1>7 DEF ReplaceWorker, ScaleDownDone, WorkerError
<1>8. CASE \E w \in Workers : \E e \in inbox[w] : \E success, cacheHit \in BOOLEAN :
              Result(w, e, success, cacheHit)
  BY <1>2, <1>8 DEF Result
<1>9. CASE \E e \in timers : TaskTimeout(e)
  BY <1>2, <1>9 DEF TaskTimeout
<1>10. QED
  BY <1>3, <1>4, <1>5, <1>6, <1>7, <1>8, <1>9 DEF Next, CallStep, WorkerStep

\* What a worker given back means for the calls: at most one waiter, who was
\* in the queue, is picked; every other call is as `calls` says.
LEMMA ServedCases ==
    ASSUME TypeOK, QueueHoldsWaiters, NEW w \in Workers,
           NEW calls \in [Tasks -> {"idle"} \cup Pending \cup Settled],
           \A t \in Tasks : pc[t] = "waiting" <=> calls[t] = "waiting",
           NotifyWorkerReady(w, calls)
    PROVE  /\ \A i, j \in 1..Len(queue') : queue'[i] = queue'[j] => i = j
           /\ \A t \in Tasks : pc'[t] = "waiting" <=> \E i \in 1..Len(queue') : queue'[i] = t
           /\ \A t \in Tasks :
                 \/ pc'[t] = calls[t] /\ pick'[t] = pick[t]
                 \/ /\ pc[t] = "waiting" /\ KeyOf[t] = home[w]
                    /\ pc'[t] = "picked" /\ pick'[t] = w
           /\ \A t \in Tasks : pc'[t] = "waiting" /\ KeyOf[t] = home[w] =>
                 \E u \in Tasks : pc'[u] = "picked" /\ KeyOf[u] = home[w]
<1>1. CASE /\ \A i \in 1..Len(queue) : KeyOf[queue[i]] # home[w]
           /\ pc' = calls
           /\ UNCHANGED <<queue, pick>>
  BY <1>1 DEF QueueHoldsWaiters
<1>2. ASSUME NEW i \in 1..Len(queue),
             queue[i] \in Tasks,
             KeyOf[queue[i]] = home[w],
             queue' = RemoveAt(queue, i),
             pc' = [calls EXCEPT ![queue[i]] = "picked"],
             pick' = [pick EXCEPT ![queue[i]] = w]
      PROVE  /\ \A m, n \in 1..Len(queue') : queue'[m] = queue'[n] => m = n
             /\ \A t \in Tasks : pc'[t] = "waiting" <=> \E m \in 1..Len(queue') : queue'[m] = t
             /\ \A t \in Tasks :
                   \/ pc'[t] = calls[t] /\ pick'[t] = pick[t]
                   \/ /\ pc[t] = "waiting" /\ KeyOf[t] = home[w]
                      /\ pc'[t] = "picked" /\ pick'[t] = w
             /\ pc'[queue[i]] = "picked"
  <2> DEFINE u == queue[i]
  <2>1. u \in Tasks /\ pc[u] = "waiting"
    BY <1>2 DEF QueueHoldsWaiters
  <2>2. queue \in Seq(Tasks) /\ \A m, n \in 1..Len(queue) : queue[m] = queue[n] => m = n
    BY DEF TypeOK, QueueHoldsWaiters
  <2>3. /\ \A m, n \in 1..Len(queue') : queue'[m] = queue'[n] => m = n
        /\ \A x \in Tasks : (\E m \in 1..Len(queue') : queue'[m] = x)
                     <=> x # u /\ \E m \in 1..Len(queue) : queue[m] = x
    <3>1. queue' \in Seq(Tasks)
      BY <1>2, <2>2, RemoveAtProperties
    <3>2. QED
      BY <1>2, <2>2, <3>1, RemoveOnce
  <2>4. pc'[u] = "picked" /\ pick'[u] = w
    BY <1>2, <2>1 DEF TypeOK
  <2>5. \A t \in Tasks \ {u} : pc'[t] = calls[t] /\ pick'[t] = pick[t]
    BY <1>2 DEF TypeOK
  <2>6. \A t \in Tasks : pc[t] = "waiting" <=> \E m \in 1..Len(queue) : queue[m] = t
    BY DEF QueueHoldsWaiters
  <2>7. KeyOf[u] = home[w]
    BY <1>2
  <2> HIDE DEF u
  <2>8. \A t \in Tasks : pc'[t] = "waiting" <=> \E m \in 1..Len(queue') : queue'[m] = t
    BY <2>3, <2>4, <2>5, <2>6
  <2>9. \A t \in Tasks :
           \/ pc'[t] = calls[t] /\ pick'[t] = pick[t]
           \/ /\ pc[t] = "waiting" /\ KeyOf[t] = home[w]
              /\ pc'[t] = "picked" /\ pick'[t] = w
    BY <2>1, <2>4, <2>5, <2>7
  <2>10. pc'[queue[i]] = "picked"
    BY <2>4 DEF u
  <2>11. QED
    BY <2>3, <2>8, <2>9, <2>10
<1>3. QED
  BY <1>1, <1>2, NotifyCases DEF QueueHoldsWaiters

(***************************************************************************)
(* The parts of BaseInv.                                                    *)
(***************************************************************************)
LEMMA QueueStep ==
    BaseInv /\ HandlersAreLive /\ [Next]_vars => QueueHoldsWaiters' /\ Started' /\ WorkerPerRuleset'
<1> SUFFICES ASSUME BaseInv, HandlersAreLive, [Next]_vars
             PROVE  QueueHoldsWaiters' /\ Started' /\ WorkerPerRuleset'
  OBVIOUS
<1>a. TypeOK /\ QueueHoldsWaiters /\ Started /\ WorkerPerRuleset /\ ExecsPlaced
  BY DEF BaseInv, TypeInv
<1>b. spawned' >= spawned /\ \A w \in 1..spawned : home'[w] = home[w]
  BY <1>a, HomeKept
<1>c. spawned \in Nat /\ spawned' \in Nat /\ 1..spawned \subseteq Workers
      /\ 1..spawned \subseteq 1..spawned'
  BY <1>a, <1>b, TypeStep, PoolAssumption DEF TypeInv, TypeOK, Workers
<1> DEFINE Goal == QueueHoldsWaiters' /\ Started' /\ WorkerPerRuleset'
\* Most steps move a call between states that are not "waiting".
<1>d. ASSUME UNCHANGED queue,
             \A t \in Tasks : pc'[t] = "waiting" <=> pc[t] = "waiting"
      PROVE  QueueHoldsWaiters'
  BY <1>a, <1>d DEF QueueHoldsWaiters
<1>e. ASSUME \A t \in Tasks : pc'[t] \in {"picked", "running"} =>
                pick'[t] \in 1..spawned /\ home[pick'[t]] = KeyOf[t]
      PROVE  WorkerPerRuleset'
  BY <1>b, <1>c, <1>e DEF WorkerPerRuleset
<1>1. CASE UNCHANGED <<queue, callVars, execVars>>
  <2>1. UNCHANGED <<queue, pc, attempt, pick>>
    BY <1>1 DEF callVars
  <2>2. QED
    BY <1>a, <1>d, <1>e, <2>1 DEF Started, WorkerPerRuleset
<1>2. ASSUME NEW t \in Tasks, Call(t)
      PROVE  Goal
  <2>1. /\ pc[t] \in {"idle", "failed", "timeout"}
        /\ \E p \in {"resolving", "failed"} : pc' = [pc EXCEPT ![t] = p]
        /\ attempt' = [attempt EXCEPT ![t] = @ + 1]
        /\ UNCHANGED <<queue, pick>>
    BY <1>2 DEF Call
  <2>2. \A u \in Tasks : pc'[u] # pc[u] => u = t /\ pc'[u] \in {"resolving", "failed"}
    BY <1>a, <2>1 DEF TypeOK
  <2>3. \A u \in Tasks : attempt'[u] = IF u = t THEN attempt[u] + 1 ELSE attempt[u]
    BY <1>a, <2>1 DEF TypeOK
  <2>4. Started'
    <3>1. \A u \in Tasks : attempt[u] \in Nat
      BY <1>a, PoolAssumption DEF TypeOK
    <3>2. ASSUME NEW u \in Tasks, pc'[u] \in Pending
          PROVE  attempt'[u] # 0
      <4>1. CASE u = t
        BY <2>3, <3>1, <4>1
      <4>2. CASE u # t
        BY <1>a, <2>2, <2>3, <3>2, <4>2 DEF Started
      <4>3. QED
        BY <4>1, <4>2
    <3>3. QED
      BY <3>2 DEF Started
  <2>5. QED
    BY <1>a, <1>d, <1>e, <2>1, <2>2, <2>4 DEF WorkerPerRuleset
<1>3. ASSUME NEW t \in Tasks, ResolveFail(t) \/ CreateFail(t) \/ CreateDone(t)
      PROVE  Goal
  <2>1. /\ pc[t] \in {"resolving", "creating"}
        /\ \E p \in {"failed", "reselecting"} : pc' = [pc EXCEPT ![t] = p]
        /\ UNCHANGED <<queue, pick, attempt>>
    BY <1>3 DEF ResolveFail, CreateFail, CreateDone
  <2>2. \A u \in Tasks : pc'[u] # pc[u] => u = t /\ pc'[u] \in {"failed", "reselecting"}
    BY <1>a, <2>1 DEF TypeOK
  <2>3. Started'
    BY <1>a, <2>1, <2>2 DEF Started, Pending
  <2>4. QED
    BY <1>a, <1>d, <1>e, <2>1, <2>2, <2>3 DEF WorkerPerRuleset
<1>4. ASSUME NEW t \in Tasks, Execute(t)
      PROVE  Goal
  <2>1. pc[t] = "picked" /\ pc' = [pc EXCEPT ![t] = "running"] /\ UNCHANGED <<queue, pick, attempt>>
    BY <1>4 DEF Execute
  <2>2. \A u \in Tasks : pc'[u] # pc[u] => u = t /\ pc'[u] = "running"
    BY <1>a, <2>1 DEF TypeOK
  <2>3. Started'
    BY <1>a, <2>1, <2>2 DEF Started, Pending
  <2>4. QED
    BY <1>a, <1>d, <1>e, <2>1, <2>2, <2>3 DEF WorkerPerRuleset
<1>5. ASSUME NEW t \in Tasks, WaitTimeout(t)
      PROVE  Goal
  <2>1. PICK i \in 1..Len(queue) : queue[i] = t /\ queue' = RemoveAt(queue, i)
    BY <1>5 DEF WaitTimeout
  <2>2. pc' = [pc EXCEPT ![t] = "failed"] /\ UNCHANGED <<pick, attempt>>
    BY <1>5 DEF WaitTimeout
  <2>3. \A u \in Tasks : pc'[u] = IF u = t THEN "failed" ELSE pc[u]
    BY <1>a, <2>2 DEF TypeOK
  <2>4. /\ \A m, n \in 1..Len(queue') : queue'[m] = queue'[n] => m = n
        /\ \A x \in Tasks : (\E m \in 1..Len(queue') : queue'[m] = x)
                     <=> x # queue[i] /\ \E m \in 1..Len(queue) : queue[m] = x
    <3>1. queue \in Seq(Tasks) /\ \A m, n \in 1..Len(queue) : queue[m] = queue[n] => m = n
      BY <1>a DEF TypeOK, QueueHoldsWaiters
    <3>2. queue' \in Seq(Tasks)
      BY <2>1, <3>1, RemoveAtProperties
    <3>3. QED
      BY <2>1, <3>1, <3>2, RemoveOnce, SMTT(30)
  <2>5. QueueHoldsWaiters'
    BY <1>a, <2>1, <2>3, <2>4 DEF QueueHoldsWaiters
  <2>6. Started'
    BY <1>a, <2>2, <2>3 DEF Started, Pending
  <2>7. QED
    BY <1>a, <1>e, <2>2, <2>3, <2>5, <2>6 DEF WorkerPerRuleset
<1>6. ASSUME NEW t \in Tasks, Select(t)
      PROVE  Goal
  <2>1. pc[t] \in {"resolving", "reselecting"} /\ UNCHANGED attempt
    BY <1>6 DEF Select
  <2>2. CASE /\ \E p \in {"failed", "creating"} : pc' = [pc EXCEPT ![t] = p]
             /\ UNCHANGED <<queue, pick>>
    <3>1. \A u \in Tasks : pc'[u] # pc[u] => u = t /\ pc'[u] \in {"failed", "creating"}
      BY <1>a, <2>2 DEF TypeOK
    <3>2. Started'
      BY <1>a, <2>1, <3>1 DEF Started, Pending
    <3>3. QED
      BY <1>a, <1>d, <1>e, <2>1, <2>2, <3>1, <3>2 DEF WorkerPerRuleset
  <2>3. ASSUME NEW w \in workers,
               home[w] = KeyOf[t],
               pick' = [pick EXCEPT ![t] = w],
               pc' = [pc EXCEPT ![t] = "picked"],
               UNCHANGED queue
        PROVE  Goal
    <3>1. \A u \in Tasks : /\ pc'[u] = IF u = t THEN "picked" ELSE pc[u]
                           /\ pick'[u] = IF u = t THEN w ELSE pick[u]
      BY <1>a, <2>3 DEF TypeOK
    <3>2. Started'
      BY <1>a, <2>1, <3>1 DEF Started, Pending
    <3>3. w \in 1..spawned
      BY <1>a DEF TypeOK
    <3>4. WorkerPerRuleset'
      BY <1>a, <1>e, <2>3, <3>1, <3>3 DEF WorkerPerRuleset
    <3>5. QED
      BY <1>d, <2>1, <2>3, <3>1, <3>2, <3>4
  <2>4. CASE /\ queue' = Append(queue, t)
             /\ pc' = [pc EXCEPT ![t] = "waiting"]
             /\ UNCHANGED pick
    <3>1. \A u \in Tasks : pc'[u] = IF u = t THEN "waiting" ELSE pc[u]
      BY <1>a, <2>4 DEF TypeOK
    <3>2. /\ Len(queue) \in Nat
          /\ Len(queue') = Len(queue) + 1
          /\ \A i \in 1..Len(queue) : queue'[i] = queue[i]
          /\ queue'[Len(queue) + 1] = t
      BY <1>a, <2>4, AppendProperties, LenProperties DEF TypeOK
    <3>3. \A i \in 1..Len(queue) : queue[i] # t
      BY <1>a, <2>1 DEF QueueHoldsWaiters
    <3>4. \A i, j \in 1..Len(queue') : queue'[i] = queue'[j] => i = j
      BY <1>a, <3>2, <3>3 DEF QueueHoldsWaiters
    <3>5. \A u \in Tasks : (\E i \in 1..Len(queue') : queue'[i] = u)
                              <=> u = t \/ \E i \in 1..Len(queue) : queue[i] = u
      <4>1. \A i \in 1..Len(queue') : i \in 1..Len(queue) \/ i = Len(queue) + 1
        BY <3>2
      <4>2. \A i \in 1..Len(queue) : i \in 1..Len(queue')
        BY <3>2
      <4>3. Len(queue) + 1 \in 1..Len(queue')
        BY <3>2
      <4>4. QED
        BY <3>2, <4>1, <4>2, <4>3
    <3>6. \A u \in Tasks : pc'[u] = "waiting" <=> \E i \in 1..Len(queue') : queue'[i] = u
      BY <1>a, <3>1, <3>5 DEF QueueHoldsWaiters
    <3>7. Started'
      BY <1>a, <2>1, <3>1 DEF Started, Pending
    <3>8. QED
      BY <1>a, <1>e, <2>4, <3>1, <3>4, <3>6, <3>7 DEF WorkerPerRuleset, QueueHoldsWaiters
  <2>5. QED
    BY <1>6, <2>2, <2>3, <2>4, SelectCases
\* A worker given back: `calls` differs from pc only in a call that ran.
<1>7. ASSUME NEW w \in 1..spawned, NEW calls \in [Tasks -> {"idle"} \cup Pending \cup Settled],
             NotifyWorkerReady(w, calls), UNCHANGED attempt,
             \A u \in Tasks : calls[u] = pc[u] \/ (pc[u] = "running" /\ calls[u] \in Settled)
      PROVE  Goal
  <2>1. \A u \in Tasks : pc[u] = "waiting" <=> calls[u] = "waiting"
    BY <1>7 DEF Settled
  <2>2. w \in Workers
    BY <1>c
  <2>3. /\ \A i, j \in 1..Len(queue') : queue'[i] = queue'[j] => i = j
        /\ \A u \in Tasks : pc'[u] = "waiting" <=> \E i \in 1..Len(queue') : queue'[i] = u
        /\ \A u \in Tasks :
              \/ pc'[u] = calls[u] /\ pick'[u] = pick[u]
              \/ /\ pc[u] = "waiting" /\ KeyOf[u] = home[w]
                 /\ pc'[u] = "picked" /\ pick'[u] = w
    BY <1>a, <1>7, <2>1, <2>2, ServedCases
  <2>4. Started'
    BY <1>a, <1>7, <2>3 DEF Started, Pending, Settled
  <2>5. WorkerPerRuleset'
    BY <1>a, <1>e, <1>7, <2>3 DEF WorkerPerRuleset, Settled
  <2>6. QED
    BY <2>3, <2>4, <2>5 DEF QueueHoldsWaiters
<1>8. ASSUME NEW w \in Workers, NEW t \in Tasks, NEW o \in Settled, Settles(w, t, o)
      PROVE  Goal
  <2>1. /\ pc[t] = "running" /\ pick[t] = w
        /\ NotifyWorkerReady(w, [pc EXCEPT ![t] = o]) /\ UNCHANGED attempt
    BY <1>8 DEF Settles
  <2>2. w \in 1..spawned
    BY <1>a, <2>1 DEF WorkerPerRuleset
  <2>3. [pc EXCEPT ![t] = o] \in [Tasks -> {"idle"} \cup Pending \cup Settled]
    BY <1>a DEF TypeOK
  <2>4. \A u \in Tasks : [pc EXCEPT ![t] = o][u] = IF u = t THEN o ELSE pc[u]
    BY <1>a DEF TypeOK
  <2>5. QED
    BY <1>7, <2>1, <2>2, <2>3, <2>4
<1>9. ASSUME NEW e \in timers, TaskTimeout(e)
      PROVE  Goal
  <2> DEFINE calls == [pc EXCEPT ![e.task] = IF IsCurrent(e) THEN "timeout" ELSE @]
  <2>1. e.worker \in 1..spawned /\ e.task \in Tasks
    BY <1>a DEF ExecsPlaced, TypeOK, Execs
  <2>2. calls \in [Tasks -> {"idle"} \cup Pending \cup Settled]
    BY <1>a DEF TypeOK, Settled
  <2>3. \A u \in Tasks : calls[u] = pc[u] \/ (pc[u] = "running" /\ calls[u] \in Settled)
    BY <1>a, <2>1 DEF TypeOK, IsCurrent, Settled
  <2>4. NotifyWorkerReady(e.worker, calls) /\ UNCHANGED attempt
    BY <1>9 DEF TaskTimeout
  <2> HIDE DEF calls
  <2>5. QED
    BY <1>7, <2>1, <2>2, <2>3, <2>4
<1>10. ASSUME NEW w \in Workers, WorkerError(w)
       PROVE  Goal
  <2>1. /\ UNCHANGED <<queue, pick, attempt>>
        /\ \A u \in Tasks : pc'[u] = pc[u] \/ (pc[u] = "running" /\ pc'[u] = "failed")
    BY <1>10 DEF WorkerError
  <2>2. Started'
    BY <1>a, <2>1 DEF Started, Pending
  <2>3. WorkerPerRuleset'
    BY <1>a, <1>e, <2>1 DEF WorkerPerRuleset
  <2>4. QED
    BY <1>d, <2>1, <2>2, <2>3
<1>11. CASE ShutdownDone
  <2>1. /\ queue' = <<>> /\ UNCHANGED <<pick, attempt>>
        /\ \A u \in Tasks : pc'[u] = IF Contains(queue, u) THEN "failed" ELSE pc[u]
    BY <1>11 DEF ShutdownDone
  <2>2. \A u \in Tasks : pc[u] = "waiting" => Contains(queue, u)
    BY <1>a DEF QueueHoldsWaiters, Contains
  <2>3. QueueHoldsWaiters'
    BY <2>1, <2>2 DEF QueueHoldsWaiters
  <2>4. Started'
    BY <1>a, <2>1 DEF Started, Pending
  <2>5. WorkerPerRuleset'
    BY <1>a, <1>e, <2>1 DEF WorkerPerRuleset
  <2>6. QED
    BY <2>3, <2>4, <2>5
<1>12. QED
  BY <1>a, <1>1, <1>2, <1>3, <1>4, <1>5, <1>6, <1>8, <1>9, <1>10, <1>11, StepCases DEF CallStep

\* Every step keeps timers and handlers on workers of the task's ruleset.
LEMMA ExecsPlacedStep ==
    BaseInv /\ HandlersAreLive /\ [Next]_vars => ExecsPlaced'
<1> SUFFICES ASSUME BaseInv, HandlersAreLive, [Next]_vars
             PROVE  ExecsPlaced'
  OBVIOUS
<1>a. TypeOK /\ WorkerPerRuleset /\ ExecsPlaced
  BY DEF BaseInv, TypeInv
<1>b. spawned' >= spawned /\ \A w \in 1..spawned : home'[w] = home[w]
  BY <1>a, HomeKept
<1>c. 1..spawned \subseteq 1..spawned'
  BY <1>a, <1>b, TypeStep, PoolAssumption DEF TypeInv, TypeOK
\* Only executeOnWorker adds an execution.
<1>d. ASSUME \A e \in timers' \cup handlers' \cup errHandlers' :
                \/ e \in timers \cup handlers \cup errHandlers
                \/ \E t \in Tasks : pc[t] = "picked" /\ e = ExecOf(t)
      PROVE  ExecsPlaced'
  <2>1. \A t \in Tasks : pc[t] = "picked" =>
           ExecOf(t).worker \in 1..spawned /\ home[ExecOf(t).worker] = KeyOf[ExecOf(t).task]
    BY <1>a DEF WorkerPerRuleset, ExecOf
  <2>2. \A e \in timers' \cup handlers' \cup errHandlers' :
           e.worker \in 1..spawned /\ home[e.worker] = KeyOf[e.task]
    BY <1>a, <1>d, <2>1 DEF ExecsPlaced
  <2>3. QED
    BY <1>b, <1>c, <2>2 DEF ExecsPlaced
<1>1. CASE UNCHANGED execVars
  BY <1>d, <1>1 DEF execVars
<1>2. ASSUME NEW t \in Tasks, CallStep(t)
      PROVE  ExecsPlaced'
  <2>1. CASE Execute(t)
    BY <1>d, <2>1 DEF Execute, Arm
  <2>2. CASE ~Execute(t)
    <3>1. UNCHANGED execVars
      BY <1>2, <2>2 DEF CallStep, Call, ResolveFail, Select, WaitTimeout, CreateDone, CreateFail
    <3>2. QED
      BY <1>1, <3>1
  <2>3. QED
    BY <2>1, <2>2
<1>3. ASSUME NEW w \in Workers, NEW t \in Tasks, NEW o \in Settled, Settles(w, t, o)
      PROVE  ExecsPlaced'
  BY <1>d, <1>3 DEF Settles
<1>4. ASSUME NEW w \in Workers, WorkerError(w)
      PROVE  ExecsPlaced'
  BY <1>d, <1>4 DEF WorkerError
<1>5. ASSUME NEW e \in timers, TaskTimeout(e)
      PROVE  ExecsPlaced'
  BY <1>d, <1>5 DEF TaskTimeout, Disarm
<1>6. CASE ShutdownDone
  BY <1>1, <1>6 DEF ShutdownDone
<1>7. CASE UNCHANGED <<queue, callVars, execVars>>
  BY <1>1, <1>7
<1>8. QED
  BY <1>a, <1>2, <1>3, <1>4, <1>5, <1>6, <1>7, StepCases

(***************************************************************************)
(* Executions and their registrations.                                      *)
(***************************************************************************)
LEMMA ArmedStep ==
    BaseInv /\ RunningIsArmed /\ HandlersAreLive /\ [Next]_vars
        => RunningIsArmed' /\ HandlersAreLive'
<1> SUFFICES ASSUME BaseInv, RunningIsArmed, HandlersAreLive, [Next]_vars
             PROVE  RunningIsArmed' /\ HandlersAreLive'
  OBVIOUS
<1>a. TypeOK /\ QueueHoldsWaiters /\ ExecsPlaced
  BY DEF BaseInv, TypeInv
<1>b. \A e \in timers \cup handlers : e.task \in Tasks /\ e.worker \in Workers
  BY <1>a DEF TypeOK, Execs
<1> DEFINE Goal == RunningIsArmed' /\ HandlersAreLive'
\* A call that neither starts nor stops running keeps its execution.
<1>c. ASSUME \A t \in Tasks :
                /\ pc[t] = "running" \/ pc'[t] = "running" =>
                      pc'[t] = pc[t] /\ attempt'[t] = attempt[t] /\ pick'[t] = pick[t],
             UNCHANGED execVars
      PROVE  Goal
  BY <1>b, <1>c DEF RunningIsArmed, HandlersAreLive, IsCurrent, ExecOf, execVars
<1>1. CASE UNCHANGED <<queue, callVars, execVars>>
  BY <1>1, <1>c DEF callVars
<1>2. ASSUME NEW t \in Tasks, CallStep(t)
      PROVE  Goal
  <2>1. CASE Execute(t)
    <3>1. /\ pc[t] = "picked"
          /\ \A u \in Tasks : pc'[u] = IF u = t THEN "running" ELSE pc[u]
          /\ UNCHANGED <<attempt, pick>>
          /\ timers' = timers \cup {ExecOf(t)}
          /\ handlers' = handlers \cup {ExecOf(t)}
          /\ errHandlers' = errHandlers \cup {ExecOf(t)}
      BY <1>a, <2>1 DEF Execute, Arm, TypeOK
    <3>2. \A u \in Tasks : ExecOf(u)' = ExecOf(u)
      BY <3>1 DEF ExecOf
    <3>3. RunningIsArmed'
      BY <3>1, <3>2 DEF RunningIsArmed
    <3>4. ExecOf(t).task = t
      BY DEF ExecOf
    <3>5. HandlersAreLive'
      BY <1>b, <3>1, <3>2, <3>4 DEF HandlersAreLive, IsCurrent
    <3>6. QED
      BY <3>3, <3>5
  <2>2. CASE Call(t)
    BY <1>a, <1>c, <2>2 DEF Call, TypeOK
  <2>3. CASE Select(t)
    <3>1. \A u \in Tasks \ {t} : pc'[u] = pc[u] /\ pick'[u] = pick[u]
      BY <1>a, <2>3, SelectCases DEF TypeOK
    <3>2. pc[t] # "running" /\ pc'[t] # "running"
      BY <1>a, <2>3, SelectCases DEF Select, TypeOK
    <3>3. UNCHANGED <<attempt, execVars>>
      BY <2>3 DEF Select
    <3>4. QED
      BY <1>c, <3>1, <3>2, <3>3
  <2>4. CASE ResolveFail(t) \/ WaitTimeout(t) \/ CreateDone(t) \/ CreateFail(t)
    BY <1>a, <1>c, <2>4 DEF ResolveFail, WaitTimeout, CreateDone, CreateFail, TypeOK
  <2>5. QED
    BY <1>2, <2>1, <2>2, <2>3, <2>4 DEF CallStep
\* A worker given back: the served call was waiting, so its execution is not
\* one that is registered.
<1>3. ASSUME NEW w \in Workers, NEW calls \in [Tasks -> {"idle"} \cup Pending \cup Settled],
             NotifyWorkerReady(w, calls), UNCHANGED attempt,
             \A u \in Tasks : calls[u] = pc[u] \/ (pc[u] = "running" /\ calls[u] \in Settled)
      PROVE  \A u \in Tasks :
                /\ pc'[u] = "running" <=> calls[u] = "running"
                /\ pc'[u] = "running" => pc[u] = "running" /\ ExecOf(u)' = ExecOf(u)
  <2>1. \A u \in Tasks : pc[u] = "waiting" <=> calls[u] = "waiting"
    BY <1>3 DEF Settled
  <2>2. \A u \in Tasks : \/ pc'[u] = calls[u] /\ pick'[u] = pick[u]
                         \/ pc[u] = "waiting" /\ pc'[u] = "picked"
    BY <1>a, <1>3, <2>1, ServedCases
  <2>3. QED
    BY <1>3, <2>1, <2>2 DEF ExecOf, Settled
<1>4. ASSUME NEW w \in Workers, NEW t \in Tasks, NEW o \in Settled, Settles(w, t, o)
      PROVE  Goal
  <2> DEFINE calls == [pc EXCEPT ![t] = o]
  <2>1. \A u \in Tasks : calls[u] = IF u = t THEN o ELSE pc[u]
    BY <1>a DEF TypeOK
  <2>2. calls \in [Tasks -> {"idle"} \cup Pending \cup Settled]
    BY <1>a DEF TypeOK
  <2>3. /\ pc[t] = "running" /\ NotifyWorkerReady(w, calls)
        /\ handlers' = handlers \ {ExecOf(t)}
        /\ UNCHANGED <<attempt, timers, errHandlers>>
    BY <1>4 DEF Settles
  <2> HIDE DEF calls
  <2>4. \A u \in Tasks :
           /\ pc'[u] = "running" <=> calls[u] = "running"
           /\ pc'[u] = "running" => pc[u] = "running" /\ ExecOf(u)' = ExecOf(u)
    BY <1>3, <2>1, <2>2, <2>3
  <2>5. \A u \in Tasks : pc'[u] = "running" <=> pc[u] = "running" /\ u # t
    BY <2>1, <2>4 DEF Settled
  <2>6. \A u \in Tasks : ExecOf(u).task = u
    BY DEF ExecOf
  <2>7. RunningIsArmed'
    BY <2>3, <2>4, <2>5, <2>6 DEF RunningIsArmed
  <2>8. \A e \in handlers' : e \in handlers /\ e.task # t
    BY <2>3 DEF HandlersAreLive, IsCurrent
  <2>9. HandlersAreLive'
    BY <1>b, <2>4, <2>5, <2>8 DEF HandlersAreLive, IsCurrent
  <2>10. QED
    BY <2>7, <2>9
<1>5. ASSUME NEW e \in timers, TaskTimeout(e)
      PROVE  Goal
  <2> DEFINE t == e.task
             calls == [pc EXCEPT ![t] = IF IsCurrent(e) THEN "timeout" ELSE @]
  <2>1. t \in Tasks /\ e.worker \in Workers
    BY <1>b
  <2>2. \A u \in Tasks : calls[u] = IF u = t /\ IsCurrent(e) THEN "timeout" ELSE pc[u]
    BY <1>a DEF TypeOK
  <2>3. calls \in [Tasks -> {"idle"} \cup Pending \cup Settled]
    BY <1>a DEF TypeOK, Settled
  <2>4. /\ NotifyWorkerReady(e.worker, calls) /\ UNCHANGED attempt
        /\ timers' = timers \ {e}
        /\ handlers' = handlers \ {e}
        /\ errHandlers' = errHandlers \ {e}
    BY <1>5 DEF TaskTimeout, Disarm
  <2>5. IsCurrent(e) => pc[t] = "running" /\ e = ExecOf(t)
    BY DEF IsCurrent
  <2>6. \A u \in Tasks : pc[u] = "running" /\ ExecOf(u) = e => u = t /\ IsCurrent(e)
    BY DEF IsCurrent, ExecOf
  <2> HIDE DEF calls, t
  <2>7. \A u \in Tasks : calls[u] = pc[u] \/ (pc[u] = "running" /\ calls[u] \in Settled)
    BY <2>2, <2>5 DEF Settled
  <2>8. \A u \in Tasks :
           /\ pc'[u] = "running" <=> calls[u] = "running"
           /\ pc'[u] = "running" => pc[u] = "running" /\ ExecOf(u)' = ExecOf(u)
    BY <1>3, <2>1, <2>3, <2>4, <2>7
  <2>9. RunningIsArmed'
    BY <2>2, <2>4, <2>6, <2>8 DEF RunningIsArmed
  <2>10. \A h \in handlers' : IsCurrent(h) /\ ~(h.task = t /\ IsCurrent(e))
    BY <2>4, <2>5 DEF HandlersAreLive, IsCurrent
  <2>11. HandlersAreLive'
    <3>1. ASSUME NEW h \in handlers'
          PROVE  IsCurrent(h)'
      <4>1. h.task \in Tasks /\ pc[h.task] = "running" /\ h = ExecOf(h.task)
        BY <1>b, <2>4, <2>10 DEF IsCurrent
      <4>2. calls[h.task] = "running"
        BY <2>2, <2>10, <4>1
      <4>3. QED
        BY <2>8, <4>1, <4>2 DEF IsCurrent
    <3>2. QED
      BY <3>1 DEF HandlersAreLive
  <2>12. QED
    BY <2>9, <2>11
<1>6. ASSUME NEW w \in Workers, WorkerError(w)
      PROVE  Goal
  <2> DEFINE hit == {e \in errHandlers : e.worker = w}
  <2>1. /\ UNCHANGED <<attempt, pick, timers>>
        /\ handlers' = handlers \ hit
        /\ errHandlers' = errHandlers \ hit
        /\ \A u \in Tasks : pc'[u] = IF pc[u] = "running" /\ ExecOf(u) \in hit
                                     THEN "failed" ELSE pc[u]
    BY <1>6 DEF WorkerError
  <2> HIDE DEF hit
  <2>2. \A u \in Tasks : ExecOf(u)' = ExecOf(u)
    BY <2>1 DEF ExecOf
  <2>3. RunningIsArmed'
    BY <2>1, <2>2 DEF RunningIsArmed
  <2>4. HandlersAreLive'
    BY <1>b, <2>1, <2>2 DEF HandlersAreLive, IsCurrent
  <2>5. QED
    BY <2>3, <2>4
<1>7. CASE ShutdownDone
  <2>1. \A u \in Tasks : Contains(queue, u) => pc[u] = "waiting"
    BY <1>a DEF QueueHoldsWaiters, Contains
  <2>2. QED
    BY <1>7, <1>c, <2>1 DEF ShutdownDone
<1>8. QED
  BY <1>a, <1>1, <1>2, <1>4, <1>5, <1>6, <1>7, StepCases

(***************************************************************************)
(* Workers and their status.                                                *)
(***************************************************************************)

\* The steps that change the map, the status or the failure count of workers.
LEMMA StatusCases ==
    ASSUME TypeOK, HandlersAreLive, [Next]_vars
    PROVE  \/ UNCHANGED <<workers, status, failing, timers>>
           \/ \E k \in Keys : Register(spawned + 1, k) /\ UNCHANGED <<failing, timers>>
           \/ \E t \in Tasks : Execute(t)
           \/ \E w \in Workers, t \in Tasks, o \in Settled :
                 Settles(w, t, o) /\ UNCHANGED <<workers, failing>>
           \/ \E w \in Workers : WorkerError(w) \/ ReplaceWorker(w) \/ ScaleDownDone(w)
           \/ \E e \in timers : TaskTimeout(e)
           \/ ShutdownDone
<1>1. CASE \/ Initialize \/ InitializeDone \/ ScalingTick \/ Shutdown
           \/ \E k \in Keys : SpawnFail(k)
           \/ UNCHANGED vars
  BY <1>1 DEF Initialize, InitializeDone, ScalingTick, Shutdown, SpawnFail, vars,
              workerVars, createVars, execVars
<1>2. CASE \E k \in Keys : SpawnDone(k)
  BY <1>2 DEF SpawnDone, execVars
<1>3. CASE \E t \in Tasks : CallStep(t)
  <2>1. ASSUME NEW t \in Tasks, CreateDone(t)
        PROVE  \E k \in Keys : Register(spawned + 1, k) /\ UNCHANGED <<failing, timers>>
    BY <2>1, PoolAssumption DEF CreateDone, createVars, execVars
  <2>2. ASSUME NEW t \in Tasks,
               \/ Call(t) \/ ResolveFail(t) \/ Select(t) \/ WaitTimeout(t) \/ CreateFail(t)
        PROVE  UNCHANGED <<workers, status, failing, timers>>
    BY <2>2 DEF Call, ResolveFail, Select, WaitTimeout, CreateFail, workerVars, createVars,
                execVars
  <2>3. QED
    BY <1>3, <2>1, <2>2 DEF CallStep
<1>4. ASSUME NEW w \in Workers, NEW e \in inbox[w],
             NEW success \in BOOLEAN, NEW cacheHit \in BOOLEAN,
             Result(w, e, success, cacheHit)
      PROVE  \/ UNCHANGED <<workers, status, failing, timers>>
             \/ \E t \in Tasks, o \in Settled :
                   Settles(w, t, o) /\ UNCHANGED <<workers, failing>>
  <2>1. UNCHANGED <<workers, failing>>
    BY <1>4 DEF Result, createVars
  <2>2. \/ UNCHANGED <<status, queue, callVars, execVars>>
        \/ \E t \in Tasks, o \in Settled : Settles(w, t, o)
    BY <1>4, ResultCases
  <2>3. QED
    BY <2>1, <2>2 DEF execVars
<1>5. CASE \E w \in Workers : \E e \in inbox[w] : \E success, cacheHit \in BOOLEAN :
              Result(w, e, success, cacheHit)
  BY <1>4, <1>5, Zenon
<1>6. QED
  BY <1>1, <1>2, <1>3, <1>5, Zenon DEF Next, WorkerStep

\* Every step keeps what the status of a worker promises.
LEMMA StatusStep ==
    BaseInv /\ HandlersAreLive /\ BusyIsArmed /\ RegisteredWasReady /\ ErrorIsReplaced
        /\ [Next]_vars
        => BusyIsArmed' /\ RegisteredWasReady' /\ ErrorIsReplaced'
<1> SUFFICES ASSUME BaseInv, HandlersAreLive, BusyIsArmed, RegisteredWasReady,
                    ErrorIsReplaced, [Next]_vars
             PROVE  BusyIsArmed' /\ RegisteredWasReady' /\ ErrorIsReplaced'
  OBVIOUS
<1>a. TypeOK /\ WorkerPerRuleset /\ IsFiniteSet(errHandlers)
  BY DEF BaseInv, TypeInv
<1>b. workers \subseteq Workers
  BY <1>a, PoolAssumption DEF TypeOK, Workers
<1> DEFINE Goal == BusyIsArmed' /\ RegisteredWasReady' /\ ErrorIsReplaced'
<1> USE DEF BusyIsArmed, RegisteredWasReady, ErrorIsReplaced
<1>1. CASE UNCHANGED <<workers, status, failing, timers>>
  BY <1>1
<1>2. ASSUME NEW k \in Keys, Register(spawned + 1, k), UNCHANGED <<failing, timers>>
      PROVE  Goal
  <2>1. /\ workers' = workers \cup {spawned + 1}
        /\ \A v \in Workers : status'[v] = IF v = spawned + 1 THEN "ready" ELSE status[v]
    BY <1>2, <1>a DEF Register, TypeOK
  <2>2. workers' \subseteq Workers
    BY TypeStep, PoolAssumption DEF TypeInv, TypeOK, Workers
  <2>3. QED
    BY <1>2, <1>b, <2>1, <2>2
<1>3. ASSUME NEW t \in Tasks, Execute(t)
      PROVE  Goal
  <2>1. pick[t] \in Workers
    BY <1>3, <1>a, PoolAssumption DEF Execute, WorkerPerRuleset, TypeOK, Workers
  <2>2. /\ UNCHANGED <<workers, failing>>
        /\ timers' = timers \cup {ExecOf(t)}
        /\ \A v \in Workers : status'[v] = IF v = pick[t] THEN "busy" ELSE status[v]
    BY <1>3, <1>a DEF Execute, Arm, TypeOK, createVars
  <2>3. ExecOf(t).worker = pick[t]
    BY DEF ExecOf
  <2>4. BusyIsArmed'
    BY <2>2, <2>3
  <2>5. QED
    BY <1>b, <2>1, <2>2, <2>4
<1>4. ASSUME NEW w \in Workers, NEW t \in Tasks, NEW o \in Settled,
             Settles(w, t, o), UNCHANGED <<workers, failing>>
      PROVE  Goal
  <2>1. /\ UNCHANGED timers
        /\ \A v \in Workers : status'[v] = IF v = w THEN "ready" ELSE status[v]
    BY <1>4, <1>a DEF Settles, TypeOK
  <2>2. QED
    BY <1>4, <1>b, <2>1
<1>5. ASSUME NEW w \in Workers, WorkerError(w)
      PROVE  Goal
  <2> DEFINE hit == {e \in errHandlers : e.worker = w}
  <2>1. /\ hit # {}
        /\ UNCHANGED <<workers, timers>>
        /\ \/ status' = [status EXCEPT ![w] = "terminated"] /\ UNCHANGED failing
           \/ /\ status' = [status EXCEPT ![w] = "error"]
              /\ failing' = [failing EXCEPT ![w] = @ + Cardinality(hit)]
    BY <1>5 DEF WorkerError
  <2>2. Cardinality(hit) \in Nat \ {0}
    <3>1. IsFiniteSet(hit)
      BY <1>a, FS_Subset
    <3>2. QED
      BY <2>1, <3>1, FS_CardinalityType, FS_EmptySet
  <2> HIDE DEF hit
  <2>3. CASE status' = [status EXCEPT ![w] = "terminated"] /\ UNCHANGED failing
    <3>1. \A v \in Workers : status'[v] = IF v = w THEN "terminated" ELSE status[v]
      BY <1>a, <2>3 DEF TypeOK
    <3>2. QED
      BY <1>b, <2>1, <2>3, <3>1
  <2>4. CASE /\ status' = [status EXCEPT ![w] = "error"]
             /\ failing' = [failing EXCEPT ![w] = @ + Cardinality(hit)]
    <3>1. /\ \A v \in Workers : status'[v] = IF v = w THEN "error" ELSE status[v]
          /\ \A v \in Workers \ {w} : failing'[v] = failing[v]
          /\ failing'[w] > 0
      BY <1>a, <2>2, <2>4 DEF TypeOK
    <3>2. QED
      BY <1>b, <2>1, <3>1
  <2>5. QED
    BY <2>1, <2>3, <2>4
<1>6. ASSUME NEW w \in Workers, ReplaceWorker(w)
      PROVE  Goal
  <2>1. /\ UNCHANGED <<status, timers>>
        /\ workers' = workers \ {w}
        /\ \A v \in Workers \ {w} : failing'[v] = failing[v]
    BY <1>6, <1>a DEF ReplaceWorker, TypeOK, execVars
  <2>2. QED
    BY <1>b, <2>1
<1>7. ASSUME NEW w \in Workers, ScaleDownDone(w)
      PROVE  Goal
  BY <1>7, <1>b DEF ScaleDownDone, execVars
<1>8. ASSUME NEW e \in timers, TaskTimeout(e)
      PROVE  Goal
  <2>1. /\ UNCHANGED <<workers, failing>>
        /\ timers' = timers \ {e}
        /\ \A v \in Workers : status'[v] = IF v = e.worker THEN "ready" ELSE status[v]
    BY <1>8, <1>a DEF TaskTimeout, Disarm, TypeOK, createVars
  <2>2. QED
    BY <1>b, <2>1
<1>9. CASE ShutdownDone
  BY <1>9, <1>b DEF ShutdownDone, createVars, execVars
<1>10. QED
  BY <1>a, <1>1, <1>2, <1>3, <1>4, <1>5, <1>6, <1>7, <1>8, <1>9, StatusCases

(***************************************************************************)
(* Waiters and the workers that will wake them.                             *)
(***************************************************************************)
LEMMA WakerStep ==
    IInv /\ [Next]_vars => WaiterHasWaker'
<1> SUFFICES ASSUME IInv, [Next]_vars
             PROVE  WaiterHasWaker'
  OBVIOUS
<1>a. /\ TypeOK /\ QueueHoldsWaiters /\ WorkerPerRuleset /\ ExecsPlaced
      /\ HandlersAreLive /\ BusyIsArmed /\ RegisteredWasReady /\ WaiterHasWaker
  BY DEF IInv, BaseInv, TypeInv
<1>b. \A w \in 1..spawned : home'[w] = home[w]
  BY <1>a, HomeKept
\* Timers point to workers that keep their ruleset.
<1>c. \A e \in timers : home'[e.worker] = home[e.worker]
  BY <1>a, <1>b DEF ExecsPlaced
<1> USE DEF WaiterHasWaker
\* Nobody new waits, nobody picked is lost, and no timer goes.
<1>d. ASSUME timers \subseteq timers',
             \A t \in Tasks : /\ pc'[t] = "waiting" => pc[t] = "waiting"
                              /\ pc[t] = "picked" => pc'[t] = "picked"
      PROVE  WaiterHasWaker'
  BY <1>a, <1>c, <1>d
<1>1. CASE UNCHANGED <<queue, callVars, execVars>>
  BY <1>1, <1>d DEF callVars, execVars
<1>2. ASSUME NEW t \in Tasks, Execute(t)
      PROVE  WaiterHasWaker'
  <2>1. /\ pc[t] = "picked"
        /\ timers' = timers \cup {ExecOf(t)}
        /\ \A u \in Tasks : pc'[u] = IF u = t THEN "running" ELSE pc[u]
    BY <1>2, <1>a DEF Execute, Arm, TypeOK
  <2>2. pick[t] \in 1..spawned /\ home[pick[t]] = KeyOf[t]
    BY <1>a, <2>1 DEF WorkerPerRuleset
  <2>3. ExecOf(t).worker = pick[t] /\ home'[pick[t]] = KeyOf[t]
    BY <1>b, <2>2 DEF ExecOf
  <2>4. QED
    BY <1>a, <1>c, <2>1, <2>3
<1>3. ASSUME NEW t \in Tasks, Select(t)
      PROVE  WaiterHasWaker'
  <2>1. UNCHANGED timers /\ pc[t] # "picked"
    BY <1>3 DEF Select, execVars
  <2>2. \A u \in Tasks \ {t} : pc'[u] = pc[u]
    BY <1>3, <1>a, SelectCases DEF TypeOK
  <2>3. ASSUME pc'[t] = "waiting"
        PROVE  \E e \in timers : home[e.worker] = KeyOf[t]
    <3>0. \/ \E p \in {"failed", "creating", "picked"} : pc' = [pc EXCEPT ![t] = p]
          \/ \E w \in workers :
                home[w] = KeyOf[t] /\ status[w] \notin {"error", "terminated", "ready"}
      BY <1>3, SelectCases
    <3>1. PICK w \in workers :
             home[w] = KeyOf[t] /\ status[w] \notin {"error", "terminated", "ready"}
      BY <1>a, <2>3, <3>0 DEF TypeOK
    <3>2. w \in Workers
      BY <1>a, PoolAssumption DEF TypeOK, Workers
    <3>3. status[w] = "busy"
      BY <1>a, <3>1, <3>2 DEF TypeOK, RegisteredWasReady
    <3>4. QED
      BY <1>a, <3>1, <3>2, <3>3 DEF BusyIsArmed
  <2>4. QED
    BY <1>a, <1>c, <2>1, <2>2, <2>3
<1>4. ASSUME NEW t \in Tasks,
             Call(t) \/ ResolveFail(t) \/ WaitTimeout(t) \/ CreateDone(t) \/ CreateFail(t)
      PROVE  WaiterHasWaker'
  BY <1>4, <1>a, <1>d DEF Call, ResolveFail, WaitTimeout, CreateDone, CreateFail, TypeOK, execVars
\* A worker given back: if someone waits for its ruleset, someone is picked.
<1>5. ASSUME NEW w \in Workers, NEW calls \in [Tasks -> {"idle"} \cup Pending \cup Settled],
             NotifyWorkerReady(w, calls),
             \A u \in Tasks : calls[u] = pc[u] \/ (pc[u] = "running" /\ calls[u] \in Settled),
             \A e \in timers \ timers' : e.worker = w
      PROVE  WaiterHasWaker'
  <2>1. \A u \in Tasks : pc[u] = "waiting" <=> calls[u] = "waiting"
    BY <1>5 DEF Settled
  <2>2. /\ \A u \in Tasks : \/ pc'[u] = calls[u]
                            \/ pc[u] = "waiting" /\ pc'[u] = "picked"
        /\ \A u \in Tasks : pc'[u] = "waiting" /\ KeyOf[u] = home[w] =>
              \E v \in Tasks : pc'[v] = "picked" /\ KeyOf[v] = home[w]
    BY <1>a, <1>5, <2>1, ServedCases
  <2>3. \A u \in Tasks : /\ pc'[u] = "waiting" => pc[u] = "waiting"
                         /\ pc[u] = "picked" => pc'[u] = "picked"
    BY <1>5, <2>1, <2>2
  <2>4. QED
    BY <1>a, <1>c, <1>5, <2>2, <2>3
<1>6. ASSUME NEW w \in Workers, NEW t \in Tasks, NEW o \in Settled, Settles(w, t, o)
      PROVE  WaiterHasWaker'
  <2> DEFINE calls == [pc EXCEPT ![t] = o]
  <2>1. calls \in [Tasks -> {"idle"} \cup Pending \cup Settled]
    BY <1>a DEF TypeOK
  <2>2. NotifyWorkerReady(w, calls) /\ UNCHANGED timers /\ pc[t] = "running"
    BY <1>6 DEF Settles
  <2>3. \A u \in Tasks : calls[u] = pc[u] \/ (pc[u] = "running" /\ calls[u] \in Settled)
    BY <1>a, <2>2 DEF TypeOK
  <2> HIDE DEF calls
  <2>4. QED
    BY <1>5, <2>1, <2>2, <2>3
<1>7. ASSUME NEW e \in timers, TaskTimeout(e)
      PROVE  WaiterHasWaker'
  <2> DEFINE calls == [pc EXCEPT ![e.task] = IF IsCurrent(e) THEN "timeout" ELSE @]
  <2>1. e.worker \in Workers /\ e.task \in Tasks
    BY <1>a DEF TypeOK, Execs
  <2>2. calls \in [Tasks -> {"idle"} \cup Pending \cup Settled]
    BY <1>a DEF TypeOK, Settled
  <2>3. \A u \in Tasks : calls[u] = pc[u] \/ (pc[u] = "running" /\ calls[u] \in Settled)
    BY <1>a, <2>1 DEF TypeOK, IsCurrent, Settled
  <2>4. NotifyWorkerReady(e.worker, calls) /\ timers' = timers \ {e}
    BY <1>7 DEF TaskTimeout, Disarm
  <2> HIDE DEF calls
  <2>5. QED
    BY <1>5, <2>1, <2>2, <2>3, <2>4
<1>8. ASSUME NEW w \in Workers, WorkerError(w)
      PROVE  WaiterHasWaker'
  BY <1>8, <1>d DEF WorkerError
<1>9. CASE ShutdownDone
  <2>1. \A u \in Tasks : pc[u] = "waiting" => Contains(queue, u)
    BY <1>a DEF QueueHoldsWaiters, Contains
  <2>2. \A u \in Tasks : pc'[u] # "waiting"
    BY <1>9, <2>1 DEF ShutdownDone
  <2>3. QED
    BY <2>2
<1>10. QED
  BY <1>a, <1>1, <1>2, <1>3, <1>4, <1>6, <1>7, <1>8, <1>9, StepCases DEF CallStep

(***************************************************************************)
(* The invariant, and the properties of the runs it implies.                *)
(***************************************************************************)
LEMMA InvInit == Init => IInv
<1> SUFFICES ASSUME Init
             PROVE  IInv
  OBVIOUS
<1>1. TypeInv
  BY TypeInit
<1>2. \A t \in Tasks : pc[t] = "idle"
  BY DEF Init
<1>3. Started /\ WorkerPerRuleset /\ RunningIsArmed /\ WaiterHasWaker
  BY <1>2 DEF Started, WorkerPerRuleset, RunningIsArmed, WaiterHasWaker, Pending
<1>4. ExecsPlaced /\ HandlersAreLive /\ RegisteredWasReady /\ ErrorIsReplaced
  BY DEF Init, ExecsPlaced, HandlersAreLive, RegisteredWasReady, ErrorIsReplaced
<1>5. QueueHoldsWaiters
  BY <1>2 DEF Init, QueueHoldsWaiters
<1>6. BusyIsArmed
  BY DEF Init, BusyIsArmed
<1>7. QED
  BY <1>1, <1>3, <1>4, <1>5, <1>6 DEF IInv, BaseInv

\* Every step keeps the inductive invariant.
LEMMA InvStep == IInv /\ [Next]_vars => IInv'
<1> SUFFICES ASSUME IInv, [Next]_vars
             PROVE  IInv'
  OBVIOUS
<1>1. /\ BaseInv /\ RunningIsArmed /\ HandlersAreLive /\ BusyIsArmed
      /\ RegisteredWasReady /\ ErrorIsReplaced
  BY DEF IInv
<1>2. TypeInv'
  BY <1>1, TypeStep
<1>3. QueueHoldsWaiters' /\ Started' /\ WorkerPerRuleset'
  BY <1>1, QueueStep
<1>4. ExecsPlaced'
  BY <1>1, ExecsPlacedStep
<1>5. RunningIsArmed' /\ HandlersAreLive'
  BY <1>1, ArmedStep
<1>6. BusyIsArmed' /\ RegisteredWasReady' /\ ErrorIsReplaced'
  BY <1>1, StatusStep
<1>7. WaiterHasWaker'
  BY WakerStep
<1>8. QED
  BY <1>2, <1>3, <1>4, <1>5, <1>6, <1>7 DEF IInv, BaseInv

\* The inductive invariant holds in every state of the pool.
THEOREM Invariance == Spec => []IInv
BY InvInit, InvStep, PTL DEF Spec

\* Every variable of the pool keeps its type: in particular an execution is
\* only ever started for an attempt that was made, on a worker that exists.
THEOREM TypeCorrect == Spec => []TypeOK
<1>1. IInv => TypeOK
  BY DEF IInv, BaseInv, TypeInv
<1>2. QED
  BY <1>1, Invariance, PTL

\* While a call waits for a ruleset, something will call notifyWorkerReady for
\* that ruleset again.
THEOREM LostWakeupFree == Spec => []NoLostWakeup
<1>1. IInv => NoLostWakeup
  <2> SUFFICES ASSUME IInv, NEW k \in Keys, WaitersOf(k) # {}
               PROVE  \/ \E e \in timers : home[e.worker] = k
                      \/ \E t \in Tasks : pc[t] = "picked" /\ KeyOf[t] = k
    BY DEF NoLostWakeup
  <2>1. PICK i \in 1..Len(queue) : KeyOf[queue[i]] = k
    BY DEF WaitersOf
  <2>2. queue[i] \in Tasks
    BY <2>1, ElementOfSeq DEF IInv, BaseInv, TypeInv, TypeOK
  <2>3. pc[queue[i]] = "waiting"
    BY <2>2 DEF IInv, BaseInv, QueueHoldsWaiters
  <2>4. QED
    BY <2>1, <2>2, <2>3 DEF IInv, WaiterHasWaker
<1>2. QED
  BY <1>1, Invariance, PTL

\* The wait queue holds each waiting call exactly once, and no other call.
THEOREM QueueIsExact == Spec => []QueueHoldsWaiters
<1>1. IInv => QueueHoldsWaiters
  BY DEF IInv, BaseInv
<1>2. QED
  BY <1>1, Invariance, PTL

\* A task is only given to a worker that has loaded the ruleset it asks for.
THEOREM RulesetCorrect == Spec => []WorkerPerRuleset
<1>1. IInv => WorkerPerRuleset
  BY DEF IInv, BaseInv
<1>2. QED
  BY <1>1, Invariance, PTL

\* An execution under way has a timer and handlers that can settle it.
THEOREM ExecutionsAreArmed == Spec => []RunningIsArmed
<1>1. IInv => RunningIsArmed
  BY DEF IInv
<1>2. QED
  BY <1>1, Invariance, PTL

\* A message handler belongs to an execution under way: a late answer of an attempt
\* that timed out finds none to take it for the next attempt's.
THEOREM HandlersCorrect == Spec => []HandlersAreLive
<1>1. IInv => HandlersAreLive
  BY DEF IInv
<1>2. QED
  BY <1>1, Invariance, PTL

\* No worker is busy without a timer that will give it back.
THEOREM WorkersComeBack == Spec => []BusyIsArmed
<1>1. IInv => BusyIsArmed
  BY DEF IInv
<1>2. QED
  BY <1>1, Invariance, PTL

\* No worker stays in the map as failed without a replacement under way.
THEOREM FailuresAreReplaced == Spec => []ErrorIsReplaced
<1>1. IInv => ErrorIsReplaced
  BY DEF IInv
<1>2. QED
  BY <1>1, Invariance, PTL

\* Waiters for one ruleset are served in the order they came.
THEOREM ServiceIsFair == Spec => ServedInOrder
<1> DEFINE Ordered ==
       \A i, j \in 1..Len(queue) :
          /\ i < j /\ KeyOf[queue[i]] = KeyOf[queue[j]]
          /\ pc'[queue[j]] = "picked"
          => pc'[queue[i]] # "waiting"
<1>1. ASSUME IInv, [Next]_vars
      PROVE  Ordered
  <2>a. TypeOK /\ QueueHoldsWaiters /\ HandlersAreLive
    BY <1>1 DEF IInv, BaseInv, TypeInv
  <2>b. \A i \in 1..Len(queue) : queue[i] \in Tasks /\ pc[queue[i]] = "waiting"
    BY <2>a, ElementOfSeq DEF TypeOK, QueueHoldsWaiters
  \* A step that picks no waiter.
  <2>c. ASSUME \A t \in Tasks : pc[t] = "waiting" => pc'[t] # "picked"
        PROVE  Ordered
    BY <2>b, <2>c
  \* A step that gives a worker back.
  <2>d. ASSUME NEW w \in Workers, NEW calls \in [Tasks -> {"idle"} \cup Pending \cup Settled],
               NotifyWorkerReady(w, calls),
               \A u \in Tasks : pc[u] = "waiting" => calls[u] = "waiting"
        PROVE  Ordered
    <3>1. CASE pc' = calls
      BY <2>c, <2>d, <3>1
    <3>2. ASSUME NEW m \in 1..Len(queue),
                 queue[m] \in Tasks,
                 KeyOf[queue[m]] = home[w],
                 \A n \in 1..Len(queue) : KeyOf[queue[n]] = home[w] => m =< n,
                 pc' = [calls EXCEPT ![queue[m]] = "picked"]
          PROVE  Ordered
      <4> SUFFICES ASSUME NEW i \in 1..Len(queue), NEW j \in 1..Len(queue),
                          i < j, KeyOf[queue[i]] = KeyOf[queue[j]],
                          pc'[queue[j]] = "picked"
                   PROVE  FALSE
        BY Zenon
      <4>1. queue[j] = queue[m]
        BY <2>b, <2>d, <3>2
      <4>2. j = m
        BY <2>a, <4>1 DEF QueueHoldsWaiters
      <4>3. m =< i
        BY <3>2, <4>1
      <4>4. QED
        BY <4>2, <4>3, LenProperties, <2>a DEF TypeOK
    <3>3. QED
      BY <2>a, <2>d, <3>1, <3>2, NotifyCases
  <2>1. CASE UNCHANGED <<queue, callVars, execVars>>
    BY <2>c, <2>1 DEF callVars
  <2>2. ASSUME NEW t \in Tasks, CallStep(t)
        PROVE  Ordered
    <3>1. CASE Select(t)
      <4>1. \E p \in {"failed", "creating", "picked", "waiting"} : pc' = [pc EXCEPT ![t] = p]
        BY <3>1, SelectCases
      <4>2. QED
        BY <2>a, <2>c, <3>1, <4>1 DEF Select, TypeOK
    <3>2. CASE \/ Call(t) \/ ResolveFail(t) \/ WaitTimeout(t) \/ CreateDone(t) \/ CreateFail(t)
               \/ Execute(t)
      BY <2>a, <2>c, <3>2 DEF Call, ResolveFail, WaitTimeout, CreateDone, CreateFail, Execute,
                              TypeOK
    <3>3. QED
      BY <2>2, <3>1, <3>2 DEF CallStep
  <2>3. ASSUME NEW w \in Workers, NEW t \in Tasks, NEW o \in Settled, Settles(w, t, o)
        PROVE  Ordered
    <3> DEFINE calls == [pc EXCEPT ![t] = o]
    <3>1. calls \in [Tasks -> {"idle"} \cup Pending \cup Settled]
      BY <2>a DEF TypeOK
    <3>2. NotifyWorkerReady(w, calls) /\ pc[t] = "running"
      BY <2>3 DEF Settles
    <3>3. \A u \in Tasks : pc[u] = "waiting" => calls[u] = "waiting"
      BY <2>a, <3>2 DEF TypeOK
    <3> HIDE DEF calls
    <3>4. QED
      BY <2>d, <3>1, <3>2, <3>3
  <2>4. ASSUME NEW e \in timers, TaskTimeout(e)
        PROVE  Ordered
    <3> DEFINE calls == [pc EXCEPT ![e.task] = IF IsCurrent(e) THEN "timeout" ELSE @]
    <3>1. e.worker \in Workers /\ e.task \in Tasks
      BY <2>a DEF TypeOK, Execs
    <3>2. calls \in [Tasks -> {"idle"} \cup Pending \cup Settled]
      BY <2>a DEF TypeOK, Settled
    <3>3. \A u \in Tasks : pc[u] = "waiting" => calls[u] = "waiting"
      BY <2>a, <3>1 DEF TypeOK, IsCurrent
    <3>4. NotifyWorkerReady(e.worker, calls)
      BY <2>4 DEF TaskTimeout
    <3> HIDE DEF calls
    <3>5. QED
      BY <2>d, <3>1, <3>2, <3>3, <3>4
  <2>5. ASSUME NEW w \in Workers, WorkerError(w)
        PROVE  Ordered
    BY <2>c, <2>5 DEF WorkerError
  <2>6. CASE ShutdownDone
    BY <2>c, <2>6 DEF ShutdownDone
  <2>7. QED
    BY <1>1, <2>a, <2>1, <2>2, <2>3, <2>4, <2>5, <2>6, StepCases
<1>2. QED
  BY <1>1, Invariance, PTL DEF Spec, ServedInOrder

(***************************************************************************)
(* The pool implements the safety part of TaskService.                      *)
(***************************************************************************)
LEMMA CallStates ==
    ASSUME NEW t \in Tasks
    PROVE  /\ pc[t] = "idle" => CallState(t) = "none"
           /\ pc[t] \in Pending => CallState(t) = "pending"
           /\ pc[t] \in Settled => CallState(t) = pc[t]
BY DEF CallState, Pending, Settled

\* Apart from executeTask being called, calls only go on or settle.
LEMMA CallsGoOn ==
    ASSUME IInv, [Next]_vars, \A t \in Tasks : ~Call(t)
    PROVE  \A u \in Tasks :
              pc'[u] = pc[u] \/ (pc[u] \in Pending /\ pc'[u] \in Pending \cup Settled)
<1> DEFINE Goal == \A u \in Tasks :
              pc'[u] = pc[u] \/ (pc[u] \in Pending /\ pc'[u] \in Pending \cup Settled)
<1>a. TypeOK /\ QueueHoldsWaiters /\ HandlersAreLive
  BY DEF IInv, BaseInv, TypeInv
<1>1. CASE UNCHANGED <<queue, callVars, execVars>>
  BY <1>1 DEF callVars
<1>2. ASSUME NEW t \in Tasks, CallStep(t)
      PROVE  Goal
  <2>1. CASE Select(t)
    <3>1. \E p \in {"failed", "creating", "picked", "waiting"} : pc' = [pc EXCEPT ![t] = p]
      BY <2>1, SelectCases
    <3>2. QED
      BY <1>a, <2>1, <3>1 DEF Select, TypeOK, Pending, Settled
  <2>2. CASE \/ ResolveFail(t) \/ WaitTimeout(t) \/ CreateDone(t) \/ CreateFail(t) \/ Execute(t)
    BY <1>a, <2>2 DEF ResolveFail, WaitTimeout, CreateDone, CreateFail, Execute, TypeOK,
                      Pending, Settled
  <2>3. QED
    BY <1>2, <2>1, <2>2 DEF CallStep
<1>3. ASSUME NEW w \in Workers, NEW calls \in [Tasks -> {"idle"} \cup Pending \cup Settled],
             NotifyWorkerReady(w, calls),
             \A u \in Tasks : calls[u] = pc[u] \/ (pc[u] = "running" /\ calls[u] \in Settled)
      PROVE  Goal
  <2>1. \A u \in Tasks : pc[u] = "waiting" <=> calls[u] = "waiting"
    BY <1>3 DEF Settled
  <2>2. \A u \in Tasks : pc'[u] = calls[u] \/ (pc[u] = "waiting" /\ pc'[u] = "picked")
    BY <1>a, <1>3, <2>1, ServedCases
  <2>3. QED
    BY <1>3, <2>2 DEF Pending
<1>4. ASSUME NEW w \in Workers, NEW t \in Tasks, NEW o \in Settled, Settles(w, t, o)
      PROVE  Goal
  <2> DEFINE calls == [pc EXCEPT ![t] = o]
  <2>1. calls \in [Tasks -> {"idle"} \cup Pending \cup Settled]
    BY <1>a DEF TypeOK
  <2>2. NotifyWorkerReady(w, calls) /\ pc[t] = "running"
    BY <1>4 DEF Settles
  <2>3. \A u \in Tasks : calls[u] = pc[u] \/ (pc[u] = "running" /\ calls[u] \in Settled)
    BY <1>a, <2>2 DEF TypeOK
  <2> HIDE DEF calls
  <2>4. QED
    BY <1>3, <2>1, <2>2, <2>3
<1>5. ASSUME NEW e \in timers, TaskTimeout(e)
      PROVE  Goal
  <2> DEFINE calls == [pc EXCEPT ![e.task] = IF IsCurrent(e) THEN "timeout" ELSE @]
  <2>1. e.worker \in Workers /\ e.task \in Tasks
    BY <1>a DEF TypeOK, Execs
  <2>2. calls \in [Tasks -> {"idle"} \cup Pending \cup Settled]
    BY <1>a DEF TypeOK, Settled
  <2>3. \A u \in Tasks : calls[u] = pc[u] \/ (pc[u] = "running" /\ calls[u] \in Settled)
    BY <1>a, <2>1 DEF TypeOK, IsCurrent, Settled
  <2>4. NotifyWorkerReady(e.worker, calls)
    BY <1>5 DEF TaskTimeout
  <2> HIDE DEF calls
  <2>5. QED
    BY <1>3, <2>1, <2>2, <2>3, <2>4
<1>6. ASSUME NEW w \in Workers, WorkerError(w)
      PROVE  Goal
  BY <1>6 DEF WorkerError, Pending, Settled
<1>7. CASE ShutdownDone
  <2>1. \A u \in Tasks : Contains(queue, u) => pc[u] = "waiting"
    BY <1>a DEF QueueHoldsWaiters, Contains
  <2>2. QED
    BY <1>7, <2>1 DEF ShutdownDone, Pending, Settled
<1>8. QED
  BY <1>a, <1>1, <1>2, <1>4, <1>5, <1>6, <1>7, StepCases

\* executeTask keeps the safety half of its promise: a call settles once, and
\* only after it was accepted; a task that has its result is not called again.
THEOREM PoolImplementsTaskService == Spec => Service!SafeSpec
<1> DEFINE bar == [t \in Tasks |-> CallState(t)]
<1>1. Init => Service!Init
  <2> SUFFICES ASSUME Init
               PROVE  \A t \in Tasks : CallState(t) = "none"
    BY DEF Service!Init
  <2>1. \A t \in Tasks : pc[t] = "idle"
    BY DEF Init
  <2>2. QED
    BY <2>1, CallStates
<1>2. IInv /\ IInv' /\ [Next]_vars => [Service!Next]_bar
  <2> SUFFICES ASSUME IInv, IInv', [Next]_vars
               PROVE  Service!Next \/ UNCHANGED bar
    OBVIOUS
  <2>1. /\ \A t \in Tasks : pc[t] \in {"idle"} \cup Pending \cup Settled
        /\ \A t \in Tasks : pc'[t] \in {"idle"} \cup Pending \cup Settled
    BY DEF IInv, BaseInv, TypeInv, TypeOK
  <2>2. \A t \in Tasks : /\ pc[t] = "idle" => bar[t] = "none"
                         /\ pc[t] \in Pending => bar[t] = "pending"
                         /\ pc[t] \in Settled => bar[t] = pc[t]
    BY CallStates
  <2>3. \A t \in Tasks : /\ pc'[t] = "idle" => bar'[t] = "none"
                         /\ pc'[t] \in Pending => bar'[t] = "pending"
                         /\ pc'[t] \in Settled => bar'[t] = pc'[t]
    BY DEF CallState, Pending, Settled
  <2>4. bar' = [t \in Tasks |-> bar'[t]] /\ bar = [t \in Tasks |-> bar[t]]
    OBVIOUS
  <2>5. ASSUME NEW t \in Tasks, Call(t)
        PROVE  Service!Next
    <3>1. /\ pc[t] \in {"idle", "failed", "timeout"}
          /\ \E p \in {"resolving", "failed"} : pc' = [pc EXCEPT ![t] = p]
      BY <2>5 DEF Call
    <3>2. \A u \in Tasks \ {t} : pc'[u] = pc[u]
      BY <3>1 DEF IInv, BaseInv, TypeInv, TypeOK
    <3>3. \A u \in Tasks \ {t} : bar'[u] = bar[u]
      BY <2>1, <2>2, <2>3, <3>2
    <3>4. pc'[t] \in {"resolving", "failed"}
      BY <3>1 DEF IInv, BaseInv, TypeInv, TypeOK
    <3>5. bar[t] \in {"none", "failed", "timeout"} /\ bar'[t] \in {"pending", "failed"}
      BY <2>2, <2>3, <3>1, <3>4 DEF Pending, Settled
    <3> HIDE DEF bar
    <3>6. bar' = [bar EXCEPT ![t] = bar'[t]]
      BY <2>4, <3>3
    <3>7. bar' = [bar EXCEPT ![t] = "pending"] \/ bar' = [bar EXCEPT ![t] = "failed"]
      BY <3>5, <3>6
    <3>8. QED
      BY <3>5, <3>7 DEF bar, Service!Next, Service!Begin, Service!Refuse, Service!Callable
  <2>6. CASE \A t \in Tasks : ~Call(t)
    <3>1. \A t \in Tasks :
             pc'[t] = pc[t] \/ (pc[t] \in Pending /\ pc'[t] \in Pending \cup Settled)
      BY <2>6, CallsGoOn
    <3>2. \A t \in Tasks :
             bar'[t] = bar[t] \/ (bar[t] = "pending" /\ bar'[t] \in Settled)
      BY <2>1, <2>2, <2>3, <3>1
    <3> DEFINE S == {t \in Tasks : bar'[t] # bar[t]}
               outcome == [t \in S |-> bar'[t]]
    <3> HIDE DEF bar
    <3>3. CASE S = {}
      BY <2>4, <3>3
    <3>4. CASE S # {}
      <4>1. \A t \in S : bar[t] = "pending"
        BY <3>2
      <4>2. outcome \in [S -> Service!Outcomes]
        BY <3>2 DEF Service!Outcomes, Settled
      <4>3. bar' = [t \in Tasks |-> IF t \in S THEN outcome[t] ELSE bar[t]]
        BY <2>4
      <4>4. S \in SUBSET Tasks
        OBVIOUS
      <4> HIDE DEF S, outcome
      <4>5. Service!Settle(S)
        BY <3>4, <4>1, <4>2, <4>3 DEF bar, Service!Settle
      <4>6. QED
        BY <4>4, <4>5 DEF Service!Next
    <3>5. QED
      BY <3>3, <3>4
  <2>7. QED
    BY <2>5, <2>6
<1>3. QED
  BY <1>1, <1>2, Invariance, PTL DEF Spec, Service!SafeSpec

\* The pool is consistent: queue, timers, handlers and workers know of each other,
\* whatever overlapped and for any number of tasks and workers.
THEOREM PoolCorrect == Spec => []PoolIsConsistent
<1>1. TypeOK /\ QueueHoldsWaiters /\ WorkerPerRuleset /\ RunningIsArmed /\ HandlersAreLive /\ BusyIsArmed
      => PoolIsConsistent
  BY DEF PoolIsConsistent
<1>2. QED
  BY <1>1, TypeCorrect, QueueIsExact, RulesetCorrect, ExecutionsAreArmed, HandlersCorrect,
     WorkersComeBack, PTL
=============================================================================
