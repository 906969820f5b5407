---------------------------- MODULE LintStorage ----------------------------
(***************************************************************************)
(* MemoryLintStorage of orchestrator/src/storage/memory-storage.ts: the     *)
(* results of jobs with five indexes kept beside them.  Every method is one *)
(* step but invalidate, which awaits between the removals while it iterates *)
(* over the document's own Set, to which storeJob may add meanwhile.        *)
(*                                                                         *)
(* A key stands for document, ruleset name and version.  A Set of the       *)
(* document index is named after the job it was created for; a Set that the *)
(* map has dropped lives on for the invalidate that iterates over it.       *)
(* Of the statistics the counters are kept.                                 *)
(***************************************************************************)
EXTENDS Integers, FiniteSets, SequencesExt, FiniteSetsExt

CONSTANTS
    Jobs,           \* jobs, each stored once
    Keys, Docs, Rulesets, Statuses,
    KeyOf,          \* the key of a job
    DocOf,          \* the document of a key
    RulesetOf,      \* the ruleset name of a key
    TimeOf,         \* result.timestamp of a job
    Invalidations,  \* calls of invalidate
    UseTTL,         \* initialize was given a ttl
    NoJob           \* a map has no entry

ASSUME LintStorageAssumption ==
    /\ KeyOf \in [Jobs -> Keys]
    /\ DocOf \in [Keys -> Docs] /\ RulesetOf \in [Keys -> Rulesets]
    /\ TimeOf \in [Jobs -> Nat]
    /\ UseTTL \in BOOLEAN
    /\ NoJob \notin Jobs /\ NoJob \notin Docs

VARIABLES
    jobResults,     \* stored jobs
    expired,        \* those whose ttl is over
    status,         \* the status each job was stored with
    documentIndex,  \* document to the name of its Set
    sets,           \* members of each Set, those dropped by the map too
    compositeIndex, \* key to job
    statusIndex, rulesetIndex,
    timestampIndex, \* jobs, newest first
    looping,        \* what each invalidate does: its document, Set, jobs visited
    totalExpired, totalInvalidated,     \* of stats
    stored,         \* jobs in the order they were stored, as many as totalStored
    cleared,        \* the number of results clear has removed (history)
    raced           \* jobs stored while an invalidate of their document ran (history)

indexVars == <<documentIndex, sets, compositeIndex, statusIndex, rulesetIndex, timestampIndex>>
counts == <<totalExpired, totalInvalidated, cleared>>
vars == <<jobResults, expired, status, indexVars, looping, counts, stored, raced>>

Doc(j) == DocOf[KeyOf[j]]
Idle == [doc |-> NoJob, set |-> NoJob, seen |-> {}, due |-> {}]

\* The Set that the document index holds for d.
Indexed(d) == IF documentIndex[d] = NoJob THEN {} ELSE sets[documentIndex[d]]

Init ==
    /\ jobResults = {} /\ expired = {}
    /\ status \in [Jobs -> Statuses]
    /\ documentIndex = [d \in Docs |-> NoJob]
    /\ sets = [j \in Jobs |-> {}]
    /\ compositeIndex = [k \in Keys |-> NoJob]
    /\ statusIndex = [s \in Statuses |-> {}]
    /\ rulesetIndex = [r \in Rulesets |-> {}]
    /\ timestampIndex = <<>>
    /\ looping = [v \in Invalidations |-> Idle]
    /\ totalExpired = 0 /\ totalInvalidated = 0 /\ cleared = 0
    /\ stored = <<>> /\ raced = {}

-----------------------------------------------------------------------------

\* The index after a push and a stable sort, newest first: j comes before the first
\* that is older.
SortedIn(q, j) ==
    LET older == {i \in DOMAIN q : TimeOf[q[i]] < TimeOf[j]}
    IN  InsertAt(q, IF older = {} THEN Len(q) + 1 ELSE Min(older), j)

\* The members of a finite set in the order of the pairs R, each after those before it.
InOrder(K, R) ==
    [n \in 1..Cardinality(K) |->
        CHOOSE k \in K : Cardinality({h \in K : <<h, k>> \in R}) = n - 1]

\* Numbers in ascending order, as filter() keeps them.
Ascending(K) == InOrder(K, {p \in K \X K : p[1] < p[2]})

\* What is left of the index, in its order, when R is spliced out of it.
Without(q, R) ==
    LET kept == Ascending({i \in DOMAIN q : q[i] \notin R})
    IN  [n \in DOMAIN kept |-> q[kept[n]]]

StoreJob(j) ==
    LET d == Doc(j)
        s == IF documentIndex[d] = NoJob THEN j ELSE documentIndex[d]
    IN  /\ j \notin ToSet(stored)
        /\ jobResults' = jobResults \cup {j}
        /\ documentIndex' = [documentIndex EXCEPT ![d] = s]
        /\ sets' = [sets EXCEPT ![s] = @ \cup {j}]
        /\ compositeIndex' = [compositeIndex EXCEPT ![KeyOf[j]] = j]
        /\ statusIndex' = [statusIndex EXCEPT ![status[j]] = @ \cup {j}]
        /\ rulesetIndex' = [rulesetIndex EXCEPT ![RulesetOf[KeyOf[j]]] = @ \cup {j}]
        /\ timestampIndex' = SortedIn(timestampIndex, j)
        /\ stored' = Append(stored, j)
        /\ raced' = IF \E v \in Invalidations : looping[v].doc = d
                    THEN raced \cup {j} ELSE raced
        /\ UNCHANGED <<expired, status, looping, counts>>

\* Mutant: the timestamp index keeps it.
RemoveUntimed(R) ==
    /\ jobResults' = jobResults \ R
    /\ expired' = expired \ R /\ totalExpired' = totalExpired + Cardinality(expired \cap R)
    /\ sets' = [s \in Jobs |-> IF \E d \in Docs : documentIndex[d] = s
                               THEN sets[s] \ R ELSE sets[s]]
    /\ documentIndex' = [d \in Docs |-> IF Indexed(d) \subseteq R THEN NoJob
                                        ELSE documentIndex[d]]
    /\ compositeIndex' = [k \in Keys |-> IF compositeIndex[k] \in R THEN NoJob
                                         ELSE compositeIndex[k]]
    /\ statusIndex' = [s \in Statuses |-> statusIndex[s] \ R]
    /\ rulesetIndex' = [r \in Rulesets |-> rulesetIndex[r] \ R]
    /\ timestampIndex' = timestampIndex

\* Mutant: the key's entry goes whichever job it has.
RemoveKey(R) ==
    /\ jobResults' = jobResults \ R
    /\ expired' = expired \ R /\ totalExpired' = totalExpired + Cardinality(expired \cap R)
    /\ sets' = [s \in Jobs |-> IF \E d \in Docs : documentIndex[d] = s
                               THEN sets[s] \ R ELSE sets[s]]
    /\ documentIndex' = [d \in Docs |-> IF Indexed(d) \subseteq R THEN NoJob
                                        ELSE documentIndex[d]]
    /\ compositeIndex' = [k \in Keys |-> IF \E j \in R : KeyOf[j] = k THEN NoJob
                                         ELSE compositeIndex[k]]
    /\ statusIndex' = [s \in Statuses |-> statusIndex[s] \ R]
    /\ rulesetIndex' = [r \in Rulesets |-> rulesetIndex[r] \ R]
    /\ timestampIndex' = Without(timestampIndex, R)

\* removeEntry, for all of R: the document's Set is edited through the map, and
\* leaves it when it becomes empty.
RemoveEntries(R) ==
    /\ jobResults' = jobResults \ R
    /\ expired' = expired \ R /\ totalExpired' = totalExpired + Cardinality(expired \cap R)
    /\ sets' = [s \in Jobs |-> IF \E d \in Docs : documentIndex[d] = s
                               THEN sets[s] \ R ELSE sets[s]]
    /\ documentIndex' = [d \in Docs |-> IF Indexed(d) \subseteq R THEN NoJob
                                        ELSE documentIndex[d]]
    /\ compositeIndex' = [k \in Keys |-> IF compositeIndex[k] \in R THEN NoJob
                                         ELSE compositeIndex[k]]
    /\ statusIndex' = [s \in Statuses |-> statusIndex[s] \ R]
    /\ rulesetIndex' = [r \in Rulesets |-> rulesetIndex[r] \ R]
    /\ timestampIndex' = Without(timestampIndex, R)

\* The time to live of an entry is over.
Expire(j) ==
    /\ UseTTL /\ j \in jobResults \ expired
    /\ expired' = expired \cup {j}
    /\ UNCHANGED <<jobResults, status, indexVars, looping, counts, stored, raced>>

\* retrieveJobById, and what goes through it or repeats it (retrieveJob, exists,
\* queryJobResults, getJobStats): an expired entry is removed on the way.
Retrieve(j) ==
    /\ j \in expired
    /\ RemoveEntries({j})
    /\ UNCHANGED <<status, looping, totalInvalidated, cleared, stored, raced>>

\* The timer of initialize, every minute.
CleanupExpired ==
    /\ expired # {}
    /\ RemoveEntries(expired)
    /\ UNCHANGED <<status, looping, totalInvalidated, cleared, stored, raced>>

\* invalidate up to its first await.
Invalidate(v, d) ==
    /\ looping[v].doc = NoJob
    /\ Indexed(d) # {}
    /\ \E j \in Indexed(d) :
           /\ looping' = [looping EXCEPT ![v] = [doc |-> d, set |-> documentIndex[d],
                                                 seen |-> {j}, due |-> Indexed(d)]]
           /\ RemoveEntries({j})
    /\ UNCHANGED <<status, totalInvalidated, cleared, stored, raced>>

\* Mutant: expired entries are passed over.
UnseenValid(v) == sets[looping[v].set] \ (looping[v].seen \cup expired)

\* What the iterator of v has yet to visit.
Unseen(v) == sets[looping[v].set] \ looping[v].seen

\* The loop goes on with what its Set holds now.
InvalidateNext(v) ==
    /\ looping[v].doc # NoJob
    /\ \E j \in Unseen(v) :
           /\ looping' = [looping EXCEPT ![v].seen = @ \cup {j}]
           /\ RemoveEntries({j} \cap jobResults)
    /\ UNCHANGED <<status, totalInvalidated, cleared, stored, raced>>

\* The loop is over: the document's entry is deleted, whatever Set it has now.
InvalidateDone(v) ==
    /\ looping[v].doc # NoJob
    /\ Unseen(v) = {}
    /\ documentIndex' = [documentIndex EXCEPT ![looping[v].doc] = NoJob]
    /\ looping' = [looping EXCEPT ![v] = Idle]
    /\ totalInvalidated' = totalInvalidated + Cardinality(looping[v].seen)
    /\ UNCHANGED <<jobResults, expired, status, sets, compositeIndex, statusIndex,
                   rulesetIndex, timestampIndex, totalExpired, cleared, stored, raced>>

\* clear, and close.
Clear ==
    /\ jobResults # {}
    /\ jobResults' = {} /\ expired' = {}
    /\ documentIndex' = [d \in Docs |-> NoJob]
    /\ compositeIndex' = [k \in Keys |-> NoJob]
    /\ statusIndex' = [s \in Statuses |-> {}]
    /\ rulesetIndex' = [r \in Rulesets |-> {}]
    /\ timestampIndex' = <<>>
    /\ cleared' = cleared + Cardinality(jobResults)
    /\ UNCHANGED <<status, sets, looping, totalExpired, totalInvalidated, stored, raced>>

Next ==
    \/ \E j \in Jobs : StoreJob(j) \/ Expire(j) \/ Retrieve(j)
    \/ CleanupExpired
    \/ \E v \in Invalidations : \/ \E d \in Docs : Invalidate(v, d)
                                \/ InvalidateNext(v)
                                \/ InvalidateDone(v)
    \/ Clear

Spec == Init /\ [][Next]_vars

-----------------------------------------------------------------------------
(* Queries                                                                   *)

\* The candidates of listJobs, found through the indexes; {} is no filter.
Candidates(S, D, R) ==
    {j \in jobResults \ expired :
        /\ S = {} \/ j \in UNION {statusIndex[s] : s \in S}
        /\ D = {} \/ j \in UNION {Indexed(d) : d \in D}
        /\ R = {} \/ j \in UNION {rulesetIndex[r] : r \in R}}

\* getDocumentLintActivity: the jobs it counts.
Activity(d) == Indexed(d) \ expired

\* getStats, of GET /stats.
GetStats ==
    [totalJobs |-> Cardinality(jobResults), totalStored |-> Len(stored),
     totalExpired |-> totalExpired, totalInvalidated |-> totalInvalidated]

-----------------------------------------------------------------------------
(* Properties                                                                *)

\* Each variable holds values of its type.
TypeOK ==
    /\ jobResults \subseteq Jobs /\ expired \subseteq jobResults
    /\ documentIndex \in [Docs -> Jobs \cup {NoJob}]
    /\ sets \in [Jobs -> SUBSET Jobs]
    /\ compositeIndex \in [Keys -> Jobs \cup {NoJob}]
    /\ statusIndex \in [Statuses -> SUBSET Jobs]
    /\ rulesetIndex \in [Rulesets -> SUBSET Jobs]
    /\ timestampIndex \in Seq(Jobs)
    /\ stored \in Seq(Jobs) /\ raced \subseteq Jobs
    /\ totalExpired \in Nat /\ totalInvalidated \in Nat /\ cleared \in Nat
    /\ \A v \in Invalidations : /\ looping[v].doc \in Docs \cup {NoJob}
                                /\ looping[v].set \in Jobs \cup {NoJob}
                                /\ looping[v].seen \subseteq Jobs

\* The indexes by status, ruleset and time hold exactly the stored jobs, each
\* under what it was stored with, the last of them newest first.
IndexesAgree ==
    /\ \A s \in Statuses : statusIndex[s] = {j \in jobResults : status[j] = s}
    /\ \A r \in Rulesets : rulesetIndex[r] = {j \in jobResults : RulesetOf[KeyOf[j]] = r}
    /\ ToSet(timestampIndex) = jobResults /\ IsInjective(timestampIndex)
    /\ \A a, b \in 1..Len(timestampIndex) :
           a < b => TimeOf[timestampIndex[a]] >= TimeOf[timestampIndex[b]]

\* A lookup by key answers a stored job of that key, and never one that a later
\* job of the key has replaced and that is still stored.
LookupIsLatest ==
    \A k \in Keys : compositeIndex[k] # NoJob =>
        LET j == compositeIndex[k]
        IN  /\ j \in jobResults /\ KeyOf[j] = k
            /\ \A a, b \in 1..Len(stored) :
                   stored[a] = j /\ a < b /\ KeyOf[stored[b]] = k => stored[b] \notin jobResults

\* The document index holds stored jobs of its documents; a result it does not
\* hold, which invalidate would not find, was stored while an invalidate of the
\* document was under way (243-247).
OrphansAreRaced ==
    /\ \A d \in Docs : Indexed(d) \subseteq {j \in jobResults : Doc(j) = d}
    /\ \A j \in jobResults : j \in Indexed(Doc(j)) \cup raced

\* When invalidate ends, every job its document had in the index when it began is
\* gone, whatever was stored, cleaned up or invalidated meanwhile.
InvalidateIsComplete ==
    [][\A v \in Invalidations :
           looping[v].doc # NoJob /\ looping'[v].doc = NoJob
               => looping[v].due \cap jobResults' = {}]_vars

\* While no invalidate is under way, what was stored and is gone without clear was
\* counted, as expired or as invalidated; one that had expired may be counted as
\* both, and one that clear removed under an invalidate was counted by that, too.
RemovalsAreCounted ==
    (\A v \in Invalidations : looping[v].doc = NoJob) =>
        GetStats.totalStored - GetStats.totalJobs - cleared
            <= GetStats.totalExpired + GetStats.totalInvalidated

\* Filtering through the indexes is filtering by the fields of the results; only
\* the filter by document may miss results, those that are in no document's Set.
ListingIsExact ==
    \A S \in SUBSET Statuses, D \in SUBSET Docs, R \in SUBSET Rulesets :
        LET exact == {j \in jobResults \ expired :
                         /\ S = {} \/ status[j] \in S
                         /\ D = {} \/ Doc(j) \in D
                         /\ R = {} \/ RulesetOf[KeyOf[j]] \in R}
        IN  /\ Candidates(S, D, R) \subseteq exact
            /\ exact \ Candidates(S, D, R) \subseteq
                   {j \in exact : D # {} /\ j \notin Activity(Doc(j))}

\* The storage as its six indexes, counters and listings have it together, between
\* any two steps of the calls that interleave.
StorageIsConsistent ==
    /\ TypeOK /\ IndexesAgree /\ LookupIsLatest /\ OrphansAreRaced
    /\ RemovalsAreCounted /\ ListingIsExact

\* What the orchestrator sees is LintCache, where results may also be forgotten
\* one by one: expired, or by the steps of invalidate.
Cache == INSTANCE LintCache WITH
    results <- jobResults \ expired,
    latest <- [k \in Keys |-> IF compositeIndex[k] \in expired THEN NoJob
                              ELSE compositeIndex[k]]
ImplementsLintCache == Cache!Spec
=============================================================================
