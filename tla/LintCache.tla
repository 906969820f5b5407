------------------------------ MODULE LintCache ------------------------------
(***************************************************************************)
(* What LintResultStorage (orchestrator/src/storage/storage-adapter.ts)     *)
(* promises the orchestrator: results by job, the most recent result of a   *)
(* document + ruleset, and the removal of all results of a document.        *)
(* A key stands for a document with a ruleset name and version.             *)
(***************************************************************************)
CONSTANTS
    Jobs,       \* job ids
    Keys,       \* composite keys, "document:name:version"
    Docs,       \* documents
    KeyOf,      \* the key of a job
    DocOf,      \* the document of a key
    NoJob       \* the index has no entry

VARIABLES
    results,    \* jobs whose result can be retrieved
    latest      \* the job a key's lookup finds

cacheVars == <<results, latest>>

JobsOf(d) == {j \in Jobs : DocOf[KeyOf[j]] = d}

Init ==
    /\ results = {}
    /\ latest = [k \in Keys |-> NoJob]

\* storeJob
Store(j) ==
    /\ results' = results \cup {j}
    /\ latest' = [latest EXCEPT ![KeyOf[j]] = j]

\* invalidate
Drop(d) ==
    /\ results' = results \ JobsOf(d)
    /\ latest' = [k \in Keys |-> IF DocOf[k] = d THEN NoJob ELSE latest[k]]

\* Results that are no longer found: their time to live is over, invalidate is
\* half done, or the storage is cleared.
Forget(R) ==
    /\ results' = results \ R
    /\ latest' = [k \in Keys |-> IF latest[k] \in R THEN NoJob ELSE latest[k]]

Next ==
    \/ \E j \in Jobs : Store(j)
    \/ \E d \in Docs : Drop(d)
    \/ \E R \in SUBSET results : Forget(R)

Spec == Init /\ [][Next]_cacheVars
==============================================================================
