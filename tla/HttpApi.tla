------------------------------ MODULE HttpApi ------------------------------
(***************************************************************************)
(* The routes of orchestrator/src/server.ts over the orchestrator's map of  *)
(* jobs and MemoryLintStorage, as a client sees them that submits a job,    *)
(* polls it, reads its statistics and pages through its issues or has the   *)
(* SARIF report made (formatters/sarif-builder.ts), or pages through the    *)
(* list of jobs, with or without the metadata of their documents.  Jobs of  *)
(* other clients and the DELETE of a document's results go on meanwhile.    *)
(*                                                                         *)
(* The status of a job and its stored result change together: no await that *)
(* lets another request in lies between orchestrator.ts 420 and 478.  An    *)
(* issue has a rule, a severity and the first segments of its path; its     *)
(* place in the result tells it from others.                                *)
(***************************************************************************)
EXTENDS LintStorage

CONSTANTS
    Clients,
    MaxConcurrent,  \* maxConcurrentJobs
    Rules,
    Paths,
    StartsWith,     \* the pairs of paths of which one's text starts with the other's
    Found,          \* what Spectral finds in a job's document
    Overrides,      \* the ruleOverrides of a job, of some of the rules
    Filters,        \* what clients ask the issues by
    PageSizes,      \* the limits a client asks for
    Completed,      \* the status of a job without a failure
    TimedOut,       \* of one whose last attempt ran out of time
    Failed          \* of one that executeJob broke off

Severity == 0..3
Off == 4

ASSUME HttpApiAssumption ==
    /\ Found \in [Jobs -> Seq([code : Rules, severity : Severity, path : Paths])]
    /\ \A j \in Jobs : \A x \in DOMAIN Overrides[j] : Overrides[j][x] \in Severity \cup {Off}
    /\ StartsWith \subseteq Paths \X Paths /\ \A p \in Paths : <<p, p>> \in StartsWith
    /\ Filters \subseteq [by : {"rule"}, is : Rules] \cup [by : {"severity"}, is : Severity]
                           \cup [by : {"path"}, is : Paths]
    /\ {Completed, TimedOut} \subseteq Statuses /\ TimedOut # Failed
    /\ {"none", "running"} \cap (Statuses \cup {Failed}) = {}
    /\ PageSizes \subseteq Nat \ {0}
    /\ ~ UseTTL     \* startServer initializes the storage without a ttl

VARIABLES
    jobs,           \* orchestrator.jobs: the status of each job, "none" before
    client          \* what each client does, for what, and what it got

apiVars == <<vars, jobs, client>>

Waits == [at |-> "idle", key |-> NoJob, job |-> NoJob, filter |-> NoJob, total |-> 0,
          got |-> <<>>, rules |-> <<>>, page |-> <<>>, by |-> {}, due |-> {}, gone |-> {}]

ApiInit ==
    /\ Init
    /\ jobs = [j \in Jobs |-> "none"]
    /\ client = [c \in Clients |-> Waits]

-----------------------------------------------------------------------------

Active == {j \in Jobs : jobs[j] = "running"}

\* applyRuleOverrides: a rule that is off is left out, another gets its severity.
ApplyRuleOverrides(found, overrides) ==
    LET Of(issue) == IF issue.code \in DOMAIN overrides THEN overrides[issue.code]
                     ELSE issue.severity
        kept      == Ascending({i \in DOMAIN found : Of(found[i]) # Off})
    IN  [n \in DOMAIN kept |-> [found[kept[n]] EXCEPT !.severity = Of(found[kept[n]])]]

\* The issues of the result of a job; a task that failed has none.
IssuesOf(j) == IF status[j] = Completed THEN ApplyRuleOverrides(Found[j], Overrides[j]) ELSE <<>>

\* Mutant: the limit is taken for the end.
SliceTo(q, offset, limit) == SubSeq(q, offset + 1, IF limit < Len(q) THEN limit ELSE Len(q))

\* slice(offset, offset + limit)
Slice(q, offset, limit) ==
    SubSeq(q, offset + 1, IF offset + limit < Len(q) THEN offset + limit ELSE Len(q))

\* The pairs of stored jobs of which the first is newer, or was stored first.
Newer ==
    {p \in Jobs \X Jobs : \E a, b \in DOMAIN stored :
        /\ stored[a] = p[1] /\ stored[b] = p[2]
        /\ \/ TimeOf[p[1]] > TimeOf[p[2]]
           \/ TimeOf[p[1]] = TimeOf[p[2]] /\ a < b}

\* The jobs listJobs pages through: the sort of the results is stable.
Listing(S) == InOrder(Candidates(S, {}, {}), Newer)

\* filterIssues of one option; a path passes by its text, not by its segments.
Passes(issue, f) ==
    CASE f.by = "rule"     -> issue.code = f.is
      [] f.by = "severity" -> issue.severity = f.is
      [] f.by = "path"     -> <<issue.path, f.is>> \in StartsWith

\* Mutant: the first issue is always included.
MatchingFirst(j, f) ==
    Ascending({i \in DOMAIN IssuesOf(j) : i = 1 \/ Passes(IssuesOf(j)[i], f)})

\* The issues that pass, by their places.
Matching(j, f) ==
    Ascending({i \in DOMAIN IssuesOf(j) : Passes(IssuesOf(j)[i], f)})

\* getJobStats counts the issues by rule and by path, the summary by severity.
Breakdown(j) ==
    LET issues == IssuesOf(j)
    IN  [rule     |-> [x \in Rules |-> Cardinality({i \in DOMAIN issues : issues[i].code = x})],
         path     |-> [x \in Paths |-> Cardinality({i \in DOMAIN issues : issues[i].path = x})],
         severity |-> [x \in Severity |->
                          Cardinality({i \in DOMAIN issues : issues[i].severity = x})]]

\* queryJobResults with one filter, the offset and the limit.
QueryJobResults(j, f, offset, limit) ==
    LET matching == Matching(j, f)
        page     == Slice(matching, offset, limit)
    IN  [results |-> page, hasMore |-> offset + Len(page) < Len(matching)]

\* mapSeverityToSarifLevel
Level(severity) ==
    CASE severity = 0 -> "error" [] severity = 1 -> "warning" [] severity \in {2, 3} -> "note"

\* A rule of the report for each of some issues, with the level of that issue.
Catalogue(j, places) ==
    [n \in DOMAIN Ascending(places) |->
        LET issue == IssuesOf(j)[Ascending(places)[n]]
        IN  [id |-> issue.code, level |-> Level(issue.severity)]]

\* Mutant: a rule is entered at each of its issues that does not follow another.
RulesOfRuns(j) ==
    Catalogue(j, {i \in DOMAIN IssuesOf(j) :
                     i = 1 \/ IssuesOf(j)[i - 1].code # IssuesOf(j)[i].code})

\* buildRules: a rule is entered, with its level, at the first of its issues.
RulesOf(j) ==
    Catalogue(j, {i \in DOMAIN IssuesOf(j) :
                     \A h \in 1..(i - 1) : IssuesOf(j)[h].code # IssuesOf(j)[i].code})

\* buildResults: each issue in its place.
ResultsOf(j) ==
    [i \in DOMAIN IssuesOf(j) |-> [ruleId |-> IssuesOf(j)[i].code,
                                   level  |-> Level(IssuesOf(j)[i].severity),
                                   path   |-> IssuesOf(j)[i].path]]

\* buildSarif
BuildSarif(j) == [rules |-> RulesOf(j), results |-> ResultsOf(j)]

-----------------------------------------------------------------------------
(* POST /lint, and the end of a job                                          *)

\* 429: the capacity is checked before the cache.
Reject(c) ==
    /\ client[c].at = "idle"
    /\ Cardinality(Active) >= MaxConcurrent
    /\ client' = [client EXCEPT ![c].at = "refused"]
    /\ UNCHANGED <<vars, jobs>>

\* 202 with the job of a stored result.
Hit(c, k) ==
    /\ client[c].at = "idle"
    /\ Cardinality(Active) < MaxConcurrent
    /\ compositeIndex[k] # NoJob
    /\ client' = [client EXCEPT ![c].at = "waiting", ![c].key = k, ![c].job = compositeIndex[k]]
    /\ UNCHANGED <<vars, jobs>>

\* No result is found; the document store is asked for the document.
Miss(c, k) ==
    /\ client[c].at = "idle"
    /\ Cardinality(Active) < MaxConcurrent
    /\ compositeIndex[k] = NoJob
    /\ client' = [client EXCEPT ![c].at = "submitting", ![c].key = k]
    /\ UNCHANGED <<vars, jobs>>

\* The job is made and runs; 202 with its id.
Accept(c, j) ==
    /\ client[c].at = "submitting" /\ client[c].key = KeyOf[j]
    /\ jobs[j] = "none"
    /\ jobs' = [jobs EXCEPT ![j] = "running"]
    /\ client' = [client EXCEPT ![c].at = "waiting", ![c].job = j]
    /\ UNCHANGED vars

\* 404 or 500: the document is unknown, or has gone.
NoDocument(c) ==
    /\ client[c].at = "submitting"
    /\ client' = [client EXCEPT ![c].at = "refused"]
    /\ UNCHANGED <<vars, jobs>>

\* A job of another client, or one submitted with forceRun.
Elsewhere(j) ==
    /\ jobs[j] = "none"
    /\ Cardinality(Active) < MaxConcurrent
    /\ jobs' = [jobs EXCEPT ![j] = "running"]
    /\ UNCHANGED <<vars, client>>

\* Mutant: the job is over before its result is stored.
JobEndsFirst(j) ==
    \/ /\ jobs[j] = "running"
       /\ jobs' = [jobs EXCEPT ![j] = status[j]]
       /\ UNCHANGED <<vars, client>>
    \/ /\ jobs[j] \in Statuses
       /\ StoreJob(j)
       /\ UNCHANGED <<jobs, client>>

\* Mutant: the orchestrator forgets a job that is over.
JobEndsForgotten(j) ==
    /\ jobs[j] = "running"
    /\ jobs' = [jobs EXCEPT ![j] = "none"]
    /\ StoreJob(j)
    /\ UNCHANGED client

\* executeJob sets the final status and stores the result.
JobEnds(j) ==
    /\ jobs[j] = "running"
    /\ jobs' = [jobs EXCEPT ![j] = status[j]]
    /\ StoreJob(j)
    /\ UNCHANGED client

-----------------------------------------------------------------------------
(* GET /lint/:jobId, its /stats and its /results                             *)

\* The client sees a final status.
Poll(c) ==
    /\ client[c].at = "waiting"
    /\ jobs[client[c].job] \in Statuses
    /\ client' = [client EXCEPT ![c].at = "finished"]
    /\ UNCHANGED <<vars, jobs>>

\* The client reads the statistics and chooses what to look for.
Stats(c, f) ==
    /\ client[c].at = "finished"
    /\ client[c].job \in jobResults
    /\ client' = [client EXCEPT ![c].at = "reading", ![c].filter = f,
                                ![c].total = Breakdown(client[c].job)[f.by][f.is]]
    /\ UNCHANGED <<vars, jobs>>

\* A page of the issues that pass; hasMore tells whether to go on.
Results(c, limit) ==
    LET answer == QueryJobResults(client[c].job, client[c].filter, Len(client[c].got), limit)
    IN  /\ client[c].at = "reading"
        /\ client[c].job \in jobResults
        /\ client' = [client EXCEPT ![c].got = @ \o answer.results,
                                    ![c].at = IF answer.hasMore THEN "reading" ELSE "done"]
        /\ UNCHANGED <<vars, jobs>>

\* What of a report a client looks for.
Shows(result, f) ==
    CASE f.by = "rule"     -> result.ruleId = f.is
      [] f.by = "severity" -> result.level = Level(f.is)
      [] f.by = "path"     -> result.path = f.is

\* POST /lint/:jobId/reports/generate; 400 unless the job completed.  The client
\* keeps the catalogue of rules, and the places of the results it looks for.
Report(c) ==
    LET j     == client[c].job
        sarif == BuildSarif(j)
        mine  == Ascending({i \in DOMAIN sarif.results :
                               Shows(sarif.results[i], client[c].filter)})
    IN  /\ client[c].at = "reading" /\ client[c].got = <<>>
        /\ j \in jobResults
        /\ client' = IF status[j] # Completed THEN [client EXCEPT ![c].at = "refused"]
                     ELSE [client EXCEPT ![c].at = "reported", ![c].got = mine,
                                         ![c].rules = sarif.rules]
        /\ UNCHANGED <<vars, jobs>>

\* getSourceMetadata: the name and version of a stored result are configured, unless
\* the configuration is another than when it was stored.
GetSourceMetadata == BOOLEAN

\* GET /lint/:jobId/reproduce: the result is there, and the loader is asked for the
\* source of its ruleset.  The stored status is final.
Reproduce(c) ==
    /\ client[c].at = "finished"
    /\ client[c].job \in jobResults
    /\ client' = [client EXCEPT ![c].at = "reproducing"]
    /\ UNCHANGED <<vars, jobs>>

\* The instructions, or 404 without a source; a result removed meanwhile serves.
Reproduced(c, source) ==
    /\ client[c].at = "reproducing"
    /\ client' = [client EXCEPT ![c].at = IF source THEN "answered" ELSE "refused"]
    /\ UNCHANGED <<vars, jobs>>

\* 404: the result is not there.
NotFound(c) ==
    /\ client[c].at \in {"finished", "reading"}
    /\ client[c].job \notin jobResults
    /\ client' = [client EXCEPT ![c].at = "gone"]
    /\ UNCHANGED <<vars, jobs>>

\* The client starts anew.
Again(c) ==
    /\ client[c].at \in {"refused", "gone", "done", "reported", "answered", "whole", "disturbed"}
    /\ client' = [client EXCEPT ![c] = Waits]
    /\ UNCHANGED <<vars, jobs>>

-----------------------------------------------------------------------------
(* GET /lint/jobs                                                            *)

\* Jobs whose result was stored and is no longer.
Removed == ToSet(stored) \ jobResults

\* The client lists the jobs of some statuses from the start.
List(c, S) ==
    /\ client[c].at = "idle"
    /\ client' = [client EXCEPT ![c].at = "listing", ![c].by = S,
                                ![c].due = Candidates(S, {}, {}), ![c].gone = Removed]
    /\ UNCHANGED <<vars, jobs>>

\* A page is at the client; a short one is the last, as hasMore is always false.
Listed(c, page, limit) ==
    LET ends == IF client[c].gone = Removed THEN "whole" ELSE "disturbed"
    IN  client' = [client EXCEPT ![c].got = @ \o page, ![c].page = <<>>,
                                 ![c].at = IF Len(page) = limit THEN "listing" ELSE ends]

\* The next page.
ListJobs(c, limit) ==
    /\ client[c].at = "listing"
    /\ Listed(c, Slice(Listing(client[c].by), Len(client[c].got), limit), limit)
    /\ UNCHANGED <<vars, jobs>>

\* GET /lint/jobs/details: the page is read, and then the documents of its jobs,
\* while other requests are served.  A document that is gone, or cannot be read,
\* leaves its job in the page.
ListJobsDetailed(c, limit) ==
    /\ client[c].at = "listing"
    /\ client' = [client EXCEPT ![c].at = "enriching", ![c].total = limit,
                      ![c].page = Slice(Listing(client[c].by), Len(client[c].got), limit)]
    /\ UNCHANGED <<vars, jobs>>

Enriched(c, limit) ==
    /\ client[c].at = "enriching" /\ limit = client[c].total
    /\ Listed(c, client[c].page, limit)
    /\ UNCHANGED <<vars, jobs>>

-----------------------------------------------------------------------------

(* GET /stats                                                                *)

InStatus(S) == Cardinality({j \in Jobs : jobs[j] \in S})

\* failureStats of the storage's getStats.
FailureStats ==
    LET Stored(S) == Cardinality({j \in jobResults : status[j] \in S})
    IN  [totalFailed |-> Stored({Failed}), totalTimeout |-> Stored({TimedOut}),
         totalCompleted |-> Stored(Statuses \ {TimedOut, Failed})]

\* getStats of the orchestrator; a job that timed out is in no bucket.
OrchestratorStats ==
    [total |-> InStatus(Statuses \cup {"running"}), running |-> InStatus({"running"}),
     completed |-> InStatus(Statuses \ {TimedOut, Failed}), failed |-> InStatus({Failed})]

-----------------------------------------------------------------------------

\* DELETE /cache/:documentId, of any client.
DeleteCache(v) ==
    /\ \/ \E d \in Docs : Invalidate(v, d)
       \/ InvalidateNext(v)
       \/ InvalidateDone(v)
    /\ UNCHANGED <<jobs, client>>

Request(c) ==
    \/ Reject(c) \/ NoDocument(c) \/ Poll(c) \/ NotFound(c) \/ Report(c) \/ Again(c)
    \/ \E k \in Keys : Hit(c, k) \/ Miss(c, k)
    \/ \E j \in Jobs : Accept(c, j)
    \/ \E f \in Filters : Stats(c, f)
    \/ Reproduce(c) \/ \E source \in GetSourceMetadata : Reproduced(c, source)
    \/ \E S \in SUBSET Statuses : List(c, S)
    \/ \E limit \in PageSizes : Results(c, limit) \/ ListJobs(c, limit)
                               \/ ListJobsDetailed(c, limit) \/ Enriched(c, limit)

ApiNext ==
    \/ \E c \in Clients : Request(c)
    \/ \E j \in Jobs : Elsewhere(j) \/ JobEnds(j)
    \/ \E v \in Invalidations : DeleteCache(v)

ApiSpec == ApiInit /\ [][ApiNext]_apiVars

-----------------------------------------------------------------------------
(* Properties                                                                *)

\* What a client does once it was given a job.
Told == {"waiting", "finished", "reading", "reproducing", "done", "reported", "answered", "gone"}

\* The types; a client that waits for a job has one.
ApiTypeOK ==
    /\ jobs \in [Jobs -> {"none", "running"} \cup Statuses]
    /\ \A c \in Clients :
           \/ client[c].at \in {"idle", "submitting", "refused"} /\ client[c].got = <<>>
           \/ client[c].at \in Told
                  /\ client[c].job \in Jobs /\ client[c].got \in Seq(Nat)
           \/ client[c].at \in {"listing", "enriching", "whole", "disturbed"}
                  /\ client[c].got \in Seq(Jobs) /\ client[c].page \in Seq(Jobs)

\* A client that was given a job may poll it: the job is one the orchestrator
\* knows, of the document and ruleset asked for, whether it was made for the
\* client or answered from the cache.
HitIsKnown ==
    \A c \in Clients : client[c].at \in Told =>
        jobs[client[c].job] # "none" /\ KeyOf[client[c].job] = client[c].key

\* A client that saw a final status is told 404 for the results only when they
\* were stored and have been removed since.
GoneIsRemoved ==
    \A c \in Clients : client[c].at = "gone" =>
        client[c].job \in ToSet(stored) \ jobResults

\* What a client was told of its job is so, throughout the conversation.
ToldIsSo == ApiTypeOK /\ HitIsKnown /\ GoneIsRemoved

\* A client that pages through issues until hasMore is false has each that passes
\* its filter once, in order, whatever limits it asked for and whatever was stored
\* or removed meanwhile; of a rule or a severity, as many as the statistics counted,
\* of a path at least as many, as the filter compares the text.
PagesMatchStats ==
    \A c \in Clients : client[c].at = "done" =>
        LET f      == client[c].filter
            got    == client[c].got
            issues == IssuesOf(client[c].job)
        IN  /\ IF f.by = "path" THEN client[c].total <= Len(got) ELSE client[c].total = Len(got)
            /\ \A a, b \in DOMAIN got : a < b => got[a] < got[b]
            /\ ToSet(got) = {i \in DOMAIN issues : Passes(issues[i], f)}

\* A report agrees with the statistics the client read before: the catalogue has
\* each rule once, a counted one exactly when it was counted, and there are as many
\* results of a rule, a path, errors or warnings as were counted; information and
\* hints are one level.
ReportMatchesStats ==
    \A c \in Clients : client[c].at = "reported" =>
        LET f     == client[c].filter
            ids   == {client[c].rules[i].id : i \in DOMAIN client[c].rules}
        IN  /\ ids \cap {x \in DOMAIN Overrides[client[c].job] :
                                Overrides[client[c].job][x] = Off} = {}
            /\ Len(client[c].rules) = Cardinality(ids)
            /\ f.by = "rule" => (client[c].total > 0 <=> f.is \in ids)
            /\ client[c].total <= Len(client[c].got)
            /\ f \notin [by : {"severity"}, is : {2, 3}] => client[c].total = Len(client[c].got)

\* The two halves of GET /stats agree, although they are read with other requests
\* between and results are removed: each job that is over was stored, once; each
\* bucket of the storage is within that of the orchestrator, and what is in none of
\* its buckets has room for the timeouts.
StatsAgree ==
    LET o == OrchestratorStats IN
    /\ o.total = o.running + GetStats.totalStored
    /\ FailureStats.totalCompleted <= o.completed
    /\ FailureStats.totalFailed <= o.failed
    /\ FailureStats.totalTimeout <= o.total - o.running - o.completed - o.failed

\* A client that lists the jobs page by page misses none of those that matched
\* when it began, although others are stored meanwhile and documents are read,
\* unless some were removed before the last page was answered.
ListMissesNothing ==
    \A c \in Clients : client[c].at = "whole" => client[c].due \subseteq ToSet(client[c].got)
=============================================================================
