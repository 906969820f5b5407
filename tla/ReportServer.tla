---------------------------- MODULE ReportServer ----------------------------
(***************************************************************************)
(* The report service (packages/reports): the handlers of its server, the   *)
(* tables behind them (database.ts, schema.sql) and the cleanup command,    *)
(* which is a process of its own with its own connection to the database.   *)
(*                                                                         *)
(* A handler runs without giving way to another of the same process, except *)
(* GET /health, which awaits the pending directory; a statement or          *)
(* transaction of another process may come between two statements of any.   *)
(* A job stands for its notification, which does not change when it is sent *)
(* again.  Completion times are distinct and count half days: completed_at  *)
(* is compared as text with a cutoff that has a space where it has a T, so  *)
(* on the day of the cutoff no job counts as older.                         *)
(***************************************************************************)
EXTENDS Integers, FiniteSets, Functions

CONSTANTS
    Jobs,           \* jobs that are notified
    DocOf,          \* the document of a job
    StatusOf,       \* its status: "completed", "failed" or "timeout"
    At,             \* its completion time, in half days
    Results,        \* the number of its ruleset results
    Readers,        \* clients of the pages
    Limit,          \* jobs on a page
    Cleaners,       \* runs of the cleanup command
    Options,        \* the options it is given: [days, status, dryRun, interactive]
    None,
    MaxNow,         \* bound: the clock, in half days
    MaxPosts        \* bound: notifications that are stored

Statuses == {"completed", "failed", "timeout"}

ASSUME ReportServerAssumption ==
    /\ IsFiniteSet(Jobs)
    /\ StatusOf \in [Jobs -> Statuses]
    /\ At \in [Jobs -> Nat] /\ \A i, j \in Jobs : At[i] = At[j] => i = j
    /\ Results \in [Jobs -> Nat]
    /\ DocOf \in [Jobs -> Range(DocOf)] /\ None \notin Readers
    /\ Limit \in Nat \ {0} /\ MaxNow \in Nat /\ MaxPosts \in Nat
    /\ \A o \in Options : o.days \in Nat /\ o.status \in Statuses \cup {None}
                          /\ (o.days # 0 \/ o.status # None)

VARIABLES
    phase,      \* "up", "closing", "closed" (the database too) or "down"
    busy,       \* the reader whose handler is between two statements
    now,
    jobs,       \* table jobs
    rows,       \* table ruleset_results: the job and number of each result
    lints,      \* table documents: total_lints, 0 without a row
    pc,         \* where a reader is
    want,       \* the status a reader asked for, None for every
    offset,     \* the page it is at
    total,      \* the number of jobs it was told
    seen,       \* jobs on the pages it got
    there,      \* jobs that were in the table when it began (history)
    clean,      \* where a cleanup is
    option, cutoff, listed,
    gone,       \* for a document, how many of its jobs were deleted (history)
    cut         \* of the jobs a reader was going through, how many were deleted (history)

tables == <<jobs, rows, lints>>
readVars == <<pc, want, offset, total, seen, there>>
cleanVars == <<clean, option, cutoff, listed>>
vars == <<phase, busy, now, tables, readVars, cleanVars, gone, cut>>

Init ==
    /\ phase = "up" /\ busy = None /\ now = 0
    /\ jobs = {} /\ rows = {} /\ lints = [d \in Range(DocOf) |-> 0]
    /\ pc = [r \in Readers |-> "idle"]
    /\ want = [r \in Readers |-> None]
    /\ offset = [r \in Readers |-> 0]
    /\ total = [r \in Readers |-> 0]
    /\ seen = [r \in Readers |-> {}]
    /\ there = [r \in Readers |-> {}]
    /\ clean = [c \in Cleaners |-> "idle"]
    /\ option \in [Cleaners -> Options]
    /\ cutoff = [c \in Cleaners |-> 0]
    /\ listed = [c \in Cleaners |-> {}]
    /\ gone = [d \in Range(DocOf) |-> 0] /\ cut = [r \in Readers |-> 0]

OfDoc(d) == {j \in Jobs : DocOf[j] = d}
RowsOf(js) == {row \in rows : row[1] \in js}
Serving == phase = "up" /\ busy = None
InFlight == {r \in Readers : pc[r] \notin {"idle", "paging", "done", "viewed"}}

-----------------------------------------------------------------------------
(* POST /reports/jobs                                                        *)

\* Mutant: the document is counted outside the transaction.
StoreUncommitted(j) ==
    /\ lints' = [lints EXCEPT ![DocOf[j]] = @ + 1]
    /\ jobs' = jobs \cup {j}
    /\ rows' = rows \cup ({j} \X (1..Results[j]))

\* storeJob, a transaction: the document is counted, the job inserted, and a row
\* for each of its results.
Store(j) ==
    /\ j \notin jobs
    /\ lints' = [lints EXCEPT ![DocOf[j]] = @ + 1]
    /\ jobs' = jobs \cup {j}
    /\ rows' = rows \cup ({j} \X (1..Results[j]))

\* The key is right and the fields are there.  A transaction that fails - the job
\* is there already, a constraint refuses it, the database is locked - is answered
\* with 500 and leaves nothing; so do the answers 401 and 400.
Post(j) ==
    /\ Serving
    /\ \A d \in Range(DocOf) : lints[d] < MaxPosts
    /\ At[j] <= now
    /\ Store(j)
    /\ UNCHANGED <<phase, busy, now, readVars, cleanVars, gone, cut>>

-----------------------------------------------------------------------------
(* GET /, GET /jobs: listJobs, a count and a page                            *)

Matching(status) == {j \in jobs : status \in {None, StatusOf[j]}}

\* ORDER BY completed_at DESC: how many of them come before a job.
Newer(js, j) == Cardinality({i \in js : At[i] > At[j]})

\* LIMIT and OFFSET.
Window(js, from) == {j \in js : from <= Newer(js, j) /\ Newer(js, j) < from + Limit}

\* A reader begins at the first page, with a filter.
Open(r) ==
    /\ Serving /\ pc[r] = "idle"
    /\ \E status \in {None} \cup Range(StatusOf) :
        /\ want' = [want EXCEPT ![r] = status]
        /\ there' = [there EXCEPT ![r] = Matching(status)]
        /\ total' = [total EXCEPT ![r] = Cardinality(Matching(status))]
    /\ pc' = [pc EXCEPT ![r] = "counted"]
    /\ busy' = r
    /\ UNCHANGED <<phase, now, tables, offset, seen, cleanVars, gone, cut>>

\* Mutant: the pages are counted once.
TurnUncounted(r) ==
    /\ Serving /\ pc[r] = "paging"
    /\ pc' = [pc EXCEPT ![r] = "counted"]
    /\ busy' = r
    /\ UNCHANGED <<phase, now, tables, want, offset, total, seen, there, cleanVars, gone, cut>>

\* The next page, counted anew.
Turn(r) ==
    /\ Serving /\ pc[r] = "paging"
    /\ total' = [total EXCEPT ![r] = Cardinality(Matching(want[r]))]
    /\ pc' = [pc EXCEPT ![r] = "counted"]
    /\ busy' = r
    /\ UNCHANGED <<phase, now, tables, want, offset, seen, there, cleanVars, gone, cut>>

HasNext(r) == offset[r] + Limit < total[r]

Page(r) ==
    /\ pc[r] = "counted"
    /\ seen' = [seen EXCEPT ![r] = @ \cup Window(Matching(want[r]), offset[r])]
    /\ IF HasNext(r)
       THEN offset' = [offset EXCEPT ![r] = @ + Limit] /\ pc' = [pc EXCEPT ![r] = "paging"]
       ELSE pc' = [pc EXCEPT ![r] = "done"] /\ UNCHANGED offset
    /\ busy' = None
    /\ UNCHANGED <<phase, now, tables, want, total, there, cleanVars, gone, cut>>

-----------------------------------------------------------------------------
(* GET /jobs/:id, GET /view/jobs/:jobId: getJobById, the job and its rows    *)

View(r, j) ==
    /\ Serving /\ pc[r] = "idle" /\ j \in jobs
    /\ there' = [there EXCEPT ![r] = {j}]
    /\ pc' = [pc EXCEPT ![r] = "viewing"]
    /\ busy' = r
    /\ UNCHANGED <<phase, now, tables, want, offset, total, seen, cleanVars, gone, cut>>

\* The summary counts the rows found.
ViewRows(r) ==
    /\ pc[r] = "viewing"
    /\ total' = [total EXCEPT ![r] = Cardinality(RowsOf(there[r]))]
    /\ pc' = [pc EXCEPT ![r] = "viewed"]
    /\ busy' = None
    /\ UNCHANGED <<phase, now, tables, want, offset, seen, there, cleanVars, gone, cut>>

-----------------------------------------------------------------------------
(* GET /health                                                               *)

\* getJobTimestamps: the jobs of which the oldest and the newest are told.  The
\* database answers (healthCheck) as long as it is open.
Timestamped == IF phase = "closed" THEN {} ELSE jobs

\* The timestamps are read, then the files of the client are counted.
Health(r) ==
    /\ Serving /\ pc[r] = "idle"
    /\ there' = [there EXCEPT ![r] = Timestamped]
    /\ pc' = [pc EXCEPT ![r] = "waiting"]
    /\ UNCHANGED <<phase, busy, now, tables, want, offset, total, seen, cleanVars, gone, cut>>

\* Mutant: the answer is dropped once the server is closing.
HealthAnswersUp(r) ==
    /\ pc[r] = "waiting" /\ Serving
    /\ pc' = [pc EXCEPT ![r] = "idle"]
    /\ there' = [there EXCEPT ![r] = {}]
    /\ UNCHANGED <<phase, busy, now, tables, want, offset, total, seen, cleanVars, gone, cut>>

\* The jobs are counted, and the answer is given.
HealthAnswers(r) ==
    /\ pc[r] = "waiting" /\ busy = None
    /\ pc' = [pc EXCEPT ![r] = "idle"]
    /\ there' = [there EXCEPT ![r] = {}]
    /\ UNCHANGED <<phase, busy, now, tables, want, offset, total, seen, cleanVars, gone, cut>>

-----------------------------------------------------------------------------
(* The cleanup command                                                       *)

\* Mutant: the cutoff is compared by day, its own included.
OlderByDay(j, time) == At[j] \div 2 <= time \div 2

\* The comparison of texts.
Older(j, time) == At[j] \div 2 < time \div 2

\* Stops without a change: nothing matches, a dry run, or the answer is no.
Stop(c) ==
    /\ \/ clean[c] = "listed" /\ (listed[c] = {} \/ option[c].dryRun)
       \/ clean[c] = "asking"
    /\ clean' = [clean EXCEPT ![c] = "done"]
    /\ UNCHANGED <<phase, busy, now, tables, readVars, option, cutoff, listed, gone, cut>>

\* getJobsToDelete.
List(c) ==
    /\ clean[c] = "idle"
    /\ LET o == option[c]
           time == now - 2 * o.days
       IN  /\ cutoff' = [cutoff EXCEPT ![c] = time]
           /\ listed' = [listed EXCEPT ![c] =
                  {j \in Matching(o.status) : o.days # 0 => Older(j, time)}]
    /\ clean' = [clean EXCEPT ![c] = "listed"]
    /\ UNCHANGED <<phase, busy, now, tables, readVars, option, gone, cut>>

Ask(c) ==
    /\ clean[c] = "listed" /\ listed[c] # {} /\ ~option[c].dryRun /\ option[c].interactive
    /\ clean' = [clean EXCEPT ![c] = "asking"]
    /\ UNCHANGED <<phase, busy, now, tables, readVars, option, cutoff, listed, gone, cut>>

\* The results go with their job: foreign_keys is ON in every connection.
DeleteJobs(js) == jobs' = jobs \ js /\ rows' = rows \ RowsOf(js)

\* The jobs a reader is going through.
Watched(r) ==
    {j \in jobs : \/ pc[r] = "viewing" /\ j \in there[r]
                  \/ pc[r] \in {"counted", "paging"} /\ j \in Matching(want[r])}

\* deleteJobs, a transaction over the ids listed; the documents keep their counts.
Delete(c) ==
    /\ \/ clean[c] = "listed" /\ listed[c] # {} /\ ~option[c].dryRun /\ ~option[c].interactive
       \/ clean[c] = "asking"
    /\ DeleteJobs(listed[c])
    /\ gone' = [d \in Range(DocOf) |-> gone[d] + Cardinality(OfDoc(d) \cap jobs \cap listed[c])]
    /\ cut' = [r \in Readers |-> cut[r] + Cardinality(Watched(r) \cap listed[c])]
    /\ clean' = [clean EXCEPT ![c] = "done"]
    /\ UNCHANGED <<phase, busy, now, lints, readVars, option, cutoff, listed>>

-----------------------------------------------------------------------------
(* The end of the server, and time                                           *)

Signal ==
    /\ phase = "up"
    /\ phase' = "closing"
    /\ UNCHANGED <<busy, now, tables, readVars, cleanVars, gone, cut>>

\* app.close has waited for the requests in flight; database.close.
Close ==
    /\ phase = "closing" /\ InFlight = {}
    /\ phase' = "closed"
    /\ UNCHANGED <<busy, now, tables, readVars, cleanVars, gone, cut>>

\* process.exit, at once when the signal comes again.
Exit ==
    /\ phase = "closed" \/ phase = "closing"
    /\ phase' = "down"
    /\ busy' = None
    /\ pc' = [r \in Readers |-> "idle"]
    /\ there' = [r \in Readers |-> {}]
    /\ UNCHANGED <<now, tables, want, offset, total, seen, cleanVars, gone, cut>>

Tick ==
    /\ now < MaxNow /\ now' = now + 1
    /\ UNCHANGED <<phase, busy, tables, readVars, cleanVars, gone, cut>>

Read(r) == Page(r) \/ ViewRows(r) \/ HealthAnswers(r)

Next ==
    \/ \E j \in Jobs : Post(j)
    \/ \E r \in Readers : Open(r) \/ Turn(r) \/ Health(r) \/ Read(r) \/ (\E j \in Jobs : View(r, j))
    \/ \E c \in Cleaners : List(c) \/ Stop(c) \/ Ask(c) \/ Delete(c)
    \/ Signal \/ Close \/ Exit \/ Tick

Spec == Init /\ [][Next]_vars /\ WF_vars(Close) /\ \A r \in Readers : WF_vars(Read(r))

-----------------------------------------------------------------------------
(* Properties                                                                *)

\* Each variable holds values of its type; one handler at a time is between two
\* statements.
TypeOK ==
    /\ phase \in {"up", "closing", "closed", "down"}
    /\ now \in 0..MaxNow
    /\ jobs \subseteq Jobs
    /\ lints \in [Range(DocOf) -> Nat] /\ gone \in [Range(DocOf) -> Nat]
    /\ \A r \in Readers : (busy = r) <=> pc[r] \in {"counted", "viewing"}
    /\ cut \in [Readers -> Nat]
    /\ \A r \in Readers : there[r] \subseteq Jobs /\ seen[r] \subseteq Jobs
    /\ \A c \in Cleaners : listed[c] \subseteq Jobs /\ clean[c] \in {"idle", "listed", "asking", "done"}

\* The table of results holds the results of the jobs that are there, all of them
\* and no others, whichever process has written or deleted last.
ResultsFollowJobs == rows = UNION {{j} \X (1..Results[j]) : j \in jobs}

\* total_lints of a document counts each of its stored jobs, and once: not a
\* notification that is sent again.  Whether it goes on counting a job that the cleanup
\* has deleted is left open: it does (deleteJobs leaves the documents alone), where
\* docs/internal/architecture.md has the cleanup update it.
LintsAreCounted ==
    \A d \in Range(DocOf) :
        LET stored == Cardinality(OfDoc(d) \cap jobs)
        IN  stored <= lints[d] /\ lints[d] <= stored + gone[d]

\* A reader that follows the links to the last page has seen every job that was
\* there when it began, though jobs were added meanwhile; of those that a cleanup,
\* in between two pages or two statements, pushed off its pages or took away, no
\* more than it deleted.
MissesAreBounded ==
    \A r \in Readers : pc[r] = "done" => Cardinality(there[r] \ seen[r]) <= cut[r]

\* A job is shown with all its results, or with none when a cleanup has deleted it
\* between the two statements: never with a part of them.
ViewIsWhole ==
    \A r \in Readers : pc[r] = "viewed" =>
        \A j \in there[r] : total[r] = Results[j] \/ (cut[r] > 0 /\ total[r] = 0)

\* Whatever was stored, deleted or became older while the question of the cleanup
\* was on the screen, a job is deleted only if it had the status asked for and was
\* as old as asked for when the jobs were listed.
OnlyOldAreDeleted ==
    [][\A j \in jobs \ jobs' : \E c \in Cleaners :
            /\ clean[c] \in {"listed", "asking"} /\ clean'[c] = "done"
            /\ option[c].status \in {None, StatusOf[j]}
            /\ option[c].days # 0 => At[j] < cutoff[c]]_vars

\* The tables agree with each other and with what was notified.
TablesAreConsistent == TypeOK /\ ResultsFollowJobs /\ LintsAreCounted

\* Readers see what is there, on one page and following the links.
ReadersSeeAll == ViewIsWhole /\ MissesAreBounded

\* A server that was told to stop does.
Stops == phase = "closing" ~> phase \in {"closed", "down"}
=============================================================================
