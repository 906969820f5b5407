--------------------------- MODULE ReportDelivery ---------------------------
(***************************************************************************)
(* ReportServiceClient and PendingStorage (packages/reports/src/client):    *)
(* the first delivery of a job notification, the pending directory, the     *)
(* retry job and dead letters; and the handler of POST /reports/jobs with   *)
(* the insert behind it (routes/reports.ts, database.ts).                   *)
(*                                                                          *)
(* A notification has its job's name.  A worker is a notify call, named     *)
(* after its notification, or a run of retryPendingNotifications.  A file   *)
(* is written in two steps, since writeFile truncates before it writes.     *)
(* Errors of the file system other than a missing file are left out.        *)
(***************************************************************************)
EXTENDS Integers, FiniteSets

CONSTANTS
    Notes,              \* notifications, by jobId
    Runs,               \* retry runs that can be under way together
    Oversized,          \* above the server's body limit when not shrunk
    Rejected,           \* answered with 400 or 422 by the server
    MaxRetries,         \* config.maxRetries
    MaxPendingRetries,  \* config.maxPendingRetries
    TornWrites,         \* the process may end in the middle of a write
    MaxExits            \* bound: times the process ends

ASSUME DeliveryAssumption ==
    /\ IsFiniteSet(Notes)
    /\ Notes \cap Runs = {}
    /\ Oversized \subseteq Notes
    /\ Rejected \subseteq Notes
    /\ MaxRetries \in Nat
    /\ MaxPendingRetries \in Nat \ {0}
    /\ TornWrites \in BOOLEAN
    /\ MaxExits \in Nat

VARIABLES
    up, exits,
    pc,                 \* where a worker stands
    attempt,            \* the attempts a notify call has made
    on,                 \* the notification a retry run has in hand
    held,               \* the attempts updateAttempt read
    reason,             \* why a run would bury what it has in hand
    unread, todo,       \* list(): files yet to read, and what it returned
    sent,               \* the answer to the request of a worker
    late,               \* requests given up that may still arrive
    stored, totalLints, \* the server's jobs, and documents.total_lints
    file,               \* pendingDir: Absent, Torn, or attempts
    dead                \* deadLetterDir: "none", "torn", or the reason

workerVars == <<attempt, on, held, reason, unread, todo>>
serverVars == <<stored, totalLints>>
vars == <<up, exits, pc, workerVars, sent, late, serverVars, file, dead>>

Workers == Notes \cup Runs

Absent == -1
Torn == -2

Subject(x) == IF x \in Notes THEN x ELSE on[x]

Writing == {"storing", "storingDead", "updating", "burying"}

\* Workers with a job to do; "new" has not been called.
Idle == {"new", "over", "refused", "gone", "idle"}

Init ==
    /\ up = TRUE
    /\ exits = 0
    /\ pc = [x \in Workers |-> IF x \in Notes THEN "new" ELSE "idle"]
    /\ attempt = [n \in Notes |-> 0]
    /\ on \in [Runs -> Notes]
    /\ held = [r \in Runs |-> 0]
    /\ reason = [r \in Runs |-> "rejected"]
    /\ unread = [r \in Runs |-> {}]
    /\ todo = [r \in Runs |-> {}]
    /\ sent = [x \in Workers |-> "none"]
    /\ late = {}
    /\ stored = {}
    /\ totalLints = 0
    /\ file = [n \in Notes |-> Absent]
    /\ dead = [n \in Notes |-> "none"]

\* A worker of the running process goes from one place to the next.
Step(x, from, to) == up /\ pc[x] = from /\ pc' = [pc EXCEPT ![x] = to]

Finish(x) == IF x \in Notes THEN "over" ELSE "next"

-----------------------------------------------------------------------------
(* sendNotification and the server                                          *)

Post(x) == sent' = [sent EXCEPT ![x] = "flying"]

\* The first delivery shrinks what is too large; the file keeps the whole, and
\* a retry sends that.
Refuses(x) == Subject(x) \in Rejected \/ (x \in Runs /\ Subject(x) \in Oversized)

\* Mutant: the document is counted outside the transaction.
StoresUncommitted(n) ==
    /\ stored' = stored \cup {n}
    /\ totalLints' = totalLints + 1

\* storeJob is a transaction: for a job the table has, the insert fails and
\* takes the update of the document back.
Stores(n) ==
    /\ n \notin stored
    /\ stored' = stored \cup {n}
    /\ totalLints' = totalLints + 1

ServerStores(x) ==
    /\ pc[x] = "sending" /\ sent[x] = "flying"
    /\ ~Refuses(x)
    /\ Stores(Subject(x))
    /\ sent' = [sent EXCEPT ![x] = "ok"]
    /\ UNCHANGED <<up, exits, pc, workerVars, late, file, dead>>

ServerRefuses(x) ==
    /\ pc[x] = "sending" /\ sent[x] = "flying"
    /\ Refuses(x)
    /\ sent' = [sent EXCEPT ![x] = "fatal"]
    /\ UNCHANGED <<up, exits, pc, workerVars, late, serverVars, file, dead>>

\* A request whose client has given up.
LateArrival(n) ==
    /\ n \in late
    /\ late' = late \ {n}
    /\ Stores(n) \/ (n \in stored /\ UNCHANGED serverVars)
    /\ UNCHANGED <<up, exits, pc, workerVars, sent, file, dead>>

Abandon(xs) ==
    late' = late \cup {Subject(x) : x \in {y \in xs : sent[y] = "flying" /\ ~Refuses(y)}}

\* The request has failed: the server cannot be reached, answers with an error
\* (a 500 for a job it has), or the answer is not there in time - in which case
\* the request may have arrived or may arrive later.
Fail(x, to) ==
    /\ Step(x, "sending", to)
    /\ sent' = [sent EXCEPT ![x] = "none"]
    /\ Abandon({x}) \/ UNCHANGED late

Answered(x, answer, to) ==
    /\ sent[x] = answer
    /\ Step(x, "sending", to)
    /\ sent' = [sent EXCEPT ![x] = "none"]
    /\ UNCHANGED late

-----------------------------------------------------------------------------
(* notify                                                                   *)

\* Validation may refuse the notification before anything is sent.
Notify(n) ==
    /\ \/ /\ Step(n, "new", "sending")
          /\ Post(n)
          /\ attempt' = [attempt EXCEPT ![n] = 1]
       \/ Step(n, "new", "refused") /\ UNCHANGED <<sent, attempt>>
    /\ UNCHANGED <<up, exits, on, held, reason, unread, todo, late, serverVars, file, dead>>

NotifySucceeds(n) ==
    /\ Answered(n, "ok", "over")
    /\ UNCHANGED <<up, exits, workerVars, serverVars, file, dead>>

\* A permanent refusal is stored as pending and then moved.
NotifyRefused(n) ==
    /\ Answered(n, "fatal", "storeDead")
    /\ UNCHANGED <<up, exits, workerVars, serverVars, file, dead>>

\* The last attempt has failed, or there is time to wait for the next.
NotifyFails(n) ==
    /\ Fail(n, IF attempt[n] <= MaxRetries THEN "backoff" ELSE "store")
    /\ UNCHANGED <<up, exits, workerVars, serverVars, file, dead>>

NotifyAgain(n) ==
    /\ Step(n, "backoff", "sending")
    /\ Post(n)
    /\ attempt' = [attempt EXCEPT ![n] = @ + 1]
    /\ UNCHANGED <<up, exits, on, held, reason, unread, todo, late, serverVars, file, dead>>

\* store(): writeFile of a notification that was not yet retried.
StoreBegin(n) ==
    /\ Step(n, "store", "storing") \/ Step(n, "storeDead", "storingDead")
    /\ file' = [file EXCEPT ![n] = Torn]
    /\ UNCHANGED <<up, exits, workerVars, sent, late, serverVars, dead>>

StoreEnd(n) ==
    /\ Step(n, "storing", "over") \/ Step(n, "storingDead", "move")
    /\ file' = [file EXCEPT ![n] = 0]
    /\ UNCHANGED <<up, exits, workerVars, sent, late, serverVars, dead>>

-----------------------------------------------------------------------------
(* moveToDeadLetter, for either kind of worker                              *)

\* Mutant: the pending file is renamed away before the dead letter is written.
MoveReadUnlink(x) ==
    /\ Step(x, "move", IF file[Subject(x)] >= 0 THEN "bury" ELSE Finish(x))
    /\ file' = [file EXCEPT ![Subject(x)] = Absent]
    /\ UNCHANGED <<up, exits, workerVars, sent, late, serverVars, dead>>

\* A missing file ends the move without an error, an unreadable one with.
MoveRead(x) ==
    /\ Step(x, "move", IF file[Subject(x)] >= 0 THEN "bury" ELSE Finish(x))
    /\ UNCHANGED <<up, exits, workerVars, sent, late, serverVars, file, dead>>

Reason(x) == IF x \in Notes THEN "rejected" ELSE reason[x]

BuryBegin(x) ==
    /\ Step(x, "bury", "burying")
    /\ dead' = [dead EXCEPT ![Subject(x)] = "torn"]
    /\ UNCHANGED <<up, exits, workerVars, sent, late, serverVars, file>>

BuryEnd(x) ==
    /\ Step(x, "burying", "unlink")
    /\ dead' = [dead EXCEPT ![Subject(x)] = Reason(x)]
    /\ UNCHANGED <<up, exits, workerVars, sent, late, serverVars, file>>

\* unlink: the end of a move, and remove() after a delivery.  Finding no file
\* is not an error.
Unlink(x) ==
    /\ Step(x, "unlink", Finish(x))
    /\ file' = [file EXCEPT ![Subject(x)] = Absent]
    /\ UNCHANGED <<up, exits, workerVars, sent, late, serverVars, dead>>

-----------------------------------------------------------------------------
(* retryPendingNotifications                                                *)

\* The timer fires, or retryNow is called; nothing keeps two runs apart.
\* list() reads the names, then one file after the other.
RunStart(r) ==
    /\ Step(r, "idle", "listing")
    /\ unread' = [unread EXCEPT ![r] = {n \in Notes : file[n] # Absent}]
    /\ UNCHANGED <<up, exits, attempt, on, held, reason, todo, sent, late, serverVars, file, dead>>

\* A file that has gone or cannot be parsed is skipped.
ListRead(r) ==
    /\ \E n \in unread[r] :
          /\ Step(r, "listing", "listing")
          /\ unread' = [unread EXCEPT ![r] = @ \ {n}]
          /\ todo' = [todo EXCEPT ![r] =
                         IF file[n] >= 0 THEN @ \cup {<<n, file[n]>>} ELSE @]
    /\ UNCHANGED <<up, exits, attempt, on, held, reason, sent, late, serverVars, file, dead>>

ListDone(r) ==
    /\ unread[r] = {}
    /\ Step(r, "listing", "next")
    /\ UNCHANGED <<up, exits, workerVars, sent, late, serverVars, file, dead>>

\* Mutant: an off-by-one in the limit.
PickLate(r) ==
    /\ \E item \in todo[r] :
          /\ on' = [on EXCEPT ![r] = item[1]]
          /\ todo' = [todo EXCEPT ![r] = @ \ {item}]
          /\ \/ /\ item[2] > MaxPendingRetries
                /\ Step(r, "next", "move")
                /\ reason' = [reason EXCEPT ![r] = "exhausted"]
             \/ /\ item[2] <= MaxPendingRetries
                /\ Step(r, "next", "update")
                /\ reason' = [reason EXCEPT ![r] = "rejected"]
    /\ UNCHANGED <<up, exits, attempt, held, unread, sent, late, serverVars, file, dead>>

\* The next item of the list, which may be stale by now: one with too many
\* attempts is a dead letter, another is tried.
Pick(r) ==
    /\ \E item \in todo[r] :
          /\ on' = [on EXCEPT ![r] = item[1]]
          /\ todo' = [todo EXCEPT ![r] = @ \ {item}]
          /\ \/ /\ item[2] >= MaxPendingRetries
                /\ Step(r, "next", "move")
                /\ reason' = [reason EXCEPT ![r] = "exhausted"]
             \/ /\ item[2] < MaxPendingRetries
                /\ Step(r, "next", "update")
                /\ reason' = [reason EXCEPT ![r] = "rejected"]
    /\ UNCHANGED <<up, exits, attempt, held, unread, sent, late, serverVars, file, dead>>

RunEnd(r) ==
    /\ todo[r] = {}
    /\ Step(r, "next", "idle")
    /\ UNCHANGED <<up, exits, workerVars, sent, late, serverVars, file, dead>>

\* updateAttempt: it throws when the file has gone or cannot be parsed.
UpdateRead(r) ==
    /\ \/ /\ file[on[r]] >= 0
          /\ Step(r, "update", "updateWrite")
          /\ held' = [held EXCEPT ![r] = file[on[r]]]
       \/ file[on[r]] < 0 /\ Step(r, "update", "next") /\ UNCHANGED held
    /\ UNCHANGED <<up, exits, attempt, on, reason, unread, todo, sent, late, serverVars, file, dead>>

\* The file is written under its name, whether or not it is still there.
UpdateBegin(r) ==
    /\ Step(r, "updateWrite", "updating")
    /\ file' = [file EXCEPT ![on[r]] = Torn]
    /\ UNCHANGED <<up, exits, workerVars, sent, late, serverVars, dead>>

\* Mutant: the count of attempts is written back as it was read.
UpdateEndSame(r) ==
    /\ Step(r, "updating", "sending")
    /\ file' = [file EXCEPT ![on[r]] = held[r]]
    /\ held' = [held EXCEPT ![r] = 0]
    /\ Post(r)
    /\ UNCHANGED <<up, exits, attempt, on, reason, unread, todo, late, serverVars, dead>>

UpdateEnd(r) ==
    /\ Step(r, "updating", "sending")
    /\ file' = [file EXCEPT ![on[r]] = held[r] + 1]
    /\ held' = [held EXCEPT ![r] = 0]
    /\ Post(r)
    /\ UNCHANGED <<up, exits, attempt, on, reason, unread, todo, late, serverVars, dead>>

RetrySucceeds(r) ==
    /\ Answered(r, "ok", "unlink")
    /\ UNCHANGED <<up, exits, workerVars, serverVars, file, dead>>

RetryRefused(r) ==
    /\ Answered(r, "fatal", "move")
    /\ UNCHANGED <<up, exits, workerVars, serverVars, file, dead>>

\* Left for the next run.
RetryFails(r) ==
    /\ Fail(r, "next")
    /\ UNCHANGED <<up, exits, workerVars, serverVars, file, dead>>

-----------------------------------------------------------------------------
(* The end of the process, orderly or not: shutdown() only stops the retry  *)
(* timer.  What is in memory is gone, requests on their way are not.        *)

Exit ==
    /\ up /\ exits < MaxExits
    /\ TornWrites \/ \A x \in Workers : pc[x] \notin Writing
    /\ up' = FALSE
    /\ exits' = exits + 1
    /\ pc' = [x \in Workers |->
                 IF x \in Notes /\ pc[x] \in Idle THEN pc[x]
                 ELSE IF x \in Notes THEN "gone" ELSE "idle"]
    /\ todo' = [r \in Runs |-> {}]
    /\ unread' = [r \in Runs |-> {}]
    /\ sent' = [x \in Workers |-> "none"]
    /\ \E xs \in SUBSET Workers : Abandon(xs)
    /\ UNCHANGED <<attempt, on, held, reason, serverVars, file, dead>>

Restart ==
    /\ ~up
    /\ up' = TRUE
    /\ UNCHANGED <<exits, pc, workerVars, sent, late, serverVars, file, dead>>

-----------------------------------------------------------------------------
NotifyStep(n) ==
    NotifySucceeds(n) \/ NotifyRefused(n) \/ NotifyFails(n) \/ NotifyAgain(n)
        \/ StoreBegin(n) \/ StoreEnd(n)

MoveStep(x) == MoveRead(x) \/ BuryBegin(x) \/ BuryEnd(x) \/ Unlink(x)

RetryStep(r) ==
    RunStart(r) \/ ListRead(r) \/ ListDone(r) \/ Pick(r) \/ RunEnd(r) \/ UpdateRead(r)
        \/ UpdateBegin(r) \/ UpdateEnd(r) \/ RetrySucceeds(r) \/ RetryRefused(r) \/ RetryFails(r)

ServerStep(x) == ServerStores(x) \/ ServerRefuses(x)

Next ==
    \/ \E n \in Notes : Notify(n) \/ NotifyStep(n) \/ LateArrival(n)
    \/ \E x \in Workers : MoveStep(x) \/ ServerStep(x)
    \/ \E r \in Runs : RetryStep(r)
    \/ Exit \/ Restart

Spec == Init /\ [][Next]_vars

\* Requests have a time limit, files are read and written, and the retry timer
\* is an interval; nothing is assumed of the server, the network, the callers
\* or the end and start of the process.
Fairness ==
    /\ \A n \in Notes : WF_vars(NotifyStep(n))
    /\ \A x \in Workers : WF_vars(MoveStep(x))
    /\ \A r \in Runs : WF_vars(RetryStep(r))

FairSpec == Spec /\ Fairness

-----------------------------------------------------------------------------
(* Invariants                                                               *)

Places == Idle \cup Writing \cup {"sending", "backoff", "store", "storeDead", "move",
    "bury", "unlink", "listing", "next", "update", "updateWrite"}

TypeOK ==
    /\ up \in BOOLEAN
    /\ exits \in 0..MaxExits
    /\ pc \in [Workers -> Places]
    /\ attempt \in [Notes -> 0..MaxRetries + 1]
    /\ on \in [Runs -> Notes]
    /\ held \in [Runs -> Nat]
    /\ reason \in [Runs -> {"rejected", "exhausted"}]
    /\ unread \in [Runs -> SUBSET Notes]
    /\ todo \in [Runs -> SUBSET (Notes \X Nat)]
    /\ sent \in [Workers -> {"none", "flying", "ok", "fatal"}]
    /\ late \subseteq Notes
    /\ stored \subseteq Notes
    /\ totalLints \in Nat
    /\ file \in [Notes -> Nat \cup {Absent, Torn}]
    /\ dead \in [Notes -> {"none", "torn", "rejected", "exhausted"}]

\* A job is counted for its document when it is stored and only then, whatever
\* is sent again: insert and count are one transaction.
LintsAreJobs == totalLints = Cardinality(stored)

\* A dead letter for a permanent refusal is one the server would refuse: no
\* passing failure, and no answer to another job, condemns a notification.
DeadForAReason ==
    \A n \in Notes : dead[n] = "rejected" => n \in Rejected \cup Oversized

\* What the server and the dead letters hold agrees with what was sent, however
\* often and however late.
DeliveryIsConsistent == TypeOK /\ LintsAreJobs /\ DeadForAReason

\* The limit on retries is checked against the list a run has read, so two runs
\* may exceed it by one.  (Three may exceed it further: one that has read a low
\* count and writes it late lets the others begin again.)
AttemptsBounded ==
    Cardinality(Runs) <= 2 =>
        \A n \in Notes : file[n] <= MaxPendingRetries + Cardinality(Runs) - 1

\* A notification is safe: in a readable file, or about to be written by a
\* worker that holds it.
OnDisk(n) ==
    \/ file[n] >= 0
    \/ dead[n] \in {"rejected", "exhausted"}
    \/ \E x \in Workers : Subject(x) = n /\ pc[x] \in Writing \ {"storing", "storingDead"}

\* What is on disk stays there until the server has it, through updates, moves
\* and removals of runs that overlap and ends of the process between two steps.
Durable == [][\A n \in Notes : OnDisk(n) => OnDisk(n)' \/ n \in stored']_vars

-----------------------------------------------------------------------------
(* Refinement                                                               *)

Fate(n) ==
    CASE n \in stored -> "delivered"
      [] n \notin stored /\ dead[n] \in {"rejected", "exhausted"} -> "dead"
      [] n \notin stored /\ dead[n] \in {"none", "torn"} /\ OnDisk(n) -> "kept"
      [] OTHER -> CASE pc[n] = "new" -> "new"
                    [] pc[n] = "refused" -> "refused"
                    [] pc[n] \in {"over", "gone"} -> "lost"
                    [] OTHER -> "trying"

Service == INSTANCE DeliveryService WITH fate <- [n \in Notes |-> Fate(n)], up <- up

\* The client keeps its promise: a notification is delivered, set aside or, if
\* the process ends during its first delivery, lost - and nothing else; and
\* while the process runs and retries, no notification waits for ever.
ImplementsDelivery == Service!Spec
=============================================================================
