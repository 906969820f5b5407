---------------------------- MODULE LintCommand ----------------------------
(***************************************************************************)
(* Runs of the CLI against one server: `spectify lint` (cli/commands/       *)
(* lint.ts with cli/api-client.ts), `spectify history --clear` and          *)
(* `spectify config` (cli/commands/config.ts).  Each run is a process of    *)
(* its own; they share config.json (cli/config-manager.ts), history.json    *)
(* and history-metadata.json (cli/history-manager.ts) in the home           *)
(* directory, which are read and rewritten whole.                           *)
(*                                                                         *)
(* A setting is the default or the run that set it; the server they lead to *)
(* is one.  A write is two steps, the file being empty between them.  It may*)
(* restart: it has a new session and has lost its jobs.  A job completes    *)
(* with or without findings of severity error, or fails; a job that timed   *)
(* out is one that failed, one "completed with errors" one that completed.  *)
(* Wording, progress and the arguments of the commands are left out.        *)
(***************************************************************************)
EXTENDS Integers, FiniteSets, SequencesExt

CONSTANTS
    Runs,           \* processes
    Plans,          \* what the runs may do together: for each its command, and the
                    \* number of rulesets it lints with
    MaxEntries,     \* entries kept in the history (100)
    MaxRestarts,    \* bound: restarts of the server
    MaxKills,       \* bound: runs that are interrupted
    Settings,       \* of config.json
    Notified,       \* those whose change is told to the history (url and ports)
    Ports,          \* those in the ports of DEFAULT_CONFIG
    Torn            \* a file that does not parse, or is not there

VARIABLES
    plan,       \* the plan the runs follow
    session,    \* X-Spectify-Session-Id of the server
    jobs,       \* what became of each job of a run, in the order of its rulesets
    pc,         \* where a run is
    next,       \* the ruleset a run is at
    seen,       \* rulesets whose job it has seen settled
    errors,     \* it has seen a result with errors
    missed,     \* rulesets whose results it could not get in the summary (history)
    bad,        \* it has given up, and only saves its history
    exit,       \* its exit code, -1 before
    sid,        \* lastSessionId of its client
    held,       \* the history it has read
    history,    \* history.json
    metadata,   \* history-metadata.json: the session, 0 when there is none
    config,     \* config.json
    loaded,     \* the config of a run's ConfigManager
    shared,     \* of a `config` run: it is a copy of DEFAULT_CONFIG, with its ports
    change,     \* the change a `config` run is saving
    mixed,      \* two runs have used config.json at once, one of them to write, or
                \* one was interrupted while it wrote (history)
    wanted,     \* the settings the runs confirmed (history)
    kills,
    raced,      \* two runs have used the history files at once, or one was
                \* interrupted while it did (history)
    kept        \* entries added since the history was last cleared, newest first
                \* (history)

runVars == <<plan, pc, next, seen, errors, missed, bad, exit, sid, held>>
configVars == <<config, loaded, shared, change, mixed, wanted>>
vars == <<session, jobs, runVars, configVars, history, metadata, kills, raced, kept>>

Jobs == {<<r, n>> : r \in Runs, n \in 1..3}
Filing == {"reading", "clearing", "cleared", "noting", "noted", "loading", "adding", "added"}
Busy(r) == pc[r] \in Filing
Factory == [s \in Settings |-> "default"]
Settled == {"clean", "erroneous", "failed"}
Entries == [job : Jobs, session : 1..(MaxRestarts + 1)]
Configs == [Settings -> Runs \cup {"default"}]

ASSUME LintCommandAssumption ==
    /\ Plans \subseteq [Runs -> [command : {"lint", "clear", "config"}, rulesets : 1..3]]
    /\ Ports \subseteq Notified /\ Notified \subseteq Settings
    /\ {"none", "reset"} \cap Settings = {}
    /\ MaxEntries \in Nat \ {0} /\ MaxRestarts \in Nat /\ MaxKills \in Nat
    /\ Torn \notin Nat /\ Torn \notin Seq(Entries) /\ Torn \notin Configs

Init ==
    /\ plan \in Plans
    /\ session = 1
    /\ jobs = [r \in Runs |-> <<>>]
    /\ pc = [r \in Runs |-> "start"]
    /\ next = [r \in Runs |-> 1]
    /\ seen = [r \in Runs |-> {}]
    /\ errors = [r \in Runs |-> FALSE] /\ missed = [r \in Runs |-> {}]
    /\ bad = [r \in Runs |-> FALSE]
    /\ exit = [r \in Runs |-> -1]
    /\ sid = [r \in Runs |-> 0]
    /\ held = [r \in Runs |-> <<>>]
    /\ config = Torn
    /\ loaded = [r \in Runs |-> Factory]
    /\ shared = [r \in Runs |-> FALSE]
    /\ change = [r \in Runs |-> "none"]
    /\ mixed = FALSE /\ wanted = Factory
    /\ history = <<>> /\ metadata = 0
    /\ kills = 0 /\ raced = FALSE /\ kept = <<>>

Single(r) == plan[r].rulesets = 1

Goto(r, step) == pc' = [pc EXCEPT ![r] = step]

End(r, code) ==
    /\ pc' = [pc EXCEPT ![r] = "ended"]
    /\ exit' = [exit EXCEPT ![r] = code]

\* What the process of a `config` run held goes with it.
Forget(r) ==
    /\ loaded' = [loaded EXCEPT ![r] = Factory]
    /\ shared' = [shared EXCEPT ![r] = FALSE]

\* A `config` run is over, or the user goes on to another change.
Another(r) ==
    \/ End(r, 0) /\ Forget(r)
    \/ Goto(r, "ready") /\ UNCHANGED <<exit, loaded, shared>>

\* A run that may write config.json, and has read it or is about to write it.
Writing(r) ==
    \/ pc[r] \in {"saving", "saved"}
    \/ plan[r].command = "config" /\ pc[r] \notin {"start", "ended"}

\* The run enters a step of the history.
Enter(r, step) ==
    /\ Goto(r, step)
    /\ raced' = (raced \/ \E q \in Runs \ {r} : Busy(q))

-----------------------------------------------------------------------------
(* The server                                                                *)

Settle(r, n, outcome) ==
    /\ n \in 1..Len(jobs[r]) /\ jobs[r][n] = "running"
    /\ jobs' = [jobs EXCEPT ![r][n] = outcome]
    /\ UNCHANGED <<session, runVars, history, metadata, kills, raced, kept, configVars>>

Restart ==
    /\ session <= MaxRestarts
    /\ session' = session + 1
    /\ jobs' = [r \in Runs |-> [n \in 1..Len(jobs[r]) |-> "gone"]]
    /\ UNCHANGED <<runVars, history, metadata, kills, raced, kept, configVars>>

-----------------------------------------------------------------------------
(* ConfigManager, and spectify config                                        *)

restVars ==
    <<session, jobs, plan, next, seen, errors, missed, bad, sid, held, history, metadata,
      kills, kept>>

\* load: a file that does not parse, or is not there, is written anew.  A `lint` run
\* needs the address of the server only.
LoadConfig(r) ==
    /\ pc[r] = "start" /\ plan[r].command = "config"
    /\ loaded' = [loaded EXCEPT ![r] = IF config = Torn THEN Factory ELSE config]
    /\ shared' = [shared EXCEPT ![r] = config = Torn]
    /\ Goto(r, IF config = Torn THEN "saving" ELSE "ready")
    /\ mixed' = (mixed \/ \E q \in Runs \ {r} : Writing(q))
    /\ UNCHANGED <<restVars, exit, raced, config, change, wanted>>

WriteDefaults(r) ==
    /\ pc[r] = "start" /\ plan[r].command = "lint" /\ config = Torn
    /\ Goto(r, "saving")
    /\ mixed' = (mixed \/ \E q \in Runs \ {r} : plan[q].command = "config" /\ Writing(q))
    /\ UNCHANGED <<restVars, exit, raced, config, loaded, shared, change, wanted>>

\* A `lint` run has read the config.
Ready(r) == plan[r].command = "lint" /\ (pc[r] = "ready" \/ (pc[r] = "start" /\ config # Torn))

\* Mutant: the setting is put into the defaults.
SetConfigOfDefaults(r, s) ==
    /\ pc[r] = "ready" /\ plan[r].command = "config" /\ loaded[r][s] # r
    /\ loaded' = [loaded EXCEPT ![r] = [Factory EXCEPT ![s] = r]]
    /\ change' = [change EXCEPT ![r] = s]
    /\ Goto(r, "saving")
    /\ UNCHANGED <<restVars, exit, raced, config, shared, mixed, wanted>>

\* setDefaultMode, setPort and setUrl change the config the process has loaded.
Set(r, s) == [loaded EXCEPT ![r][s] = r]

SetConfig(r, s) ==
    /\ pc[r] = "ready" /\ plan[r].command = "config" /\ loaded[r][s] # r
    /\ loaded' = Set(r, s)
    /\ change' = [change EXCEPT ![r] = s]
    /\ Goto(r, "saving")
    /\ UNCHANGED <<restVars, exit, raced, config, shared, mixed, wanted>>

\* reset: a port set in a process whose config is a copy of DEFAULT_CONFIG was set
\* in DEFAULT_CONFIG, too.
Defaults(r) == [s \in Settings |-> IF s \in Ports /\ shared[r] THEN loaded[r][s] ELSE "default"]

\* Alone it does not read the file before it writes; in the menu it has been read.
ResetConfig(r) ==
    /\ pc[r] \in {"start", "ready"} /\ plan[r].command = "config"
    /\ loaded' = [loaded EXCEPT ![r] = Defaults(r)]
    /\ change' = [change EXCEPT ![r] = "reset"]
    /\ mixed' = (\/ mixed \/ Defaults(r) # Factory
                 \/ pc[r] = "start" /\ \E q \in Runs \ {r} : Writing(q))
    /\ Goto(r, "saving")
    /\ UNCHANGED <<restVars, exit, raced, config, shared, wanted>>

\* The menu is left, or the configuration was only shown.
LeaveConfig(r) ==
    /\ pc[r] = "ready" /\ plan[r].command = "config"
    /\ End(r, 0) /\ Forget(r)
    /\ UNCHANGED <<restVars, raced, config, change, mixed, wanted>>

\* save: writeFile truncates the file, and has written it.
TruncateConfig(r) ==
    /\ pc[r] = "saving"
    /\ config' = Torn
    /\ Goto(r, "saved")
    /\ UNCHANGED <<restVars, exit, raced, loaded, shared, change, mixed, wanted>>

\* The new URL is told to the history; nothing else is.
ConfigSaved(r) ==
    /\ pc[r] = "saved"
    /\ config' = loaded[r]
    /\ \/ /\ change[r] = "none" /\ Goto(r, "ready")
          /\ UNCHANGED <<exit, raced, loaded, shared, wanted>>
       \/ /\ change[r] = "reset" /\ wanted' = Factory
          /\ End(r, 0) /\ Forget(r) /\ UNCHANGED raced
       \/ /\ change[r] \in Settings /\ wanted' = [wanted EXCEPT ![change[r]] = r]
          /\ \/ change[r] \in Notified /\ Enter(r, "reading") /\ UNCHANGED <<exit, loaded, shared>>
             \/ change[r] \notin Notified /\ Another(r) /\ UNCHANGED raced
    /\ change' = [change EXCEPT ![r] = "none"]
    /\ UNCHANGED <<restVars, mixed>>

-----------------------------------------------------------------------------
(* spectify lint                                                             *)

\* uploadDocument and submitLint keep the session id of the answer.
NoteSession(r) == sid' = [sid EXCEPT ![r] = session]

\* The document is read and uploaded; or the file, its format, the server or the
\* overrides are refused.
Upload(r) ==
    /\ Ready(r)
    /\ NoteSession(r)
    /\ Goto(r, "submitting")
    /\ UNCHANGED <<plan, session, jobs, next, seen, errors, missed, bad, exit, held, history,
                   metadata, kills, raced, kept, configVars>>

Refuse(r) ==
    /\ Ready(r) \/ pc[r] = "submitting"
    /\ End(r, 1)
    /\ UNCHANGED <<plan, session, jobs, next, seen, errors, missed, bad, sid, held, history,
                   metadata, kills, raced, kept, configVars>>

\* submitLint for the next ruleset; the client notes the session.  After a restart
\* the server does not refuse: the document is still on disk.
Submit(r) ==
    /\ pc[r] = "submitting"
    /\ jobs' = [jobs EXCEPT ![r] = Append(@, "running")]
    /\ NoteSession(r)
    /\ IF next[r] < plan[r].rulesets
       THEN next' = [next EXCEPT ![r] = @ + 1] /\ UNCHANGED pc
       ELSE next' = [next EXCEPT ![r] = 1] /\ Goto(r, "polling")
    /\ UNCHANGED <<plan, session, seen, errors, missed, bad, exit, held, history, metadata, kills,
                   raced, kept, configVars>>

\* getJobStatus for a job that is pending: one is seen settled.
Poll(r, n) ==
    /\ pc[r] = "polling" /\ n \in 1..Len(jobs[r]) \ seen[r]
    /\ jobs[r][n] \in Settled
    /\ seen' = [seen EXCEPT ![r] = @ \cup {n}]
    /\ Goto(r, IF seen'[r] = 1..plan[r].rulesets THEN "fetching" ELSE "polling")
    /\ UNCHANGED <<plan, session, jobs, next, errors, missed, bad, exit, sid, held, history,
                   metadata, kills, raced, kept, configVars>>

\* The poll of one job stops at the first status it cannot get, or after five
\* minutes.
PollFails(r) ==
    /\ pc[r] = "polling" /\ Single(r)
    /\ End(r, 1)
    /\ UNCHANGED <<plan, session, jobs, next, seen, errors, missed, bad, sid, held, history,
                   metadata, kills, raced, kept, configVars>>

\* Mutant: the polls have no end of their own.
PollsExpireWhenGone(r) ==
    /\ pc[r] = "polling" /\ ~Single(r) /\ \E n \in 1..Len(jobs[r]) : jobs[r][n] = "gone"
    /\ bad' = [bad EXCEPT ![r] = TRUE]
    /\ Goto(r, "fetching")
    /\ UNCHANGED <<plan, session, jobs, next, seen, errors, missed, exit, sid, held, history,
                   metadata, kills, raced, kept, configVars>>

\* The poll of several goes on to the five minutes; the jobs are then put in the
\* history, up to the first whose status cannot be got.
PollsExpire(r) ==
    /\ pc[r] = "polling" /\ ~Single(r)
    /\ bad' = [bad EXCEPT ![r] = TRUE]
    /\ Goto(r, "fetching")
    /\ UNCHANGED <<plan, session, jobs, next, seen, errors, missed, exit, sid, held, history,
                   metadata, kills, raced, kept, configVars>>

\* The only job of a run is shown from what is fetched once, and its errors make the
\* exit code.
ShownErrors(r) == Single(r) /\ jobs[r][1] = "erroneous"

\* getJobResults, or the status when it has given up: the job is there.
Fetch(r) ==
    /\ pc[r] = "fetching" /\ jobs[r][next[r]] # "gone"
    /\ errors' = [errors EXCEPT ![r] = ShownErrors(r)]
    /\ Enter(r, "reading")
    /\ UNCHANGED <<plan, session, jobs, next, seen, missed, bad, exit, sid, held, history,
                   metadata, kills, kept, configVars>>

\* The request fails, whatever became of the job: the server does not answer, its
\* cache was cleared, the job was lost or the result of a failed one is not stored
\* yet.  The only job ends the run, one of several gets a minimal entry.
FetchFails(r) ==
    /\ pc[r] = "fetching"
    /\ IF Single(r) \/ bad[r] THEN End(r, 1) /\ UNCHANGED raced
                              ELSE Enter(r, "reading") /\ UNCHANGED exit
    /\ UNCHANGED <<plan, session, jobs, next, seen, errors, missed, bad, sid, held, history,
                   metadata, kills, kept, configVars>>

\* One more line of the summary; after the last one the run ends.
SummaryGoesOn(r) ==
    /\ IF next[r] < plan[r].rulesets
       THEN next' = [next EXCEPT ![r] = @ + 1] /\ UNCHANGED <<pc, exit>>
       ELSE End(r, IF errors'[r] THEN 1 ELSE 0) /\ UNCHANGED next
    /\ UNCHANGED <<plan, session, jobs, seen, bad, sid, held, history, metadata, kills,
                   raced, kept, configVars>>

\* Mutant: the summary keeps the last result only.
SummarizeLast(r) ==
    /\ pc[r] = "summary" /\ jobs[r][next[r]] # "gone"
    /\ errors' = [errors EXCEPT ![r] = jobs[r][next[r]] = "erroneous"]
    /\ SummaryGoesOn(r) /\ UNCHANGED missed

\* The results of several jobs are fetched once more.
Summarize(r) ==
    /\ pc[r] = "summary" /\ jobs[r][next[r]] # "gone"
    /\ errors' = [errors EXCEPT ![r] = @ \/ jobs[r][next[r]] = "erroneous"]
    /\ SummaryGoesOn(r) /\ UNCHANGED missed

\* Those that cannot be fetched now, for whatever reason, count no errors.
SummaryFails(r) ==
    /\ pc[r] = "summary"
    /\ missed' = [missed EXCEPT ![r] = @ \cup {next[r]}]
    /\ UNCHANGED errors /\ SummaryGoesOn(r)

-----------------------------------------------------------------------------
(* HistoryManager                                                            *)

\* `history --clear` goes straight to the write.
ClearCommand(r) ==
    /\ pc[r] = "start" /\ plan[r].command = "clear"
    /\ Enter(r, "clearing")
    /\ UNCHANGED <<plan, session, jobs, next, seen, errors, missed, bad, exit, sid, held, history,
                   metadata, kills, kept, configVars>>

\* Mutant: a restart of the server is not noticed.
SameServerEver(r) == metadata \notin {0, Torn} /\ plan[r].command = "lint"

\* addEntry compares session and URL with the metadata, onConfigChange the URL; a
\* file that does not parse is one that is not there.
SameServer(r) == metadata = sid[r] /\ plan[r].command = "lint"

ReadMetadata(r) ==
    /\ pc[r] = "reading"
    /\ \/ /\ Goto(r, IF SameServer(r) THEN "loading" ELSE "clearing")
          /\ UNCHANGED <<exit, loaded, shared>>
       \/ plan[r].command = "config" /\ metadata \notin {0, Torn} /\ Another(r)
    /\ UNCHANGED <<plan, session, jobs, next, seen, errors, missed, bad, sid, held, history,
                   metadata, kills, raced, kept, config, change, mixed, wanted>>

\* writeFile truncates the file.
Truncate(r) ==
    /\ \/ pc[r] = "clearing" /\ Goto(r, "cleared") /\ history' = Torn /\ UNCHANGED metadata
       \/ pc[r] = "noting" /\ Goto(r, "noted") /\ metadata' = Torn /\ UNCHANGED history
       \/ pc[r] = "adding" /\ Goto(r, "added") /\ history' = Torn /\ UNCHANGED metadata
    /\ UNCHANGED <<plan, session, jobs, next, seen, errors, missed, bad, exit, sid, held, kills,
                   raced, kept, configVars>>

\* clearHistory has written.
Cleared(r) ==
    /\ pc[r] = "cleared"
    /\ history' = <<>> /\ kept' = <<>>
    /\ IF plan[r].command = "clear" THEN End(r, 0) ELSE Goto(r, "noting") /\ UNCHANGED exit
    /\ UNCHANGED <<plan, session, jobs, next, seen, errors, missed, bad, sid, held, metadata, kills,
                   raced, configVars>>

\* saveMetadata has written; a new URL has no session yet.
Noted(r) ==
    /\ pc[r] = "noted"
    /\ metadata' = sid[r]
    /\ IF plan[r].command = "config" THEN Another(r)
       ELSE Goto(r, "loading") /\ UNCHANGED <<exit, loaded, shared>>
    /\ UNCHANGED <<plan, session, jobs, next, seen, errors, missed, bad, sid, held, history, kills,
                   raced, kept, config, change, mixed, wanted>>

Entry(r) == [job |-> <<r, next[r]>>, session |-> sid[r]]
Parsed(file) == IF file = Torn THEN <<>> ELSE file
Newest(s) == SubSeq(s, 1, IF Len(s) < MaxEntries THEN Len(s) ELSE MaxEntries)

\* loadHistory, and the new entry in front of what it answered.
LoadHistory(r) ==
    /\ pc[r] = "loading"
    /\ held' = [held EXCEPT ![r] = Newest(<<Entry(r)>> \o Parsed(history))]
    /\ Goto(r, "adding")
    /\ UNCHANGED <<plan, session, jobs, next, seen, errors, missed, bad, exit, sid, history, metadata,
                   kills, raced, kept, configVars>>

\* saveHistory has written: on to the next job, to the summary, or to the end.
Added(r) ==
    /\ pc[r] = "added"
    /\ history' = held[r] /\ held' = [held EXCEPT ![r] = <<>>]
    /\ kept' = <<Entry(r)>> \o kept
    /\ IF next[r] < plan[r].rulesets
       THEN next' = [next EXCEPT ![r] = @ + 1] /\ Goto(r, "fetching") /\ UNCHANGED exit
       ELSE /\ next' = [next EXCEPT ![r] = 1]
            /\ IF Single(r) \/ bad[r]
               THEN End(r, IF errors[r] \/ bad[r] THEN 1 ELSE 0)
               ELSE Goto(r, "summary") /\ UNCHANGED exit
    /\ UNCHANGED <<plan, session, jobs, seen, errors, missed, bad, sid, metadata, kills, raced,
                   configVars>>

-----------------------------------------------------------------------------

\* The user interrupts a run that uses the files; one that does not leaves nothing
\* behind.  What it held is gone.
Kill(r) ==
    /\ kills < MaxKills /\ (Busy(r) \/ pc[r] = "saved")
    /\ kills' = kills + 1
    /\ End(r, 130)
    /\ next' = [next EXCEPT ![r] = 1] /\ seen' = [seen EXCEPT ![r] = {}]
    /\ errors' = [errors EXCEPT ![r] = FALSE] /\ bad' = [bad EXCEPT ![r] = FALSE]
    /\ held' = [held EXCEPT ![r] = <<>>] /\ change' = [change EXCEPT ![r] = "none"]
    /\ Forget(r)
    /\ raced' = (raced \/ Busy(r))
    /\ mixed' = (mixed \/ (pc[r] = "saved" /\ plan[r].command = "config"))
    /\ UNCHANGED <<plan, session, jobs, missed, sid, history, metadata, kept, config, wanted>>

\* Steps that come without anybody's doing: the file system and fetch settle, and
\* the polls stop after five minutes.
Proceed(r) ==
    \/ LoadConfig(r) \/ WriteDefaults(r) \/ ResetConfig(r) \/ LeaveConfig(r)
    \/ TruncateConfig(r) \/ ConfigSaved(r)
    \/ (\E s \in Settings : SetConfig(r, s))
    \/ Upload(r) \/ Refuse(r) \/ Submit(r) \/ (\E n \in 1..3 : Poll(r, n))
    \/ PollFails(r) \/ PollsExpire(r) \/ Fetch(r) \/ FetchFails(r)
    \/ Summarize(r) \/ SummaryFails(r)
    \/ ClearCommand(r) \/ ReadMetadata(r) \/ Truncate(r) \/ Cleared(r) \/ Noted(r)
    \/ LoadHistory(r) \/ Added(r)

Next ==
    \/ \E r \in Runs : Proceed(r) \/ Kill(r)
    \/ \E r \in Runs, n \in 1..3, outcome \in Settled : Settle(r, n, outcome)
    \/ Restart

Spec == Init /\ [][Next]_vars /\ \A r \in Runs : WF_vars(Proceed(r))

-----------------------------------------------------------------------------
(* Properties                                                                *)

\* Each variable holds values of its type.
TypeOK ==
    /\ session \in 1..(MaxRestarts + 1)
    /\ \A r \in Runs :
        /\ pc[r] \in Filing \cup {"start", "ready", "saving", "saved", "submitting", "polling",
                                  "fetching", "summary", "ended"}
        /\ next[r] \in 1..plan[r].rulesets /\ seen[r] \subseteq 1..plan[r].rulesets
        /\ missed[r] \subseteq 1..plan[r].rulesets
        /\ jobs[r] \in Seq(Settled \cup {"running", "gone"})
        /\ exit[r] \in {-1, 0, 1, 130} /\ (exit[r] = -1 <=> pc[r] # "ended")
        /\ sid[r] \in 0..session
        /\ held[r] \in Seq(Entries)
        /\ loaded[r] \in Configs /\ shared[r] \in BOOLEAN
        /\ change[r] \in Settings \cup {"none", "reset"}
    /\ config = Torn \/ config \in Configs
    /\ history = Torn \/ history \in Seq(Entries)
    /\ metadata \in {Torn} \cup (0..session)

\* When no run uses the files, and none has used them beside another or was
\* interrupted in the middle, the history is of one session, the one noted in the
\* metadata: addEntry clears it when the server was restarted or replaced.
HistoryOfOneSession ==
    (~raced /\ \A r \in Runs : ~Busy(r)) =>
        history # Torn /\ \A i \in 1..Len(history) : history[i].session = metadata

\* Under the same conditions the history is the entries added since it was last
\* cleared, newest first, up to the limit: none is lost and no other is there.
EntriesAreKept ==
    (~raced /\ \A r \in Runs : ~Busy(r)) => history = Newest(kept)

\* The history as its files and the runs that use them have it together.
HistoryIsConsistent == TypeOK /\ HistoryOfOneSession /\ EntriesAreKept

\* When no run may write config.json, and none has used it beside another or was
\* interrupted while it wrote, it holds what the user was told: each setting as it
\* was set last, whichever run set it, or the default.  A reset that leaves a port,
\* in the session that set it and made the file, is excepted.
SettingsAreKept ==
    (~mixed /\ \A r \in Runs : ~Writing(r)) =>
        config = wanted \/ (config = Torn /\ wanted = Factory)

\* A run that exits with 0 has seen the job of each of its rulesets settle, and a
\* job that found errors is one of several whose results it could not get in the
\* summary: no order of jobs, results and restarts loses errors it was told of.  Exit
\* 0 is more than the CLI's README makes of it ("no errors"): results that could not
\* be fetched count none, and neither does a job that failed.
ErrorsAreReported ==
    \A r \in Runs : exit[r] = 0 /\ plan[r].command = "lint" =>
        /\ seen[r] = 1..plan[r].rulesets
        /\ \A n \in 1..plan[r].rulesets :
            jobs[r][n] = "erroneous" => ~Single(r) /\ n \in missed[r]

\* Every run ends.
RunsEnd == \A r \in Runs : <>(pc[r] = "ended")
============================================================================
