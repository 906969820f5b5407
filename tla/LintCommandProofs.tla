-------------------------- MODULE LintCommandProofs --------------------------
(***************************************************************************)
(* The exit code of `spectify lint`, and the history and the configuration  *)
(* that runs share, for any number of processes and any plans of what they  *)
(* do, restarts of the server and interruptions.                            *)
(***************************************************************************)
EXTENDS LintCommand, TLAPS, SequenceTheorems

Outcomes == Settled \cup {"running", "gone"}
Before == {"start", "saving", "saved", "ready", "submitting"}
PCs == Before \cup Filing \cup {"polling", "fetching", "summary", "ended"}
Changes == Settings \cup {"none", "reset"}
K(r) == plan[r].rulesets
Lints(r) == plan[r].command = "lint"

\* The types of what decides about the exit code.
TypeInv ==
    /\ plan \in Plans /\ session \in Nat
    /\ pc \in [Runs -> PCs]
    /\ next \in [Runs -> Nat] /\ seen \in [Runs -> SUBSET Nat]
    /\ errors \in [Runs -> BOOLEAN] /\ bad \in [Runs -> BOOLEAN]
    /\ missed \in [Runs -> SUBSET Nat]
    /\ exit \in [Runs -> {-1, 0, 1, 130}]
    /\ sid \in [Runs -> Nat] /\ \A r \in Runs : sid[r] <= session
    /\ jobs \in [Runs -> Seq(Outcomes)]
    /\ change \in [Runs -> Changes]

\* Until all jobs are submitted, none was seen; the next ruleset is that of the next
\* job.
BeginOK(r) ==
    /\ change[r] = "none"
    /\ pc[r] \in Before => /\ seen[r] = {} /\ ~bad[r]
                           /\ next[r] \in 1..K(r) /\ Len(jobs[r]) = next[r] - 1
    /\ pc[r] = "polling" => next[r] = 1 /\ Len(jobs[r]) = K(r) /\ ~bad[r]

\* A job that was seen settled stays as it is, or is lost with the server.
SeenOK(r) ==
    /\ seen[r] \subseteq 1..Len(jobs[r])
    /\ \A n \in seen[r] : jobs[r][n] # "running"

\* After that, a run that has not given up has seen all its jobs settled.
ShowOK(r) ==
    pc[r] \in Filing \cup {"fetching", "summary"} =>
        /\ Len(jobs[r]) = K(r) /\ next[r] \in 1..K(r)
        /\ bad[r] \/ pc[r] = "summary" => K(r) # 1
        /\ bad[r] => pc[r] # "summary"
        /\ ~bad[r] => seen[r] = 1..K(r)

\* A job has errors that it has passed without counting them.
Passed(r, n) == jobs[r][n] = "erroneous" /\ n \notin missed[r]

\* What it has shown without errors has none, but for what it could not get.
ErrorsOK(r) ==
    ~errors[r] =>
        /\ pc[r] \in Filing /\ K(r) = 1 => jobs[r][1] # "erroneous"
        /\ pc[r] = "summary" => \A n \in 1..(next[r] - 1) : ~Passed(r, n)

\* It ends with 0 only then.
EndOK(r) ==
    exit[r] = 0 =>
        /\ Len(jobs[r]) = K(r) /\ seen[r] = 1..K(r)
        /\ \A n \in 1..K(r) : jobs[r][n] = "erroneous" => K(r) # 1 /\ n \in missed[r]

LintOK(r) ==
    /\ exit[r] # -1 => pc[r] = "ended"
    /\ Lints(r) => BeginOK(r) /\ SeenOK(r) /\ ShowOK(r) /\ ErrorsOK(r) /\ EndOK(r)

IInv == TypeInv /\ \A r \in Runs : LintOK(r)

\* A state of one run that is not disturbed.
SameRun(r) ==
    /\ pc'[r] = pc[r] /\ next'[r] = next[r] /\ seen'[r] = seen[r]
    /\ errors'[r] = errors[r] /\ missed'[r] = missed[r]
    /\ bad'[r] = bad[r] /\ exit'[r] = exit[r]
    /\ sid'[r] = sid[r] /\ jobs'[r] = jobs[r] /\ change'[r] = change[r]

USE DEF K, Lints, Passed, PCs, Before, Filing, Settled, Outcomes, Changes

-----------------------------------------------------------------------------

\* A function that is changed in one place.
LEMMA Changed ==
  ASSUME NEW D, NEW f \in [Runs -> D], NEW q \in Runs, NEW x \in D, NEW g, g = [f EXCEPT ![q] = x]
  PROVE  g \in [Runs -> D] /\ g[q] = x /\ \A r \in Runs \ {q} : g[r] = f[r]
OBVIOUS

\* The number of rulesets of a run.
LEMMA PlanType ==
  ASSUME plan \in Plans, NEW r \in Runs PROVE K(r) \in 1..3
BY LintCommandAssumption

\* The initial states satisfy the invariant.
LEMMA InvInit == Init => IInv
<1> SUFFICES ASSUME Init PROVE IInv
  OBVIOUS
<1>1. TypeInv
  <2>1. <<>> \in Seq(Outcomes)
    OBVIOUS
  <2>2. QED BY <2>1 DEF Init, TypeInv
<1>2. ASSUME NEW r \in Runs PROVE LintOK(r)
  <2>1. K(r) \in 1..3
    BY PlanType DEF Init
  <2>2. pc[r] = "start" /\ next[r] = 1 /\ seen[r] = {} /\ bad[r] = FALSE /\ exit[r] = -1
        /\ jobs[r] = <<>> /\ change[r] = "none"
    BY DEF Init
  <2>3. QED BY <2>1, <2>2 DEF LintOK, BeginOK, SeenOK, ShowOK, ErrorsOK, EndOK
<1>3. QED BY <1>1, <1>2 DEF IInv

\* What does not disturb a run keeps what is true of it.
LEMMA RunKept ==
  ASSUME NEW r \in Runs, LintOK(r), SameRun(r), plan' = plan, session' = session
  PROVE  LintOK(r)'
BY DEF LintOK, SameRun, BeginOK, SeenOK, ShowOK, ErrorsOK, EndOK

-----------------------------------------------------------------------------
(* The server                                                                *)

\* A job that settles was not seen settled before.
LEMMA SettleStep ==
  ASSUME IInv, NEW q \in Runs, NEW m \in 1..3, NEW outcome \in Settled, Settle(q, m, outcome)
  PROVE  IInv'
<1>1. /\ m \in 1..Len(jobs[q]) /\ jobs[q][m] = "running"
      /\ jobs' = [jobs EXCEPT ![q] = [jobs[q] EXCEPT ![m] = outcome]]
      /\ session' = session /\ plan' = plan /\ pc' = pc /\ next' = next /\ seen' = seen
      /\ errors' = errors /\ missed' = missed /\ bad' = bad /\ exit' = exit /\ sid' = sid /\ change' = change
  BY DEF Settle, runVars, configVars
<1> DEFINE new == [jobs[q] EXCEPT ![m] = outcome]
<1>2. TypeInv /\ jobs[q] \in Seq(Outcomes)
  BY DEF IInv, TypeInv
<1>3. new \in Seq(Outcomes) /\ Len(new) = Len(jobs[q])
      /\ \A n \in 1..Len(jobs[q]) : n # m => new[n] = jobs[q][n]
  BY <1>1, <1>2
<1> HIDE DEF new
<1>4. jobs' = [jobs EXCEPT ![q] = new]
  BY <1>1 DEF new
<1>5. TypeInv'
  BY <1>1, <1>2, <1>3, <1>4 DEF TypeInv
<1>6. ASSUME NEW r \in Runs PROVE LintOK(r)'
  <2>1. LintOK(r)
    BY DEF IInv
  <2>2. CASE r # q
    <3>1. SameRun(r)
      BY <1>1, <1>2, <1>4, <2>2 DEF SameRun, TypeInv
    <3>2. QED BY <1>1, <2>1, <3>1, RunKept
  <2>3. CASE r = q
    <3>1. jobs'[q] = new
      BY <1>2, <1>4 DEF TypeInv
    <3>2. CASE ~Lints(q)
      BY <1>1, <2>1, <2>3, <3>2 DEF LintOK
    <3>3. CASE Lints(q)
      <4>1. BeginOK(q) /\ SeenOK(q) /\ ShowOK(q) /\ ErrorsOK(q) /\ EndOK(q)
        BY <2>1, <2>3, <3>3 DEF LintOK
      <4>2. m \notin seen[q]
        BY <1>1, <4>1 DEF SeenOK
      <4>3. BeginOK(q)' /\ ShowOK(q)'
        BY <1>1, <1>3, <3>1, <4>1 DEF BeginOK, ShowOK
      <4>4. SeenOK(q)'
        BY <1>1, <1>3, <3>1, <4>1, <4>2 DEF SeenOK
      <4>5. K(q) \in 1..3 /\ next[q] \in Nat
        <5>1. plan \in Plans /\ next[q] \in Nat
          BY <1>2 DEF TypeInv
        <5>2. QED BY <5>1, PlanType
      <4>6. ErrorsOK(q)'
        <5>1. ASSUME ~errors[q], pc[q] \in Filing, K(q) = 1 PROVE new[1] # "erroneous"
          <6>1. 1 \in seen[q] /\ 1 \in 1..Len(jobs[q])
            BY <4>1, <5>1 DEF ShowOK, SeenOK
          <6>2. QED BY <1>3, <4>1, <4>2, <5>1, <6>1 DEF ErrorsOK
        <5>2. ASSUME ~errors[q], pc[q] = "summary", NEW n \in 1..(next[q] - 1)
              PROVE  ~(new[n] = "erroneous" /\ n \notin missed[q])
          <6>1. n \in seen[q] /\ n \in 1..Len(jobs[q])
            BY <4>1, <4>5, <5>2 DEF ShowOK, SeenOK
          <6>2. QED BY <1>3, <4>1, <4>2, <5>2, <6>1 DEF ErrorsOK
        <5>3. QED BY <1>1, <3>1, <5>1, <5>2 DEF ErrorsOK
      <4>7. EndOK(q)'
        BY <1>1, <1>3, <3>1, <4>1, <4>2 DEF EndOK, SeenOK
      <4>8. QED BY <1>1, <2>1, <2>3, <4>3, <4>4, <4>6, <4>7 DEF LintOK
    <3>4. QED BY <3>2, <3>3, <2>3
  <2>4. QED BY <2>2, <2>3
<1>7. QED BY <1>5, <1>6 DEF IInv

\* A restart loses the jobs, and no other changes with it.
LEMMA RestartStep == ASSUME IInv, Restart PROVE IInv'
<1>1. /\ session' = session + 1 /\ plan' = plan /\ pc' = pc /\ next' = next /\ seen' = seen
      /\ errors' = errors /\ missed' = missed /\ bad' = bad /\ exit' = exit /\ sid' = sid /\ change' = change
      /\ jobs' = [r \in Runs |-> [n \in 1..Len(jobs[r]) |-> "gone"]]
  BY DEF Restart, runVars, configVars
<1>2. TypeInv
  BY DEF IInv
<1>3. ASSUME NEW r \in Runs PROVE jobs'[r] \in Seq(Outcomes) /\ Len(jobs'[r]) = Len(jobs[r])
  <2>1. Len(jobs[r]) \in Nat
    BY <1>2 DEF TypeInv
  <2>2. jobs'[r] = [n \in 1..Len(jobs[r]) |-> "gone"]
    BY <1>1
  <2>3. QED BY <2>1, <2>2
<1>4. TypeInv'
  <2>1. jobs' \in [Runs -> Seq(Outcomes)]
    BY <1>1, <1>3
  <2>2. QED BY <1>1, <1>2, <2>1 DEF TypeInv
<1>5. ASSUME NEW r \in Runs PROVE LintOK(r)'
  <2>1. LintOK(r) /\ Len(jobs'[r]) = Len(jobs[r])
    BY <1>3 DEF IInv
  <2>2. \A n \in 1..Len(jobs[r]) : jobs'[r][n] = "gone"
    BY <1>1
  <2>3. Lints(r) => BeginOK(r)' /\ ShowOK(r)'
    BY <1>1, <2>1 DEF LintOK, BeginOK, ShowOK
  <2>4. Lints(r) => SeenOK(r)'
    BY <1>1, <2>1, <2>2 DEF LintOK, SeenOK
  <2>5. Lints(r) => ErrorsOK(r)' /\ EndOK(r)'
    <3>1. ASSUME Lints(r) PROVE K(r) \in 1..3 /\ next[r] \in Nat /\ ErrorsOK(r) /\ EndOK(r) /\ ShowOK(r)
      <4>1. plan \in Plans /\ next \in [Runs -> Nat]
        BY <1>2 DEF TypeInv
      <4>2. QED BY <2>1, <3>1, <4>1, PlanType DEF LintOK
    <3>2. QED BY <1>1, <2>1, <2>2, <3>1 DEF ErrorsOK, EndOK, ShowOK
  <2>6. QED BY <1>1, <2>1, <2>3, <2>4, <2>5 DEF LintOK
<1>6. QED BY <1>4, <1>5 DEF IInv

-----------------------------------------------------------------------------
(* The steps of a run, by what they change                                   *)

\* The run goes from one place to another, or ends.
Goes(q) ==
    /\ pc[q] # "ended"
    /\ \/ \E p \in PCs \ {"ended"} : pc' = [pc EXCEPT ![q] = p] /\ exit' = exit
       \/ \E e \in {0, 1, 130} : /\ pc' = [pc EXCEPT ![q] = "ended"]
                                /\ exit' = [exit EXCEPT ![q] = e]
       \/ pc' = pc /\ exit' = exit

\* A step of config.json.
Configure(q) ==
    \/ LoadConfig(q) \/ WriteDefaults(q) \/ ResetConfig(q) \/ LeaveConfig(q)
    \/ TruncateConfig(q) \/ ConfigSaved(q) \/ \E s \in Settings : SetConfig(q, s)

\* A step of the history files before an entry is added.
File(q) == ClearCommand(q) \/ ReadMetadata(q) \/ Truncate(q) \/ Cleared(q) \/ Noted(q) \/ LoadHistory(q)

\* Steps of config.json change the place of the run, and what it is saving.
LEMMA ConfigureStep ==
  ASSUME IInv, NEW q \in Runs, Configure(q)
  PROVE  /\ UNCHANGED <<plan, session, jobs, next, seen, errors, missed, bad, sid>>
         /\ Goes(q)
         /\ \E c \in Changes : change' = [change EXCEPT ![q] = c] \/ change' = change
         /\ Lints(q) => /\ exit' = exit /\ change'[q] = "none"
                        /\ pc[q] \in Before /\ pc'[q] \in Before \ {"submitting"}
<1> USE DEF restVars
<1>1. pc \in [Runs -> PCs] /\ change \in [Runs -> Changes] /\ (Lints(q) => change[q] = "none")
  BY DEF IInv, TypeInv, LintOK, BeginOK
<1>2. CASE LoadConfig(q) \/ WriteDefaults(q) \/ TruncateConfig(q)
  <2>1. /\ UNCHANGED <<plan, session, jobs, next, seen, errors, missed, bad, sid, change, exit>>
        /\ pc' = [pc EXCEPT ![q] = "saving"] \/ pc' = [pc EXCEPT ![q] = "ready"] \/ pc' = [pc EXCEPT ![q] = "saved"]
        /\ pc[q] \in Before
    BY <1>2 DEF LoadConfig, WriteDefaults, TruncateConfig, Goto
  <2>2. QED BY <1>1, <2>1 DEF Goes
<1>3. CASE ResetConfig(q) \/ \E s \in Settings : SetConfig(q, s)
  <2>1. /\ UNCHANGED <<plan, session, jobs, next, seen, errors, missed, bad, sid, exit>>
        /\ pc' = [pc EXCEPT ![q] = "saving"] /\ ~Lints(q) /\ pc[q] \in {"start", "ready"}
        /\ \E c \in Changes : change' = [change EXCEPT ![q] = c]
    BY <1>3 DEF ResetConfig, SetConfig, Goto
  <2>2. QED BY <1>1, <2>1 DEF Goes
<1>4. CASE LeaveConfig(q)
  <2>1. /\ UNCHANGED <<plan, session, jobs, next, seen, errors, missed, bad, sid, change>>
        /\ pc' = [pc EXCEPT ![q] = "ended"] /\ exit' = [exit EXCEPT ![q] = 0]
        /\ ~Lints(q) /\ pc[q] = "ready"
    BY <1>4 DEF LeaveConfig, End
  <2>2. QED BY <1>1, <2>1 DEF Goes
<1>5. CASE ConfigSaved(q)
  <2>1. /\ UNCHANGED <<plan, session, jobs, next, seen, errors, missed, bad, sid>>
        /\ change' = [change EXCEPT ![q] = "none"] /\ pc[q] = "saved"
        /\ \/ change[q] = "none" /\ pc' = [pc EXCEPT ![q] = "ready"] /\ exit' = exit
           \/ change[q] \in {"reset"} \cup Settings /\ Goes(q)
    BY <1>5 DEF ConfigSaved, Goto, End, Another, Enter, Goes
  <2>2. change[q] = "none" => change[q] \notin {"reset"} \cup Settings
    BY LintCommandAssumption
  <2>3. Goes(q)
    BY <2>1 DEF Goes
  <2>4. QED BY <1>1, <2>1, <2>2, <2>3
<1>6. QED BY <1>2, <1>3, <1>4, <1>5 DEF Configure

\* Steps of the history files change the place of the run.
LEMMA FileStep ==
  ASSUME IInv, NEW q \in Runs, File(q)
  PROVE  /\ UNCHANGED <<plan, session, jobs, next, seen, errors, missed, bad, sid, change>>
         /\ Goes(q)
         /\ Lints(q) => exit' = exit /\ pc[q] \in Filing /\ pc'[q] \in Filing
<1> USE DEF configVars
<1>1. pc \in [Runs -> PCs]
  BY DEF IInv, TypeInv
<1>2. CASE ClearCommand(q)
  <2>1. /\ UNCHANGED <<plan, session, jobs, next, seen, errors, missed, bad, sid, change, exit>>
        /\ pc' = [pc EXCEPT ![q] = "clearing"] /\ ~Lints(q) /\ pc[q] = "start"
    BY <1>2 DEF ClearCommand, Enter, Goto
  <2>2. QED BY <1>1, <2>1 DEF Goes
<1>3. CASE Truncate(q) \/ LoadHistory(q)
  <2>1. /\ UNCHANGED <<plan, session, jobs, next, seen, errors, missed, bad, sid, change, exit>>
        /\ pc[q] \in Filing /\ \E p \in Filing : pc' = [pc EXCEPT ![q] = p]
    BY <1>3 DEF Truncate, LoadHistory, Goto
  <2>2. QED BY <1>1, <2>1 DEF Goes
<1>4. CASE ReadMetadata(q) \/ Cleared(q) \/ Noted(q)
  <2>1. UNCHANGED <<plan, session, jobs, next, seen, errors, missed, bad, sid, change>> /\ pc[q] \in Filing
    BY <1>4 DEF ReadMetadata, Cleared, Noted
  <2>2. \/ exit' = exit /\ \E p \in Filing : pc' = [pc EXCEPT ![q] = p]
        \/ ~Lints(q) /\ Goes(q)
    BY <1>4 DEF ReadMetadata, Cleared, Noted, Goto, End, Another, Goes
  <2>3. Goes(q)
    <3>1. Filing \subseteq PCs \ {"ended"} /\ pc[q] # "ended"
      BY <2>1
    <3>2. QED BY <2>2, <3>1 DEF Goes
  <2>4. QED BY <1>1, <2>1, <2>2, <2>3
<1>5. QED BY <1>2, <1>3, <1>4 DEF File

\* A step of a run leaves the others alone, and keeps the types.
Touches(q) ==
    /\ Goes(q) /\ plan' = plan /\ session' = session
    /\ jobs' \in [Runs -> Seq(Outcomes)] /\ next' \in [Runs -> Nat]
    /\ seen' \in [Runs -> SUBSET Nat]
    /\ errors' \in [Runs -> BOOLEAN] /\ bad' \in [Runs -> BOOLEAN]
    /\ missed' \in [Runs -> SUBSET Nat]
    /\ sid' \in [Runs -> Nat] /\ sid'[q] \in {sid[q], session}
    /\ change' \in [Runs -> Changes]
    /\ \A r \in Runs \ {q} : /\ next'[r] = next[r] /\ seen'[r] = seen[r] /\ errors'[r] = errors[r]
                             /\ missed'[r] = missed[r] /\ bad'[r] = bad[r] /\ sid'[r] = sid[r] /\ jobs'[r] = jobs[r]
                             /\ change'[r] = change[r]

\* What is left to show of such a step is about the run itself.
LEMMA OneRun ==
  ASSUME IInv, NEW q \in Runs, Touches(q),
         Lints(q) => BeginOK(q)' /\ SeenOK(q)' /\ ShowOK(q)' /\ ErrorsOK(q)' /\ EndOK(q)'
  PROVE  IInv'
<1>1. TypeInv /\ \A r \in Runs : LintOK(r)
  BY DEF IInv
<1>p. "ended" \in PCs
  OBVIOUS
<1> HIDE DEF PCs
<1>2. pc' \in [Runs -> PCs] /\ exit' \in [Runs -> {-1, 0, 1, 130}]
  <2>1. pc \in [Runs -> PCs] /\ exit \in [Runs -> {-1, 0, 1, 130}]
    BY <1>1 DEF TypeInv
  <2>2. CASE \E p \in PCs \ {"ended"} : pc' = [pc EXCEPT ![q] = p] /\ exit' = exit
    BY <2>1, <2>2
  <2>3. CASE \E e \in {0, 1, 130} : pc' = [pc EXCEPT ![q] = "ended"] /\ exit' = [exit EXCEPT ![q] = e]
    BY <1>p, <2>1, <2>3
  <2>4. CASE pc' = pc /\ exit' = exit
    BY <2>1, <2>4
  <2>5. QED BY <2>2, <2>3, <2>4 DEF Goes, Touches
<1>3. \A r \in Runs : sid'[r] <= session'
  <2>1. session \in Nat /\ \A r \in Runs : sid[r] <= session
    BY <1>1 DEF TypeInv
  <2>2. session' = session /\ \A r \in Runs : sid'[r] = sid[r] \/ sid'[r] = session
    BY DEF Touches
  <2>3. \A r \in Runs : sid[r] \in Nat
    BY <1>1 DEF TypeInv
  <2>4. QED BY <2>1, <2>2, <2>3
<1>4. TypeInv'
  BY <1>1, <1>2, <1>3 DEF TypeInv, Touches
<1>5. ASSUME NEW r \in Runs, r # q PROVE LintOK(r)'
  <2>1. pc'[r] = pc[r] /\ exit'[r] = exit[r]
    BY <1>1, <1>5 DEF Goes, TypeInv, Touches
  <2>2. SameRun(r)
    BY <1>5, <2>1 DEF SameRun, Touches
  <2>3. plan' = plan /\ session' = session
    BY DEF Touches
  <2>4. QED BY <1>1, <2>2, <2>3, RunKept
<1>6. LintOK(q)'
  <2>1. exit[q] = -1
    BY <1>1 DEF LintOK, Goes, Touches
  <2>2. exit'[q] # -1 => pc'[q] = "ended"
    <3>1. pc \in [Runs -> PCs] /\ exit \in [Runs -> {-1, 0, 1, 130}]
      BY <1>1 DEF TypeInv
    <3>2. CASE \E p \in PCs \ {"ended"} : pc' = [pc EXCEPT ![q] = p] /\ exit' = exit
      <4>1. exit'[q] = -1
        BY <2>1, <3>2
      <4>2. QED BY <4>1
    <3>3. CASE \E e \in {0, 1, 130} : pc' = [pc EXCEPT ![q] = "ended"] /\ exit' = [exit EXCEPT ![q] = e]
      BY <3>1, <3>3
    <3>4. CASE pc' = pc /\ exit' = exit
      BY <2>1, <3>4
    <3>5. Goes(q)
      BY DEF Touches
    <3>6. QED BY <3>2, <3>3, <3>4, <3>5 DEF Goes
  <2>3. plan' = plan
    BY DEF Touches
  <2>4. QED BY <2>2, <2>3 DEF LintOK
<1>7. QED BY <1>4, <1>5, <1>6 DEF IInv

-----------------------------------------------------------------------------
(* The steps that decide about the exit code                                 *)

\* Steps of config.json come before the first job of a lint run.
LEMMA ConfigureKeeps == ASSUME IInv, NEW q \in Runs, Configure(q) PROVE IInv'
<1>1. /\ UNCHANGED <<plan, session, jobs, next, seen, errors, missed, bad, sid>> /\ Goes(q)
      /\ \E c \in Changes : change' = [change EXCEPT ![q] = c] \/ change' = change
      /\ Lints(q) => /\ exit' = exit /\ change'[q] = "none"
                     /\ pc[q] \in Before /\ pc'[q] \in Before \ {"submitting"}
  BY ConfigureStep
<1>2. TypeInv /\ LintOK(q)
  BY DEF IInv
<1>a. change' \in [Runs -> Changes] /\ \A r \in Runs \ {q} : change'[r] = change[r]
  <2> HIDE DEF Changes
  <2>1. PICK c \in Changes : change' = [change EXCEPT ![q] = c] \/ change' = change
    BY <1>1
  <2>2. change \in [Runs -> Changes]
    BY <1>2 DEF TypeInv
  <2>3. QED BY <2>1, <2>2
<1>3. Touches(q)
  BY <1>1, <1>2, <1>a DEF Touches, TypeInv
<1>4. ASSUME Lints(q) PROVE BeginOK(q)' /\ SeenOK(q)' /\ ShowOK(q)' /\ ErrorsOK(q)' /\ EndOK(q)'
  <2>1. BeginOK(q) /\ SeenOK(q) /\ EndOK(q)
    BY <1>2, <1>4 DEF LintOK
  <2>2. BeginOK(q)' /\ SeenOK(q)' /\ EndOK(q)'
    BY <1>1, <1>4, <2>1 DEF BeginOK, SeenOK, EndOK
  <2>3. ShowOK(q)' /\ ErrorsOK(q)'
    BY <1>1, <1>4 DEF ShowOK, ErrorsOK
  <2>4. QED BY <2>2, <2>3
<1>5. QED BY <1>3, <1>4, OneRun

\* Steps of the history files come after what was shown, and go on.
LEMMA FileKeeps == ASSUME IInv, NEW q \in Runs, File(q) PROVE IInv'
<1>1. /\ UNCHANGED <<plan, session, jobs, next, seen, errors, missed, bad, sid, change>> /\ Goes(q)
      /\ Lints(q) => exit' = exit /\ pc[q] \in Filing /\ pc'[q] \in Filing
  BY FileStep
<1>2. TypeInv /\ LintOK(q)
  BY DEF IInv
<1>3. Touches(q)
  BY <1>1, <1>2 DEF Touches, TypeInv
<1>4. ASSUME Lints(q) PROVE BeginOK(q)' /\ SeenOK(q)' /\ ShowOK(q)' /\ ErrorsOK(q)' /\ EndOK(q)'
  <2>1. BeginOK(q) /\ SeenOK(q) /\ ShowOK(q) /\ ErrorsOK(q) /\ EndOK(q)
    BY <1>2, <1>4 DEF LintOK
  <2>2. BeginOK(q)' /\ SeenOK(q)' /\ EndOK(q)'
    BY <1>1, <1>4, <2>1 DEF BeginOK, SeenOK, EndOK
  <2>3. ShowOK(q)' /\ ErrorsOK(q)'
    BY <1>1, <1>4, <2>1 DEF ShowOK, ErrorsOK
  <2>4. QED BY <2>2, <2>3
<1>5. QED BY <1>3, <1>4, OneRun

\* A run that ends with another code than 0 has promised nothing.
GiveUp(q, e) ==
    /\ pc[q] # "ended"
    /\ pc' = [pc EXCEPT ![q] = "ended"] /\ exit' = [exit EXCEPT ![q] = e]
    /\ UNCHANGED <<plan, session, jobs, missed, sid>>
    /\ next' = next \/ next' = [next EXCEPT ![q] = 1]
    /\ seen' = seen \/ seen' = [seen EXCEPT ![q] = {}]
    /\ errors' = errors \/ errors' = [errors EXCEPT ![q] = FALSE]
    /\ bad' = bad \/ bad' = [bad EXCEPT ![q] = FALSE]
    /\ change' = change \/ change' = [change EXCEPT ![q] = "none"]

\* Such a step keeps the invariant.
LEMMA GivesUp == ASSUME IInv, NEW q \in Runs, NEW e \in {1, 130}, GiveUp(q, e) PROVE IInv'
<1>1. TypeInv /\ LintOK(q)
  BY DEF IInv
<1>2. Goes(q)
  BY DEF Goes, GiveUp
<1>3. change' \in [Runs -> Changes] /\ \A r \in Runs \ {q} : change'[r] = change[r]
  <2>1. "none" \in Changes /\ change \in [Runs -> Changes]
    BY <1>1 DEF TypeInv
  <2> HIDE DEF Changes
  <2>2. QED BY <2>1 DEF GiveUp
<1>4. /\ seen' \in [Runs -> SUBSET Nat] /\ \A r \in Runs \ {q} : seen'[r] = seen[r]
      /\ next' \in [Runs -> Nat] /\ \A r \in Runs \ {q} : next'[r] = next[r]
  <2>1. seen \in [Runs -> SUBSET Nat] /\ next \in [Runs -> Nat]
    BY <1>1 DEF TypeInv
  <2>2. seen' \in [Runs -> SUBSET Nat] /\ \A r \in Runs \ {q} : seen'[r] = seen[r]
    BY <2>1 DEF GiveUp
  <2>3. next' \in [Runs -> Nat] /\ \A r \in Runs \ {q} : next'[r] = next[r]
    BY <2>1 DEF GiveUp
  <2>4. QED BY <2>2, <2>3
<1>9. errors' \in [Runs -> BOOLEAN] /\ \A r \in Runs \ {q} : errors'[r] = errors[r]
  <2>1. errors \in [Runs -> BOOLEAN] /\ (errors' = errors \/ errors' = [errors EXCEPT ![q] = FALSE])
    BY <1>1 DEF TypeInv, GiveUp
  <2>2. errors' \in [Runs -> BOOLEAN]
    <3>1. CASE errors' = [errors EXCEPT ![q] = FALSE]
      BY <2>1, <3>1
    <3>2. CASE errors' = errors
      BY <2>1, <3>2
    <3>3. QED BY <2>1, <3>1, <3>2
  <2>3. \A r \in Runs \ {q} : errors'[r] = errors[r]
    BY <2>1
  <2>4. QED BY <2>2, <2>3
<1>10. bad' \in [Runs -> BOOLEAN] /\ \A r \in Runs \ {q} : bad'[r] = bad[r]
  <2>1. bad \in [Runs -> BOOLEAN] /\ (bad' = bad \/ bad' = [bad EXCEPT ![q] = FALSE])
    BY <1>1 DEF TypeInv, GiveUp
  <2>2. bad' \in [Runs -> BOOLEAN]
    <3>1. CASE bad' = [bad EXCEPT ![q] = FALSE]
      BY <2>1, <3>1
    <3>2. CASE bad' = bad
      BY <2>1, <3>2
    <3>3. QED BY <2>1, <3>1, <3>2
  <2>3. \A r \in Runs \ {q} : bad'[r] = bad[r]
    BY <2>1
  <2>4. QED BY <2>2, <2>3
<1>5. Touches(q)
  <2>1. plan' = plan /\ session' = session /\ jobs' = jobs /\ missed' = missed /\ sid' = sid
    BY DEF GiveUp
  <2>2. jobs \in [Runs -> Seq(Outcomes)] /\ missed \in [Runs -> SUBSET Nat] /\ sid \in [Runs -> Nat]
    BY <1>1 DEF TypeInv
  <2> HIDE DEF Changes, Outcomes
  <2>3. QED BY <1>2, <1>3, <1>4, <1>9, <1>10, <2>1, <2>2 DEF Touches
<1>6. pc'[q] = "ended" /\ exit'[q] = e
  BY <1>1 DEF TypeInv, GiveUp
<1>7. ASSUME Lints(q) PROVE BeginOK(q)' /\ SeenOK(q)' /\ ShowOK(q)' /\ ErrorsOK(q)' /\ EndOK(q)'
  <2>1. BeginOK(q) /\ SeenOK(q)
    BY <1>1, <1>7 DEF LintOK
  <2>2. change'[q] = "none"
    BY <1>1, <2>1 DEF BeginOK, TypeInv, GiveUp
  <2>3. seen'[q] = seen[q] \/ seen'[q] = {}
    BY <1>1 DEF TypeInv, GiveUp
  <2>4. BeginOK(q)' /\ ShowOK(q)' /\ ErrorsOK(q)' /\ EndOK(q)'
    BY <1>6, <2>2 DEF BeginOK, ShowOK, ErrorsOK, EndOK, GiveUp
  <2>5. SeenOK(q)'
    BY <2>1, <2>3 DEF SeenOK, GiveUp
  <2>6. QED BY <2>4, <2>5
<1>8. QED BY <1>5, <1>7, OneRun

\* A run that is refused, that does not get the status of its job, or is interrupted
\* gives up.
LEMMA StopKeeps ==
  ASSUME IInv, NEW q \in Runs, Kill(q) \/ Refuse(q) \/ PollFails(q)
  PROVE  IInv'
<1>1. CASE Kill(q)
  <2>1. pc[q] # "ended"
    BY <1>1 DEF Kill, Busy
  <2>2. GiveUp(q, 130)
    BY <1>1, <2>1 DEF Kill, End, GiveUp
  <2>3. QED BY <2>2, GivesUp
<1>2. CASE Refuse(q) \/ PollFails(q)
  <2>1. pc[q] # "ended"
    BY <1>2 DEF Refuse, PollFails, Ready
  <2>2. GiveUp(q, 1)
    BY <1>2, <2>1 DEF Refuse, PollFails, End, GiveUp, configVars
  <2>3. QED BY <2>2, GivesUp
<1>3. QED BY <1>1, <1>2

\* The client notes the session it uploads the document to; no job is there yet.
LEMMA UploadKeeps == ASSUME IInv, NEW q \in Runs, Upload(q) PROVE IInv'
<1>1. /\ UNCHANGED <<plan, session, jobs, next, seen, errors, missed, bad, exit, change>>
      /\ sid' = [sid EXCEPT ![q] = session] /\ pc' = [pc EXCEPT ![q] = "submitting"]
      /\ pc[q] \in Before /\ Lints(q)
  BY DEF Upload, Ready, NoteSession, Goto, configVars
<1>2. TypeInv /\ LintOK(q)
  BY DEF IInv
<1>3. sid' \in [Runs -> Nat] /\ sid'[q] = session /\ (\A r \in Runs \ {q} : sid'[r] = sid[r])
      /\ pc'[q] = "submitting"
  BY <1>1, <1>2 DEF TypeInv
<1>4. Touches(q)
  <2>1. Goes(q)
    BY <1>1 DEF Goes
  <2> HIDE DEF Changes, Outcomes
  <2>2. QED BY <1>1, <1>2, <1>3, <2>1 DEF Touches, TypeInv
<1>5. BeginOK(q) /\ EndOK(q)
  BY <1>1, <1>2 DEF LintOK
<1>6. BeginOK(q)' /\ SeenOK(q)' /\ ShowOK(q)' /\ ErrorsOK(q)' /\ EndOK(q)'
  <2>1. exit[q] # 0
    BY <1>1, <1>2 DEF LintOK
  <2>2. QED BY <1>1, <1>3, <1>5, <2>1 DEF BeginOK, SeenOK, ShowOK, ErrorsOK, EndOK
<1>7. QED BY <1>4, <1>6, OneRun

\* A job is submitted, and was not seen.
LEMMA SubmitKeeps == ASSUME IInv, NEW q \in Runs, Submit(q) PROVE IInv'
<1> DEFINE more == Append(jobs[q], "running")
<1>1. /\ UNCHANGED <<plan, session, seen, errors, missed, bad, exit, change>>
      /\ sid' = [sid EXCEPT ![q] = session] /\ pc[q] = "submitting"
      /\ jobs' = [jobs EXCEPT ![q] = more]
      /\ \/ next[q] < K(q) /\ next' = [next EXCEPT ![q] = next[q] + 1] /\ pc' = pc
         \/ ~(next[q] < K(q)) /\ next' = [next EXCEPT ![q] = 1] /\ pc' = [pc EXCEPT ![q] = "polling"]
  BY DEF Submit, NoteSession, Goto, configVars
<1>2. TypeInv /\ LintOK(q)
  BY DEF IInv
<1>3. /\ jobs[q] \in Seq(Outcomes) /\ next[q] \in Nat
      /\ pc \in [Runs -> PCs] /\ jobs \in [Runs -> Seq(Outcomes)] /\ next \in [Runs -> Nat]
      /\ sid \in [Runs -> Nat] /\ session \in Nat
  BY <1>2 DEF TypeInv
<1>k. K(q) \in 1..3
  BY <1>2, PlanType DEF TypeInv
<1>4. more \in Seq(Outcomes) /\ Len(more) = Len(jobs[q]) + 1
  BY <1>3
<1> HIDE DEF more, Outcomes, Changes
<1>5. jobs' \in [Runs -> Seq(Outcomes)] /\ jobs'[q] = more /\ \A r \in Runs \ {q} : jobs'[r] = jobs[r]
  BY <1>1, <1>3, <1>4
<1>6. sid' \in [Runs -> Nat] /\ sid'[q] = session /\ \A r \in Runs \ {q} : sid'[r] = sid[r]
  BY <1>1, <1>3
<1>7. /\ next' \in [Runs -> Nat] /\ \A r \in Runs \ {q} : next'[r] = next[r]
      /\ \/ next[q] < K(q) /\ next'[q] = next[q] + 1 /\ pc'[q] = "submitting"
         \/ ~(next[q] < K(q)) /\ next'[q] = 1 /\ pc'[q] = "polling"
  <2>p. pc[q] = "submitting"
    BY <1>1
  <2> HIDE DEF PCs
  <2>1. CASE next[q] < K(q) /\ next' = [next EXCEPT ![q] = next[q] + 1] /\ pc' = pc
    BY <1>3, <2>p, <2>1
  <2>2. CASE ~(next[q] < K(q)) /\ next' = [next EXCEPT ![q] = 1] /\ pc' = [pc EXCEPT ![q] = "polling"]
    BY <1>3, <2>2
  <2>3. QED BY <1>1, <2>1, <2>2
<1>8. Touches(q)
  <2>1. Goes(q)
    BY <1>1 DEF Goes
  <2>2. QED BY <1>1, <1>2, <1>5, <1>6, <1>7, <2>1 DEF Touches, TypeInv
<1>9. (Lints(q) => BeginOK(q)) /\ exit[q] # 0
  BY <1>1, <1>2 DEF LintOK
<1>10. Lints(q) => /\ seen[q] = {} /\ ~bad[q] /\ next[q] \in 1..K(q) /\ Len(jobs[q]) = next[q] - 1
                   /\ change[q] = "none"
  BY <1>1, <1>9 DEF BeginOK
<1>11. ASSUME Lints(q) PROVE BeginOK(q)' /\ SeenOK(q)' /\ ShowOK(q)' /\ ErrorsOK(q)' /\ EndOK(q)'
  <2>1. BeginOK(q)'
    BY <1>1, <1>k, <1>4, <1>5, <1>7, <1>10, <1>11 DEF BeginOK
  <2>2. SeenOK(q)' /\ ShowOK(q)' /\ ErrorsOK(q)' /\ EndOK(q)'
    BY <1>1, <1>7, <1>9, <1>10, <1>11 DEF SeenOK, ShowOK, ErrorsOK, EndOK
  <2>3. QED BY <2>1, <2>2
<1>12. QED BY <1>8, <1>11, OneRun

\* A job is seen settled; after the last one the results are fetched.
LEMMA PollKeeps == ASSUME IInv, NEW q \in Runs, NEW m \in 1..3, Poll(q, m) PROVE IInv'
<1>1. /\ UNCHANGED <<plan, session, jobs, next, errors, missed, bad, exit, sid, change>>
      /\ pc[q] = "polling" /\ m \in 1..Len(jobs[q]) /\ jobs[q][m] \in Settled
      /\ seen' = [seen EXCEPT ![q] = seen[q] \cup {m}]
      /\ \/ seen'[q] = 1..K(q) /\ pc' = [pc EXCEPT ![q] = "fetching"]
         \/ pc' = [pc EXCEPT ![q] = "polling"]
  BY DEF Poll, Goto, configVars
<1>2. TypeInv /\ LintOK(q)
  BY DEF IInv
<1>3. seen' \in [Runs -> SUBSET Nat] /\ seen'[q] = seen[q] \cup {m} /\ \A r \in Runs \ {q} : seen'[r] = seen[r]
  BY <1>1, <1>2 DEF TypeInv
<1>4. pc'[q] = "polling" \/ (pc'[q] = "fetching" /\ seen'[q] = 1..K(q))
  BY <1>1, <1>2 DEF TypeInv
<1>5. Touches(q)
  <2>1. Goes(q)
    BY <1>1 DEF Goes
  <2> HIDE DEF Changes, Outcomes
  <2>2. QED BY <1>1, <1>2, <1>3, <2>1 DEF Touches, TypeInv
<1>6. (Lints(q) => BeginOK(q) /\ SeenOK(q)) /\ exit[q] # 0 /\ K(q) \in 1..3
  BY <1>1, <1>2, PlanType DEF LintOK, TypeInv
<1>7. ASSUME Lints(q) PROVE BeginOK(q)' /\ SeenOK(q)' /\ ShowOK(q)' /\ ErrorsOK(q)' /\ EndOK(q)'
  <2>1. BeginOK(q)'
    BY <1>1, <1>4, <1>6, <1>7 DEF BeginOK
  <2>2. SeenOK(q)'
    BY <1>1, <1>3, <1>6, <1>7 DEF SeenOK
  <2>3. ShowOK(q)' /\ ErrorsOK(q)' /\ EndOK(q)'
    BY <1>1, <1>4, <1>6, <1>7 DEF BeginOK, ShowOK, ErrorsOK, EndOK
  <2>4. QED BY <2>1, <2>2, <2>3
<1>8. QED BY <1>5, <1>7, OneRun

\* A run of several rulesets that has waited too long gives up what it has not seen.
LEMMA ExpireKeeps == ASSUME IInv, NEW q \in Runs, PollsExpire(q) PROVE IInv'
<1>1. /\ UNCHANGED <<plan, session, jobs, next, seen, errors, missed, exit, sid, change>>
      /\ pc[q] = "polling" /\ K(q) # 1 /\ bad' = [bad EXCEPT ![q] = TRUE]
      /\ pc' = [pc EXCEPT ![q] = "fetching"]
  BY DEF PollsExpire, Single, Goto, configVars
<1>2. TypeInv /\ LintOK(q)
  BY DEF IInv
<1>b. bad \in [Runs -> BOOLEAN] /\ bad' = [bad EXCEPT ![q] = TRUE]
  BY <1>1, <1>2 DEF TypeInv
<1>c. bad' \in [Runs -> BOOLEAN]
  BY <1>b
<1>d. bad'[q] /\ \A r \in Runs \ {q} : bad'[r] = bad[r]
  BY <1>b
<1>3. pc'[q] = "fetching"
  BY <1>1, <1>2 DEF TypeInv
<1>4. Touches(q)
  <2>1. Goes(q)
    BY <1>1 DEF Goes
  <2> HIDE DEF Changes, Outcomes
  <2>2. QED BY <1>1, <1>2, <1>c, <1>d, <2>1 DEF Touches, TypeInv
<1>5. (Lints(q) => BeginOK(q) /\ SeenOK(q)) /\ exit[q] # 0 /\ K(q) \in 1..3
  BY <1>1, <1>2, PlanType DEF LintOK, TypeInv
<1>6. ASSUME Lints(q) PROVE BeginOK(q)' /\ SeenOK(q)' /\ ShowOK(q)' /\ ErrorsOK(q)' /\ EndOK(q)'
  <2>1. BeginOK(q)' /\ SeenOK(q)'
    BY <1>1, <1>3, <1>5, <1>6 DEF BeginOK, SeenOK
  <2>2. ShowOK(q)'
    BY <1>1, <1>3, <1>5, <1>6, <1>d DEF BeginOK, ShowOK
  <2>3. ErrorsOK(q)' /\ EndOK(q)'
    BY <1>1, <1>3, <1>5, <1>6 DEF ErrorsOK, EndOK
  <2>4. QED BY <2>1, <2>2, <2>3
<1>7. QED BY <1>4, <1>6, OneRun

\* What is shown of the only job of a run decides about its exit code.
LEMMA FetchKeeps == ASSUME IInv, NEW q \in Runs, Fetch(q) PROVE IInv'
<1>1. /\ UNCHANGED <<plan, session, jobs, next, seen, missed, bad, exit, sid, change>>
      /\ pc[q] = "fetching" /\ pc' = [pc EXCEPT ![q] = "reading"]
      /\ errors' = [errors EXCEPT ![q] = (K(q) = 1 /\ jobs[q][1] = "erroneous")]
  BY DEF Fetch, ShownErrors, Single, Enter, Goto, configVars
<1>2. TypeInv /\ LintOK(q)
  BY DEF IInv
<1>e. errors \in [Runs -> BOOLEAN]
  BY <1>2 DEF TypeInv
<1>a. errors' \in [Runs -> BOOLEAN]
  BY <1>1, <1>e
<1>b. \A r \in Runs \ {q} : errors'[r] = errors[r]
  BY <1>1, <1>e
<1>c. errors'[q] <=> K(q) = 1 /\ jobs[q][1] = "erroneous"
  BY <1>1, <1>e
<1>3. pc'[q] = "reading"
  BY <1>1, <1>2 DEF TypeInv
<1>4. Touches(q)
  <2>1. Goes(q)
    BY <1>1 DEF Goes
  <2> HIDE DEF Changes, Outcomes
  <2>2. QED BY <1>1, <1>2, <1>a, <1>b, <2>1 DEF Touches, TypeInv
<1>5. (Lints(q) => BeginOK(q) /\ SeenOK(q) /\ ShowOK(q)) /\ exit[q] # 0
  BY <1>1, <1>2 DEF LintOK
<1>6. ASSUME Lints(q) PROVE BeginOK(q)' /\ SeenOK(q)' /\ ShowOK(q)' /\ ErrorsOK(q)' /\ EndOK(q)'
  <2>1. BeginOK(q)' /\ SeenOK(q)' /\ ShowOK(q)'
    BY <1>1, <1>3, <1>5, <1>6 DEF BeginOK, SeenOK, ShowOK
  <2>2. ErrorsOK(q)'
    BY <1>1, <1>3, <1>c DEF ErrorsOK
  <2>3. EndOK(q)'
    BY <1>1, <1>5 DEF EndOK
  <2>4. QED BY <2>1, <2>2, <2>3
<1>7. QED BY <1>4, <1>6, OneRun

\* A job that is not there ends the run, or is one of several.
LEMMA FetchFailsKeeps == ASSUME IInv, NEW q \in Runs, FetchFails(q) PROVE IInv'
<1>1. /\ UNCHANGED <<plan, session, jobs, next, seen, errors, missed, bad, sid, change>>
      /\ pc[q] = "fetching"
      /\ \/ pc' = [pc EXCEPT ![q] = "ended"] /\ exit' = [exit EXCEPT ![q] = 1]
         \/ /\ K(q) # 1 /\ ~bad[q]
            /\ pc' = [pc EXCEPT ![q] = "reading"] /\ exit' = exit
  BY DEF FetchFails, Single, Enter, Goto, End, configVars
<1>2. CASE pc' = [pc EXCEPT ![q] = "ended"] /\ exit' = [exit EXCEPT ![q] = 1]
  <2>1. GiveUp(q, 1)
    BY <1>1, <1>2 DEF GiveUp
  <2>2. QED BY <2>1, GivesUp
<1>3. CASE K(q) # 1 /\ ~bad[q] /\ pc' = [pc EXCEPT ![q] = "reading"] /\ exit' = exit
  <2>1. TypeInv /\ LintOK(q)
    BY DEF IInv
  <2>2. pc'[q] = "reading"
    BY <1>3, <2>1 DEF TypeInv
  <2>3. Touches(q)
    <3>1. Goes(q)
      BY <1>1, <1>3 DEF Goes
    <3> HIDE DEF Changes, Outcomes
    <3>2. QED BY <1>1, <2>1, <3>1 DEF Touches, TypeInv
  <2>4. ASSUME Lints(q) PROVE BeginOK(q)' /\ SeenOK(q)' /\ ShowOK(q)' /\ ErrorsOK(q)' /\ EndOK(q)'
    <3>1. BeginOK(q) /\ SeenOK(q) /\ ShowOK(q) /\ EndOK(q)
      BY <2>1, <2>4 DEF LintOK
    <3>2. BeginOK(q)' /\ SeenOK(q)' /\ ShowOK(q)'
      BY <1>1, <1>3, <2>2, <3>1 DEF BeginOK, SeenOK, ShowOK
    <3>3. ErrorsOK(q)' /\ EndOK(q)'
      BY <1>1, <1>3, <2>2, <3>1 DEF ErrorsOK, EndOK
    <3>4. QED BY <3>2, <3>3
  <2>5. QED BY <2>3, <2>4, OneRun
<1>4. QED BY <1>1, <1>2, <1>3

\* The summary goes through all results, and its exit code is of all of them.
LEMMA SummarizeKeeps ==
  ASSUME IInv, NEW q \in Runs, Summarize(q) \/ SummaryFails(q)
  PROVE  IInv'
<1>1. /\ UNCHANGED <<plan, session, jobs, seen, bad, sid, change>>
      /\ pc[q] = "summary"
      /\ \/ errors' = [errors EXCEPT ![q] = @ \/ jobs[q][next[q]] = "erroneous"] /\ missed' = missed
         \/ missed' = [missed EXCEPT ![q] = @ \cup {next[q]}] /\ errors' = errors
      /\ \/ next[q] < K(q) /\ next' = [next EXCEPT ![q] = next[q] + 1] /\ pc' = pc /\ exit' = exit
         \/ /\ ~(next[q] < K(q)) /\ next' = next /\ pc' = [pc EXCEPT ![q] = "ended"]
            /\ \/ errors'[q] /\ exit' = [exit EXCEPT ![q] = 1]
               \/ ~errors'[q] /\ exit' = [exit EXCEPT ![q] = 0]
  BY DEF Summarize, SummaryFails, SummaryGoesOn, End, configVars
<1>2. TypeInv /\ LintOK(q)
  BY DEF IInv
<1>e. errors \in [Runs -> BOOLEAN] /\ missed \in [Runs -> SUBSET Nat] /\ next[q] \in Nat
  BY <1>2 DEF TypeInv
<1>a. errors' \in [Runs -> BOOLEAN] /\ missed' \in [Runs -> SUBSET Nat]
  <2>1. CASE errors' = [errors EXCEPT ![q] = @ \/ jobs[q][next[q]] = "erroneous"] /\ missed' = missed
    BY <1>e, <2>1
  <2>2. CASE missed' = [missed EXCEPT ![q] = @ \cup {next[q]}] /\ errors' = errors
    BY <1>e, <2>2
  <2>3. QED BY <1>1, <2>1, <2>2
<1>b. \A r \in Runs \ {q} : errors'[r] = errors[r] /\ missed'[r] = missed[r]
  BY <1>1, <1>e
<1>c. \/ (errors'[q] <=> errors[q] \/ jobs[q][next[q]] = "erroneous") /\ missed'[q] = missed[q]
      \/ (errors'[q] <=> errors[q]) /\ missed'[q] = missed[q] \cup {next[q]}
  <2>1. CASE errors' = [errors EXCEPT ![q] = @ \/ jobs[q][next[q]] = "erroneous"] /\ missed' = missed
    <3>1. errors'[q] = (errors[q] \/ jobs[q][next[q]] = "erroneous") /\ missed'[q] = missed[q]
      BY <1>e, <2>1
    <3>2. QED BY <3>1
  <2>2. CASE missed' = [missed EXCEPT ![q] = @ \cup {next[q]}] /\ errors' = errors
    BY <1>e, <2>2
  <2>3. QED BY <1>1, <2>1, <2>2
<1>3. next \in [Runs -> Nat] /\ pc \in [Runs -> PCs] /\ exit \in [Runs -> {-1, 0, 1, 130}]
  BY <1>2 DEF TypeInv
<1> HIDE DEF PCs, Changes, Outcomes
<1>4. /\ next' \in [Runs -> Nat] /\ (\A r \in Runs \ {q} : next'[r] = next[r])
      /\ \/ next[q] < K(q) /\ next'[q] = next[q] + 1 /\ pc'[q] = "summary" /\ exit' = exit
         \/ /\ ~(next[q] < K(q)) /\ next'[q] = next[q] /\ pc'[q] = "ended"
            /\ exit'[q] = 0 => ~errors'[q]
  BY <1>1, <1>3
<1>5. Touches(q)
  <2>1. Goes(q)
    BY <1>1 DEF Goes
  <2>2. QED BY <1>1, <1>2, <1>4, <1>a, <1>b, <2>1 DEF Touches, TypeInv
<1>6. ASSUME Lints(q) PROVE BeginOK(q)' /\ SeenOK(q)' /\ ShowOK(q)' /\ ErrorsOK(q)' /\ EndOK(q)'
  <2>1. BeginOK(q) /\ SeenOK(q) /\ ShowOK(q) /\ ErrorsOK(q) /\ exit[q] # 0
    BY <1>1, <1>2, <1>6 DEF LintOK
  <2>2. Len(jobs[q]) = K(q) /\ next[q] \in 1..K(q) /\ ~bad[q] /\ seen[q] = 1..K(q)
    BY <1>1, <2>1 DEF ShowOK
  <2>3. K(q) \in 1..3
    BY <1>2, PlanType DEF TypeInv
  <2>4. ~errors'[q] => \A n \in 1..next[q] : jobs[q][n] = "erroneous" => n \in missed'[q]
    BY <1>1, <1>c, <2>1, <2>2, <2>3 DEF ErrorsOK
  <2>k. K(q) # 1
    BY <1>1, <2>1 DEF ShowOK
  <2>5. BeginOK(q)' /\ SeenOK(q)'
    BY <1>1, <1>4, <2>1 DEF BeginOK, SeenOK
  <2>6. ShowOK(q)'
    BY <1>1, <1>4, <2>2, <2>3 DEF ShowOK
  <2>7. ErrorsOK(q)'
    BY <1>1, <1>4, <2>2, <2>3, <2>4 DEF ErrorsOK
  <2>8. EndOK(q)'
    BY <1>1, <1>4, <2>1, <2>2, <2>3, <2>4, <2>k DEF EndOK
  <2>9. QED BY <2>5, <2>6, <2>7, <2>8
<1>7. QED BY <1>5, <1>6, OneRun

\* After the entry of a job comes the next one, the summary or the end.
LEMMA AddedKeeps == ASSUME IInv, NEW q \in Runs, Added(q) PROVE IInv'
<1>1. /\ UNCHANGED <<plan, session, jobs, seen, errors, missed, bad, sid, change>>
      /\ pc[q] = "added"
      /\ \/ /\ next[q] < K(q) /\ next' = [next EXCEPT ![q] = next[q] + 1]
            /\ pc' = [pc EXCEPT ![q] = "fetching"] /\ exit' = exit
         \/ /\ ~(next[q] < K(q)) /\ next' = [next EXCEPT ![q] = 1]
            /\ \/ /\ K(q) = 1 \/ bad[q]
                  /\ pc' = [pc EXCEPT ![q] = "ended"]
                  /\ \/ (errors[q] \/ bad[q]) /\ exit' = [exit EXCEPT ![q] = 1]
                     \/ ~errors[q] /\ ~bad[q] /\ exit' = [exit EXCEPT ![q] = 0]
               \/ /\ K(q) # 1 /\ ~bad[q]
                  /\ pc' = [pc EXCEPT ![q] = "summary"] /\ exit' = exit
  BY DEF Added, End, Goto, Single, configVars
<1>2. TypeInv /\ LintOK(q)
  BY DEF IInv
<1>3. next \in [Runs -> Nat] /\ pc \in [Runs -> PCs] /\ exit \in [Runs -> {-1, 0, 1, 130}]
  BY <1>2 DEF TypeInv
<1> DEFINE Onward == next[q] < K(q) /\ next'[q] = next[q] + 1 /\ pc'[q] = "fetching" /\ exit'[q] = exit[q]
           Over == next'[q] = 1 /\ pc'[q] = "ended" /\ (exit'[q] = 0 => ~errors[q] /\ ~bad[q] /\ K(q) = 1)
           Sums == next'[q] = 1 /\ pc'[q] = "summary" /\ exit'[q] = exit[q] /\ K(q) # 1 /\ ~bad[q]
<1>4. /\ next' \in [Runs -> Nat] /\ (\A r \in Runs \ {q} : next'[r] = next[r])
      /\ Onward \/ Over \/ Sums
  <2> HIDE DEF PCs, Changes, Outcomes
  <2>1. QED BY <1>1, <1>3
<1>5. Touches(q)
  <2>1. Goes(q)
    BY <1>1 DEF Goes
  <2> HIDE DEF PCs, Changes, Outcomes
  <2>2. QED BY <1>1, <1>2, <1>4, <2>1 DEF Touches, TypeInv
<1>6. ASSUME Lints(q) PROVE BeginOK(q)' /\ SeenOK(q)' /\ ShowOK(q)' /\ ErrorsOK(q)' /\ EndOK(q)'
  <2>1. BeginOK(q) /\ SeenOK(q) /\ ShowOK(q) /\ ErrorsOK(q) /\ exit[q] # 0
    BY <1>1, <1>2, <1>6 DEF LintOK
  <2>2. Len(jobs[q]) = K(q) /\ next[q] \in 1..K(q) /\ (bad[q] => K(q) # 1) /\ (~bad[q] => seen[q] = 1..K(q))
    BY <1>1, <2>1 DEF ShowOK
  <2>3. K(q) \in 1..3
    BY <1>2, PlanType DEF TypeInv
  <2>4. ~errors[q] /\ K(q) = 1 => jobs[q][1] # "erroneous"
    BY <1>1, <2>1 DEF ErrorsOK
  <2>5. BeginOK(q)' /\ SeenOK(q)'
    BY <1>1, <1>4, <2>1 DEF BeginOK, SeenOK
  <2>6. ShowOK(q)'
    BY <1>1, <1>4, <2>2, <2>3 DEF ShowOK
  <2>7. ErrorsOK(q)'
    BY <1>1, <1>4 DEF ErrorsOK
  <2>8. EndOK(q)'
    BY <1>1, <1>4, <2>1, <2>2, <2>4 DEF EndOK
  <2>9. QED BY <2>5, <2>6, <2>7, <2>8
<1>7. QED BY <1>5, <1>6, OneRun

-----------------------------------------------------------------------------
(* The exit code                                                             *)

\* Every step keeps the invariant.
LEMMA InvStep == ASSUME IInv, [Next]_vars PROVE IInv'
<1>1. CASE Next
  <2>1. CASE \E r \in Runs : Proceed(r) \/ Kill(r)
    <3>1. PICK r \in Runs : Proceed(r) \/ Kill(r)
      BY <2>1
    <3>2. CASE Configure(r)
      BY <3>2, ConfigureKeeps
    <3>3. CASE File(r)
      BY <3>3, FileKeeps
    <3>4. CASE Kill(r) \/ Refuse(r) \/ PollFails(r)
      BY <3>4, StopKeeps
    <3>5. CASE Upload(r) \/ Submit(r) \/ PollsExpire(r) \/ \E n \in 1..3 : Poll(r, n)
      BY <3>5, UploadKeeps, SubmitKeeps, ExpireKeeps, PollKeeps
    <3>6. CASE Fetch(r) \/ FetchFails(r) \/ Summarize(r) \/ SummaryFails(r) \/ Added(r)
      BY <3>6, FetchKeeps, FetchFailsKeeps, SummarizeKeeps, AddedKeeps
    <3>7. QED BY <3>1, <3>2, <3>3, <3>4, <3>5, <3>6 DEF Proceed, Configure, File
  <2>2. CASE \E r \in Runs, n \in 1..3, outcome \in Settled : Settle(r, n, outcome)
    BY <2>2, SettleStep
  <2>3. CASE Restart
    BY <2>3, RestartStep
  <2>4. QED BY <1>1, <2>1, <2>2, <2>3 DEF Next
<1>2. CASE UNCHANGED vars
  <2>1. UNCHANGED <<plan, session, jobs, pc, next, seen, errors, missed, bad, exit, sid, change>>
    BY <1>2 DEF vars, runVars, configVars
  <2>2. TypeInv'
    <3> HIDE DEF PCs, Changes, Outcomes
    <3>1. QED BY <2>1 DEF IInv, TypeInv
  <2>3. ASSUME NEW r \in Runs PROVE LintOK(r)'
    <3>1. LintOK(r) /\ SameRun(r)
      BY <2>1 DEF IInv, SameRun
    <3>2. QED BY <2>1, <3>1, RunKept
  <2>4. QED BY <2>2, <2>3 DEF IInv
<1>3. QED BY <1>1, <1>2

\* The invariant holds throughout.
LEMMA Invariance == Spec => []IInv
<1>1. IInv /\ [Next]_vars => IInv'
  BY InvStep
<1>2. QED BY InvInit, <1>1, PTL DEF Spec

\* A lint run that exits with 0 has seen all its jobs settle, and one that found
\* errors is one of several whose results it could not get in the summary: whatever is
\* polled, fetched or shown in between, which requests fail, when the polls give up or
\* the server restarts, and for any number of runs beside it.
THEOREM ErrorsCorrect == Spec => []ErrorsAreReported
<1>1. IInv => ErrorsAreReported
  <2> SUFFICES ASSUME IInv, NEW r \in Runs, exit[r] = 0, Lints(r)
               PROVE  /\ seen[r] = 1..K(r)
                      /\ \A n \in 1..K(r) : jobs[r][n] = "erroneous" => K(r) # 1 /\ n \in missed[r]
    BY DEF ErrorsAreReported, Single
  <2>1. EndOK(r)
    BY DEF IInv, LintOK
  <2>2. QED BY <2>1 DEF EndOK
<1>2. QED BY Invariance, <1>1, PTL

-----------------------------------------------------------------------------
(* The files of the home directory                                           *)

Edits(r) == plan[r].command = "config"
Sent == Filing \cup {"submitting", "polling", "fetching", "summary"}

\* Where a run of the other commands may be.
Places(r) ==
    IF Edits(r) THEN {"start", "ready", "saving", "saved", "reading", "clearing", "cleared",
                      "noting", "noted", "ended"}
    ELSE {"start", "clearing", "cleared", "ended"}

\* What a run is at, and has seen, is among its rulesets; one that lints has an
\* answer of the server before it uses the history.
PlaceOK(r) ==
    /\ pc[r] = "ended" => exit[r] # -1
    /\ missed[r] \subseteq 1..K(r)
    /\ Lints(r) => /\ pc[r] = "ended" => next[r] \in 1..K(r) /\ seen[r] \subseteq 1..K(r)
                   /\ pc[r] \in Sent => sid[r] >= 1
    /\ ~Lints(r) => next[r] = 1 /\ seen[r] = {} /\ pc[r] \in Places(r)

\* The types of the files, and of what the runs hold of them.
FileTypes ==
    /\ session \in 1..(MaxRestarts + 1)
    /\ held \in [Runs -> Seq(Entries)]
    /\ history = Torn \/ history \in Seq(Entries)
    /\ kept \in Seq(Entries)
    /\ metadata = Torn \/ metadata \in 0..session
    /\ config = Torn \/ config \in Configs
    /\ loaded \in [Runs -> Configs] /\ shared \in [Runs -> BOOLEAN]
    /\ wanted \in Configs

\* The history is what was kept, of the session the metadata has.
Consistent ==
    /\ history = Newest(kept)
    /\ \A i \in 1..Len(history) : history[i].session = metadata

\* What the run that uses the history has done to it so far.
FilingOK(r) ==
    /\ pc[r] \in {"reading", "loading"} => Consistent
    /\ pc[r] \in {"noting", "noted"} => history = <<>> /\ kept = <<>>
    /\ pc[r] \in {"loading", "adding", "added"} => metadata = sid[r]
    /\ pc[r] \in {"adding", "added"} =>
           /\ held[r] = Newest(<<Entry(r)>> \o kept)
           /\ \A i \in 1..Len(held[r]) : held[r][i].session = sid[r]

\* Unless two runs have used the history at once, at most one does.
HistoryInv ==
    ~raced =>
        /\ \A q, r \in Runs : Busy(q) /\ Busy(r) => q = r
        /\ \A r \in Runs : Busy(r) => FilingOK(r)
        /\ (\A r \in Runs : ~Busy(r)) => Consistent

\* A `lint` run writes the defaults, and only while nothing else was wanted.  A
\* `config` run has the settings the user was told, but for the one it is saving, and
\* no other run writes.
WritingOK(r) ==
    /\ ~Edits(r) => loaded[r] = Factory /\ change[r] = "none"
    /\ Writing(r) /\ ~Edits(r) => wanted = Factory /\ config \in {Torn, Factory}
    /\ Edits(r) /\ pc[r] \notin {"saving", "saved"} => change[r] = "none"
    /\ Edits(r) /\ Writing(r) =>
           /\ \A q \in Runs \ {r} : ~Writing(q)
           /\ pc[r] \notin {"saving", "saved"} => config = wanted /\ loaded[r] = wanted
           /\ pc[r] \in {"saving", "saved"} =>
                  \/ change[r] = "none" /\ loaded[r] = Factory /\ wanted = Factory
                  \/ change[r] = "reset" /\ loaded[r] = Factory
                  \/ change[r] \in Settings /\ loaded[r] = [wanted EXCEPT ![change[r]] = r]

\* Unless two runs have used config.json at once, one of them to write.
ConfigInv == ~mixed => (\A r \in Runs : WritingOK(r)) /\ SettingsAreKept

FilesInv == (\A r \in Runs : PlaceOK(r)) /\ FileTypes /\ HistoryInv /\ ConfigInv

-----------------------------------------------------------------------------
(* The newest entries                                                        *)

\* What is cut off is at the end.
LEMMA NewestOf ==
  ASSUME NEW S, NEW s \in Seq(S)
  PROVE  /\ Newest(s) \in Seq(S)
         /\ Len(Newest(s)) = IF Len(s) < MaxEntries THEN Len(s) ELSE MaxEntries
         /\ \A i \in 1..Len(Newest(s)) : Newest(s)[i] = s[i] /\ i \in 1..Len(s)
<1> DEFINE n == IF Len(s) < MaxEntries THEN Len(s) ELSE MaxEntries
<1>1. Len(s) \in Nat /\ MaxEntries \in Nat \ {0} /\ \A i \in 1..Len(s) : s[i] \in S
  BY LintCommandAssumption, ElementOfSeq, LenProperties
<1>2. n \in Nat /\ n <= Len(s) /\ Newest(s) = SubSeq(s, 1, n)
  BY <1>1 DEF Newest
<1> HIDE DEF n
<1>3. SubSeq(s, 1, n) = [i \in 1..n |-> s[i]]
  BY <1>1, <1>2
<1>4. \A i \in 1..n : i \in 1..Len(s)
  BY <1>1, <1>2
<1>5. Newest(s) \in Seq(S) /\ Len(Newest(s)) = n /\ \A i \in 1..n : Newest(s)[i] = s[i]
  BY <1>1, <1>2, <1>3, <1>4
<1>6. QED BY <1>4, <1>5 DEF n

\* An entry in front of a sequence.
LEMMA InFront ==
  ASSUME NEW S, NEW e \in S, NEW s \in Seq(S)
  PROVE  /\ <<e>> \o s \in Seq(S) /\ Len(<<e>> \o s) = Len(s) + 1
         /\ (<<e>> \o s)[1] = e
         /\ \A i \in 2..(Len(s) + 1) : (<<e>> \o s)[i] = s[i - 1] /\ i - 1 \in 1..Len(s)
<1>1. <<e>> \in Seq(S) /\ Len(<<e>>) = 1 /\ <<e>>[1] = e /\ Len(s) \in Nat
  BY LenProperties
<1>2. <<e>> \o s \in Seq(S) /\ Len(<<e>> \o s) = Len(s) + 1
  BY <1>1, ConcatProperties
<1>3. (<<e>> \o s)[1] = e
  BY <1>1, ConcatProperties
<1>4. ASSUME NEW i \in 2..(Len(s) + 1) PROVE (<<e>> \o s)[i] = s[i - 1] /\ i - 1 \in 1..Len(s)
  <2>1. i \in 1..(Len(<<e>>) + Len(s)) /\ ~(i <= Len(<<e>>)) /\ i - 1 \in 1..Len(s)
    BY <1>1
  <2>2. QED BY <1>1, <2>1, ConcatProperties
<1>5. QED BY <1>2, <1>3, <1>4

\* It does not matter whether the history was cut off before an entry is added.
LEMMA NewestAgain ==
  ASSUME NEW S, NEW e \in S, NEW s \in Seq(S)
  PROVE  Newest(<<e>> \o Newest(s)) = Newest(<<e>> \o s)
<1> DEFINE t == Newest(s)
           a == <<e>> \o t
           b == <<e>> \o s
<1>1. /\ Len(s) \in Nat /\ MaxEntries \in Nat \ {0} /\ t \in Seq(S)
      /\ Len(t) = IF Len(s) < MaxEntries THEN Len(s) ELSE MaxEntries
      /\ \A i \in 1..Len(t) : t[i] = s[i] /\ i \in 1..Len(s)
  BY NewestOf, LenProperties, LintCommandAssumption
<1> HIDE DEF t
<1>2. /\ a \in Seq(S) /\ Len(a) = Len(t) + 1 /\ a[1] = e
      /\ \A i \in 2..(Len(t) + 1) : a[i] = t[i - 1] /\ i - 1 \in 1..Len(t)
  BY <1>1, InFront
<1>3. /\ b \in Seq(S) /\ Len(b) = Len(s) + 1 /\ b[1] = e
      /\ \A i \in 2..(Len(s) + 1) : b[i] = s[i - 1] /\ i - 1 \in 1..Len(s)
  BY <1>1, InFront
<1> HIDE DEF a, b
<1>4. /\ Newest(a) \in Seq(S) /\ Newest(b) \in Seq(S)
      /\ Len(Newest(a)) = IF Len(a) < MaxEntries THEN Len(a) ELSE MaxEntries
      /\ Len(Newest(b)) = IF Len(b) < MaxEntries THEN Len(b) ELSE MaxEntries
      /\ \A i \in 1..Len(Newest(a)) : Newest(a)[i] = a[i] /\ i \in 1..Len(a)
      /\ \A i \in 1..Len(Newest(b)) : Newest(b)[i] = b[i] /\ i \in 1..Len(b)
  BY <1>2, <1>3, NewestOf
<1>5. Len(Newest(a)) = Len(Newest(b)) /\ Len(Newest(a)) \in Nat
  BY <1>1, <1>2, <1>3, <1>4
<1>6. ASSUME NEW i \in 1..Len(Newest(a)) PROVE Newest(a)[i] = Newest(b)[i]
  <2>1. Newest(a)[i] = a[i] /\ Newest(b)[i] = b[i] /\ i \in 1..Len(a) /\ i \in 1..Len(b)
    BY <1>4, <1>5
  <2>2. a[i] = b[i]
    <3>1. CASE i = 1
      BY <1>2, <1>3, <3>1
    <3>2. CASE i # 1
      <4>1. i \in 2..(Len(t) + 1) /\ i \in 2..(Len(s) + 1)
        BY <1>1, <1>2, <1>3, <2>1, <3>2
      <4>2. QED BY <1>1, <1>2, <1>3, <4>1
    <3>3. QED BY <3>1, <3>2
  <2>3. QED BY <2>1, <2>2
<1>7. Newest(a) = Newest(b)
  BY <1>4, <1>5, <1>6, SeqEqual
<1>8. QED BY <1>7 DEF a, b, t

LEMMA NewestNone == Newest(<<>>) = <<>>
<1> DEFINE none == <<>>
<1>1. none \in Seq(Entries) /\ Len(none) = 0 /\ MaxEntries \in Nat \ {0}
  BY LintCommandAssumption
<1> HIDE DEF none
<1>2. /\ Newest(none) \in Seq(Entries)
      /\ Len(Newest(none)) = IF Len(none) < MaxEntries THEN Len(none) ELSE MaxEntries
  BY <1>1, NewestOf
<1>3. Len(Newest(none)) = 0
  BY <1>1, <1>2
<1>4. Newest(none) = none
  BY <1>1, <1>2, <1>3, SeqEqual
<1>5. QED BY <1>4 DEF none

\* An empty history is consistent, whatever session is noted.
LEMMA NothingKept == ASSUME history' = <<>>, kept' = <<>> PROVE Consistent'
<1>1. Len(history') = 0
  OBVIOUS
<1>2. Newest(kept') = <<>>
  BY NewestNone
<1>3. QED BY <1>1, <1>2 DEF Consistent

-----------------------------------------------------------------------------
(* What a step of a run leaves alone                                         *)

\* The other runs, and what is the same for all.
Others(q) ==
    /\ plan' = plan /\ session' = session
    /\ \A r \in Runs \ {q} :
           /\ pc'[r] = pc[r] /\ exit'[r] = exit[r] /\ next'[r] = next[r] /\ seen'[r] = seen[r]
           /\ missed'[r] = missed[r]
           /\ sid'[r] = sid[r] /\ held'[r] = held[r] /\ loaded'[r] = loaded[r]
           /\ shared'[r] = shared[r] /\ change'[r] = change[r]

\* A run changes only what is its own.
LEMMA OthersKept ==
  ASSUME TypeInv, FileTypes, NEW q \in Runs, Proceed(q) \/ Kill(q)
  PROVE  Others(q)
<1> USE DEF Others, Goto, End, Forget, Another, Enter, NoteSession, restVars, configVars
<1>1. /\ pc \in [Runs -> PCs] /\ exit \in [Runs -> {-1, 0, 1, 130}] /\ next \in [Runs -> Nat]
      /\ seen \in [Runs -> SUBSET Nat] /\ missed \in [Runs -> SUBSET Nat]
      /\ sid \in [Runs -> Nat] /\ held \in [Runs -> Seq(Entries)]
      /\ loaded \in [Runs -> Configs] /\ shared \in [Runs -> BOOLEAN]
      /\ change \in [Runs -> Changes]
  BY DEF TypeInv, FileTypes
<1> HIDE DEF PCs, Changes
<1>2. CASE LoadConfig(q) \/ WriteDefaults(q) \/ TruncateConfig(q) \/ LeaveConfig(q)
  BY <1>1, <1>2 DEF LoadConfig, WriteDefaults, TruncateConfig, LeaveConfig
<1>r. CASE ResetConfig(q)
  BY <1>1, <1>r DEF ResetConfig
<1>3. CASE \E s \in Settings : SetConfig(q, s)
  BY <1>1, <1>3 DEF SetConfig, Set
<1>4. CASE ConfigSaved(q)
  BY <1>1, <1>4 DEF ConfigSaved
<1>5. CASE ClearCommand(q) \/ ReadMetadata(q) \/ Truncate(q)
  BY <1>1, <1>5 DEF ClearCommand, ReadMetadata, Truncate
<1>6. CASE Cleared(q) \/ Noted(q) \/ LoadHistory(q)
  BY <1>1, <1>6 DEF Cleared, Noted, LoadHistory
<1>7. CASE Upload(q) \/ Refuse(q) \/ Submit(q)
  BY <1>1, <1>7 DEF Upload, Refuse, Submit
<1>8. CASE (\E n \in 1..3 : Poll(q, n)) \/ PollFails(q) \/ PollsExpire(q)
  BY <1>1, <1>8 DEF Poll, PollFails, PollsExpire
<1>9. CASE Fetch(q) \/ FetchFails(q)
  BY <1>1, <1>9 DEF Fetch, FetchFails
<1>s. CASE Summarize(q) \/ SummaryFails(q)
  BY <1>1, <1>s DEF Summarize, SummaryFails, SummaryGoesOn
<1>10. CASE Added(q)
  BY <1>1, <1>10 DEF Added
<1>11. CASE Kill(q)
  BY <1>1, <1>11 DEF Kill
<1>12. QED
  BY <1>2, <1>r, <1>3, <1>4, <1>5, <1>6, <1>7, <1>8, <1>9, <1>s, <1>10, <1>11 DEF Proceed

-----------------------------------------------------------------------------
(* Where the runs may be                                                     *)

\* A run that has not ended is at one of its rulesets and has seen no other.
LEMMA Within ==
  ASSUME IInv, NEW q \in Runs, PlaceOK(q), pc[q] # "ended" \/ ~Lints(q)
  PROVE  K(q) \in 1..3 /\ next[q] \in 1..K(q) /\ seen[q] \subseteq 1..K(q)
<1>1. TypeInv /\ LintOK(q) /\ pc[q] \in PCs
  BY DEF IInv, TypeInv
<1>2. K(q) \in 1..3
  BY <1>1, PlanType DEF TypeInv
<1>3. CASE ~Lints(q)
  BY <1>2, <1>3 DEF PlaceOK
<1>4. CASE Lints(q) /\ pc[q] # "ended"
  <2>1. BeginOK(q) /\ SeenOK(q) /\ ShowOK(q)
    BY <1>1, <1>4 DEF LintOK
  <2>2. CASE pc[q] \in Before
    BY <1>2, <2>1, <2>2 DEF BeginOK
  <2>3. CASE pc[q] = "polling"
    BY <1>2, <2>1, <2>3 DEF BeginOK, SeenOK
  <2>4. CASE pc[q] \in Filing \cup {"fetching", "summary"}
    BY <1>2, <2>1, <2>4 DEF ShowOK, SeenOK
  <2>5. QED BY <1>1, <1>4, <2>2, <2>3, <2>4
<1>5. QED BY <1>3, <1>4

\* A step that takes a run to where it may be.
Leads(q) ==
    /\ next'[q] \in {next[q], 1} \/ (Lints(q) /\ pc'[q] # "ended")
    /\ seen'[q] \in {seen[q], {}} \/ (Lints(q) /\ pc'[q] # "ended")
    /\ missed'[q] \in {missed[q], missed[q] \cup {next[q]}}
    /\ pc'[q] = "ended" => exit'[q] # -1
    /\ Lints(q) /\ pc'[q] \in Sent => sid'[q] >= 1
    /\ ~Lints(q) => pc'[q] \in Places(q)

LEMMA PlaceKept ==
  ASSUME IInv, NEW q \in Runs, PlaceOK(q), pc[q] # "ended", plan' = plan, Leads(q)
  PROVE  PlaceOK(q)'
<1>1. /\ K(q) \in 1..3 /\ next[q] \in 1..K(q) /\ seen[q] \subseteq 1..K(q)
      /\ missed'[q] \subseteq 1..K(q)
  <2>1. K(q) \in 1..3 /\ next[q] \in 1..K(q) /\ seen[q] \subseteq 1..K(q)
    BY Within
  <2>2. QED BY <2>1 DEF PlaceOK, Leads
<1>2. CASE ~Lints(q)
  BY <1>1, <1>2 DEF PlaceOK, Leads, Places, Edits
<1>3. CASE Lints(q)
  BY <1>1, <1>3 DEF PlaceOK, Leads
<1>4. QED BY <1>2, <1>3

\* Every step does.
LEMMA PlaceStep ==
  ASSUME IInv, FileTypes, NEW q \in Runs, PlaceOK(q), Proceed(q) \/ Kill(q)
  PROVE  pc[q] # "ended" /\ Leads(q)
<1> USE DEF Goto, End, Another, Enter, NoteSession, restVars, configVars
<1>1. /\ pc \in [Runs -> PCs] /\ exit \in [Runs -> {-1, 0, 1, 130}] /\ next \in [Runs -> Nat]
      /\ seen \in [Runs -> SUBSET Nat] /\ missed \in [Runs -> SUBSET Nat] /\ sid \in [Runs -> Nat]
  BY DEF IInv, TypeInv
<1>2. /\ session \in Nat /\ session >= 1
      /\ Lints(q) /\ pc[q] \in Sent => sid[q] >= 1
      /\ ~Lints(q) => pc[q] \in Places(q)
  <2>1. MaxRestarts \in Nat /\ session \in 1..(MaxRestarts + 1)
    BY LintCommandAssumption DEF FileTypes
  <2>2. QED BY <2>1 DEF PlaceOK
<1>a. Lints(q) => change[q] = "none"
  BY DEF IInv, LintOK, BeginOK
<1> HIDE DEF Outcomes, Settled, Changes
<1>3. CASE LoadConfig(q) \/ WriteDefaults(q) \/ TruncateConfig(q) \/ LeaveConfig(q)
  BY <1>1, <1>2, <1>3 DEF Leads, Sent, Places, Edits, LoadConfig, WriteDefaults, TruncateConfig, LeaveConfig
<1>4. CASE ResetConfig(q) \/ \E s \in Settings : SetConfig(q, s)
  BY <1>1, <1>2, <1>4 DEF Leads, Sent, Places, Edits, ResetConfig, SetConfig
<1>5. CASE ConfigSaved(q)
  <2>1. /\ UNCHANGED <<plan, session, next, seen, missed, sid>> /\ pc[q] = "saved"
        /\ \/ change[q] = "none" /\ pc' = [pc EXCEPT ![q] = "ready"]
           \/ change[q] \in {"reset"} \cup Settings
    BY <1>5 DEF ConfigSaved
  <2>2. change[q] = "none" => change[q] \notin {"reset"} \cup Settings
    BY LintCommandAssumption
  <2>3. pc'[q] \in {"ready", "reading", "ended"} /\ (pc'[q] = "ended" => exit'[q] # -1)
    BY <1>1, <1>5 DEF ConfigSaved
  <2>4. Lints(q) => pc'[q] = "ready"
    BY <1>1, <1>a, <2>1, <2>2
  <2>5. QED BY <1>1, <1>2, <2>1, <2>3, <2>4 DEF Leads, Sent, Places, Edits
<1>6. CASE ClearCommand(q) \/ ReadMetadata(q) \/ Truncate(q)
  BY <1>1, <1>2, <1>6 DEF Leads, Sent, Places, Edits, ClearCommand, ReadMetadata, Truncate, SameServer
<1>7. CASE Cleared(q) \/ Noted(q) \/ LoadHistory(q)
  <2>1. CASE Cleared(q)
    <3>1. plan[q].command \in {"lint", "clear", "config"}
      BY LintCommandAssumption DEF IInv, TypeInv
    <3>2. QED BY <1>1, <1>2, <2>1, <3>1 DEF Leads, Sent, Places, Edits, Cleared
  <2>2. CASE Noted(q)
    BY <1>1, <1>2, <2>2 DEF Leads, Sent, Places, Edits, Noted
  <2>3. CASE LoadHistory(q)
    BY <1>1, <1>2, <2>3 DEF Leads, Sent, Places, Edits, LoadHistory
  <2>4. QED BY <1>7, <2>1, <2>2, <2>3
<1>8. CASE Upload(q) \/ Refuse(q) \/ Submit(q)
  BY <1>1, <1>2, <1>8 DEF Leads, Sent, Places, Edits, Upload, Refuse, Submit, Ready
<1>9. CASE (\E n \in 1..3 : Poll(q, n)) \/ PollFails(q) \/ PollsExpire(q)
  BY <1>1, <1>2, <1>9 DEF Leads, Sent, Places, Edits, Poll, PollFails, PollsExpire
<1>10. CASE Fetch(q) \/ FetchFails(q)
  BY <1>1, <1>2, <1>10 DEF Leads, Sent, Places, Edits, Fetch, FetchFails
<1>s. CASE Summarize(q) \/ SummaryFails(q)
  BY <1>1, <1>2, <1>s DEF Leads, Sent, Places, Edits, Summarize, SummaryFails, SummaryGoesOn
<1>11. CASE Added(q)
  BY <1>1, <1>2, <1>11 DEF Leads, Sent, Places, Edits, Added
<1>12. CASE Kill(q)
  BY <1>1, <1>2, <1>12 DEF Leads, Sent, Places, Edits, Kill, Busy
<1>13. QED
  BY <1>3, <1>4, <1>5, <1>6, <1>7, <1>8, <1>9, <1>10, <1>s, <1>11, <1>12 DEF Proceed

-----------------------------------------------------------------------------
(* What the files hold                                                       *)

\* What a run that lints would add.
LEMMA EntryType ==
  ASSUME IInv, FileTypes, NEW q \in Runs, PlaceOK(q), pc[q] \in {"loading", "adding", "added"}
  PROVE  Entry(q) \in Entries /\ Entry(q).session = sid[q]
<1>1. Lints(q) /\ sid[q] >= 1
  BY DEF PlaceOK, Places, Sent
<1>2. next[q] \in 1..3
  <2>1. K(q) \in 1..3 /\ next[q] \in 1..K(q)
    BY Within
  <2>2. QED BY <2>1
<1>3. sid[q] \in 1..(MaxRestarts + 1)
  <2>1. sid[q] \in Nat /\ sid[q] <= session /\ session \in 1..(MaxRestarts + 1) /\ MaxRestarts \in Nat
    BY LintCommandAssumption DEF IInv, TypeInv, FileTypes
  <2>2. QED BY <1>1, <2>1
<1>4. <<q, next[q]>> \in Jobs
  BY <1>2 DEF Jobs
<1>5. QED BY <1>3, <1>4 DEF Entry, Entries

\* The types of the files are kept by the steps that write them.
LEMMA FileTypesStep ==
  ASSUME IInv, FileTypes, NEW q \in Runs, PlaceOK(q), Proceed(q) \/ Kill(q)
  PROVE  FileTypes'
<1> USE DEF Goto, End, Another, Enter, Forget, NoteSession, restVars, configVars
<1>1. TypeInv /\ sid[q] \in Nat /\ sid[q] <= session /\ session \in Nat
  BY DEF IInv, TypeInv
<1>2. Factory \in Configs /\ <<>> \in Seq(Entries)
  BY DEF Factory, Configs
<1>3. UNCHANGED <<history, kept, metadata, held, session>>
          \/ ReadMetadata(q) \/ Truncate(q) \/ Cleared(q) \/ Noted(q) \/ LoadHistory(q) \/ Added(q)
          \/ Kill(q)
  BY DEF Proceed, LoadConfig, WriteDefaults, TruncateConfig, LeaveConfig, ResetConfig, SetConfig,
         ConfigSaved, ClearCommand, Upload, Refuse, Submit, Poll, PollFails, PollsExpire, Fetch,
         FetchFails, Summarize, SummaryFails, SummaryGoesOn
<1>4. UNCHANGED <<config, loaded, shared, wanted>>
          \/ LoadConfig(q) \/ TruncateConfig(q) \/ LeaveConfig(q) \/ ResetConfig(q)
          \/ (\E s \in Settings : SetConfig(q, s)) \/ ConfigSaved(q)
          \/ ReadMetadata(q) \/ Noted(q) \/ Kill(q)
  BY DEF Proceed, WriteDefaults, ClearCommand, Upload, Refuse, Submit, Poll, PollFails, PollsExpire,
         Fetch, FetchFails, Summarize, SummaryFails, SummaryGoesOn, Truncate, Cleared, LoadHistory, Added
<1>h. /\ history = Torn \/ history \in Seq(Entries)
      /\ kept \in Seq(Entries) /\ held \in [Runs -> Seq(Entries)]
      /\ metadata = Torn \/ metadata \in 0..session
  BY DEF FileTypes
<1>c. /\ config = Torn \/ config \in Configs
      /\ loaded \in [Runs -> Configs] /\ shared \in [Runs -> BOOLEAN] /\ wanted \in Configs
  BY DEF FileTypes
<1>5. session' = session
  BY <1>1, OthersKept DEF Others
<1>6. /\ history' = Torn \/ history' \in Seq(Entries)
      /\ kept' \in Seq(Entries) /\ held' \in [Runs -> Seq(Entries)]
      /\ metadata' = Torn \/ metadata' \in 0..session
  <2>1. CASE UNCHANGED <<history, kept, metadata, held, session>>
    BY <1>h, <2>1
  <2>2. CASE ReadMetadata(q) \/ Truncate(q)
    BY <1>h, <2>2 DEF ReadMetadata, Truncate
  <2>3. CASE Cleared(q)
    BY <1>2, <1>h, <2>3 DEF Cleared
  <2>4. CASE Noted(q)
    <3>1. /\ UNCHANGED <<history, kept, held>> /\ metadata' = sid[q]
      BY <2>4 DEF Noted
    <3>2. QED BY <1>1, <1>h, <3>1
  <2>5. CASE LoadHistory(q)
    <3>1. /\ UNCHANGED <<history, kept, metadata>> /\ pc[q] = "loading"
          /\ held' = [held EXCEPT ![q] = Newest(<<Entry(q)>> \o Parsed(history))]
      BY <2>5 DEF LoadHistory
    <3>2. Entry(q) \in Entries /\ Parsed(history) \in Seq(Entries)
      BY <1>2, <1>h, <3>1, EntryType DEF Parsed
    <3>3. <<Entry(q)>> \o Parsed(history) \in Seq(Entries)
      BY <3>2, InFront
    <3>4. Newest(<<Entry(q)>> \o Parsed(history)) \in Seq(Entries)
      BY <3>3, NewestOf
    <3>5. QED BY <1>h, <3>1, <3>4
  <2>6. CASE Added(q)
    <3>1. /\ history' = held[q] /\ held' = [held EXCEPT ![q] = <<>>] /\ metadata' = metadata
          /\ kept' = <<Entry(q)>> \o kept /\ pc[q] = "added"
      BY <2>6 DEF Added
    <3>2. Entry(q) \in Entries
      BY <3>1, EntryType
    <3>3. <<Entry(q)>> \o kept \in Seq(Entries)
      BY <1>h, <3>2, InFront
    <3>4. QED BY <1>2, <1>h, <3>1, <3>3
  <2>7. CASE Kill(q)
    <3>1. UNCHANGED <<history, kept, metadata>> /\ held' = [held EXCEPT ![q] = <<>>]
      BY <2>7 DEF Kill
    <3>2. QED BY <1>2, <1>h, <3>1
  <2>8. QED BY <1>3, <2>1, <2>2, <2>3, <2>4, <2>5, <2>6, <2>7
<1>7. /\ config' = Torn \/ config' \in Configs
      /\ loaded' \in [Runs -> Configs] /\ shared' \in [Runs -> BOOLEAN] /\ wanted' \in Configs
  <2>1. CASE UNCHANGED <<config, loaded, shared, wanted>>
    BY <1>c, <2>1
  <2>2. CASE LoadConfig(q)
    <3>1. /\ UNCHANGED <<config, wanted>>
          /\ loaded' = [loaded EXCEPT ![q] = IF config = Torn THEN Factory ELSE config]
          /\ shared' = [shared EXCEPT ![q] = config = Torn]
      BY <2>2 DEF LoadConfig
    <3>2. (IF config = Torn THEN Factory ELSE config) \in Configs
      BY <1>2, <1>c
    <3>3. loaded' \in [Runs -> Configs]
      BY <1>c, <3>1, <3>2
    <3>4. shared' \in [Runs -> BOOLEAN]
      BY <1>c, <3>1
    <3>5. QED BY <1>c, <3>1, <3>3, <3>4
  <2>3. CASE TruncateConfig(q)
    BY <1>c, <2>3 DEF TruncateConfig
  <2>4. CASE ResetConfig(q)
    <3>1. UNCHANGED <<config, shared, wanted>> /\ loaded' = [loaded EXCEPT ![q] = Defaults(q)]
      BY <2>4 DEF ResetConfig
    <3>2. Defaults(q) \in Configs
      BY <1>c DEF Defaults, Configs
    <3>3. QED BY <1>c, <3>1, <3>2
  <2>5. CASE \E s \in Settings : SetConfig(q, s)
    <3>1. PICK s \in Settings : SetConfig(q, s)
      BY <2>5
    <3>2. UNCHANGED <<config, shared, wanted>> /\ loaded' = [loaded EXCEPT ![q] = [loaded[q] EXCEPT ![s] = q]]
      BY <3>1 DEF SetConfig, Set
    <3>3. [loaded[q] EXCEPT ![s] = q] \in Configs
      BY <1>c DEF Configs
    <3>4. QED BY <1>c, <3>2, <3>3
  <2> DEFINE Left == \/ UNCHANGED <<loaded, shared>>
                     \/ loaded' = [loaded EXCEPT ![q] = Factory] /\ shared' = [shared EXCEPT ![q] = FALSE]
  <2>6. ASSUME Left PROVE loaded' \in [Runs -> Configs] /\ shared' \in [Runs -> BOOLEAN]
    <3>1. CASE UNCHANGED <<loaded, shared>>
      BY <1>c, <3>1
    <3>2. CASE loaded' = [loaded EXCEPT ![q] = Factory] /\ shared' = [shared EXCEPT ![q] = FALSE]
      <4>1. loaded' \in [Runs -> Configs]
        BY <1>2, <1>c, <3>2
      <4>2. shared' \in [Runs -> BOOLEAN]
        BY <1>c, <3>2
      <4>3. QED BY <4>1, <4>2
    <3>3. QED BY <2>6, <3>1, <3>2
  <2>7. CASE LeaveConfig(q) \/ ReadMetadata(q) \/ Noted(q) \/ Kill(q)
    <3>1. Left /\ config' = config /\ wanted' = wanted
      BY <2>7 DEF LeaveConfig, ReadMetadata, Noted, Kill
    <3> HIDE DEF Left
    <3>2. QED BY <1>c, <2>6, <3>1
  <2>8. CASE ConfigSaved(q)
    <3>1. Left /\ config' = loaded[q]
      BY <2>8 DEF ConfigSaved
    <3>2. wanted' = wanted \/ wanted' = Factory
              \/ \E s \in Settings : wanted' = [wanted EXCEPT ![s] = q]
      BY <2>8 DEF ConfigSaved
    <3>3. \A s \in Settings : [wanted EXCEPT ![s] = q] \in Configs
      BY <1>c DEF Configs
    <3>4. wanted' \in Configs
      BY <1>2, <1>c, <3>2, <3>3
    <3> HIDE DEF Left
    <3>5. QED BY <1>c, <2>6, <3>1, <3>4
  <2> HIDE DEF Left
  <2>9. QED BY <1>4, <2>1, <2>2, <2>3, <2>4, <2>5, <2>7, <2>8
<1>8. QED BY <1>5, <1>6, <1>7 DEF FileTypes

-----------------------------------------------------------------------------
(* The history                                                               *)

\* What HistoryInv says while no two runs have used the history at once.
OneAtOnce ==
    /\ \A q, r \in Runs : Busy(q) /\ Busy(r) => q = r
    /\ \A r \in Runs : Busy(r) => FilingOK(r)
    /\ (\A r \in Runs : ~Busy(r)) => Consistent

\* A step of a run that does not use the history.
LEMMA OutsideKeeps ==
  ASSUME OneAtOnce, NEW q \in Runs, Others(q), ~Busy(q), ~Busy(q)',
         UNCHANGED <<history, metadata, kept>>
  PROVE  OneAtOnce'
<1>1. \A r \in Runs \ {q} : (Busy(r)' <=> Busy(r)) /\ Entry(r)' = Entry(r)
  BY DEF Others, Busy, Entry
<1>2. Consistent' <=> Consistent
  BY DEF Consistent, Newest
<1>3. ASSUME NEW r \in Runs, Busy(r)' PROVE FilingOK(r)'
  <2>1. r # q /\ Busy(r) /\ FilingOK(r)
    BY <1>1, <1>3 DEF OneAtOnce
  <2>2. pc'[r] = pc[r] /\ held'[r] = held[r] /\ sid'[r] = sid[r] /\ Entry(r)' = Entry(r)
    BY <1>1, <2>1 DEF Others
  <2>3. QED BY <1>2, <2>1, <2>2 DEF FilingOK, Newest
<1>4. QED BY <1>1, <1>2, <1>3 DEF OneAtOnce

\* One that enters it while no other does.
LEMMA EnterKeeps ==
  ASSUME OneAtOnce, NEW q \in Runs, Others(q), ~Busy(q), pc'[q] \in {"reading", "clearing"},
         \A r \in Runs \ {q} : ~Busy(r), UNCHANGED <<history, metadata, kept>>
  PROVE  OneAtOnce'
<1>1. \A r \in Runs \ {q} : ~Busy(r)'
  BY DEF Others, Busy
<1>2. Consistent'
  BY DEF OneAtOnce, Consistent, Newest
<1>3. Busy(q)' /\ FilingOK(q)'
  BY <1>2 DEF Busy, FilingOK
<1>4. QED BY <1>1, <1>3 DEF OneAtOnce

\* One of the run that uses it.
LEMMA InsideKeeps ==
  ASSUME OneAtOnce, NEW q \in Runs, Others(q), Busy(q),
         Busy(q)' => FilingOK(q)', ~Busy(q)' => Consistent'
  PROVE  OneAtOnce'
<1>1. \A r \in Runs \ {q} : ~Busy(r)
  BY DEF OneAtOnce
<1>2. \A r \in Runs \ {q} : ~Busy(r)'
  BY <1>1 DEF Others, Busy
<1>3. QED BY <1>2 DEF OneAtOnce

\* The new history is that of the session whose entry is in front.
LEMMA FrontSession ==
  ASSUME NEW e \in Entries, NEW h \in Seq(Entries), NEW m, e.session = m,
         \A i \in 1..Len(h) : h[i].session = m
  PROVE  LET a == Newest(<<e>> \o h) IN \A i \in 1..Len(a) : a[i].session = m
<1> DEFINE b == <<e>> \o h
<1>1. /\ b \in Seq(Entries) /\ Len(b) = Len(h) + 1 /\ b[1] = e /\ Len(h) \in Nat
      /\ \A i \in 2..(Len(h) + 1) : b[i] = h[i - 1] /\ i - 1 \in 1..Len(h)
  BY InFront, LenProperties
<1> HIDE DEF b
<1>2. \A i \in 1..Len(b) : b[i].session = m
  <2> SUFFICES ASSUME NEW i \in 1..Len(b) PROVE b[i].session = m
    OBVIOUS
  <2>1. CASE i = 1
    BY <1>1, <2>1
  <2>2. CASE i # 1
    <3>1. i \in 2..(Len(h) + 1)
      BY <1>1, <2>2
    <3>2. QED BY <1>1, <3>1
  <2>3. QED BY <2>1, <2>2
<1>3. \A i \in 1..Len(Newest(b)) : Newest(b)[i] = b[i] /\ i \in 1..Len(b)
  BY <1>1, NewestOf
<1>4. \A i \in 1..Len(Newest(b)) : Newest(b)[i].session = m
  BY <1>2, <1>3
<1>5. QED BY <1>4 DEF b

\* The steps of the run that uses the history.
LEMMA FilingStep ==
  ASSUME IInv, FileTypes, NEW q \in Runs, PlaceOK(q), Others(q), Busy(q), FilingOK(q),
         File(q) \/ Added(q)
  PROVE  (Busy(q)' => FilingOK(q)') /\ (~Busy(q)' => Consistent')
<1> USE DEF Goto, End, Another, configVars
<1>1. pc \in [Runs -> PCs] /\ kept \in Seq(Entries) /\ held \in [Runs -> Seq(Entries)]
  BY DEF IInv, TypeInv, FileTypes
<1>2. CASE ClearCommand(q)
  BY <1>2 DEF ClearCommand, Busy
<1>3. CASE ReadMetadata(q)
  <2>1. /\ UNCHANGED <<history, metadata, kept, held, sid>> /\ pc[q] = "reading"
        /\ pc'[q] \in {"loading", "clearing", "ready", "ended"}
        /\ pc'[q] = "loading" => metadata = sid[q]
    BY <1>1, <1>3 DEF ReadMetadata, SameServer
  <2>2. Consistent'
    BY <2>1 DEF FilingOK, Consistent, Newest
  <2>3. QED BY <2>1, <2>2 DEF Busy, FilingOK
<1>4. CASE Truncate(q)
  <2>1. CASE pc[q] \in {"clearing", "noting"}
    <3>1. /\ pc'[q] \in {"cleared", "noted"} /\ kept' = kept
          /\ pc'[q] = "noted" => pc[q] = "noting" /\ history' = history
      BY <1>1, <1>4, <2>1 DEF Truncate
    <3>2. QED BY <3>1 DEF Busy, FilingOK
  <2>2. CASE pc[q] = "adding"
    <3>1. pc'[q] = "added" /\ UNCHANGED <<kept, held, metadata, sid, next>>
      BY <1>1, <1>4, <2>2 DEF Truncate
    <3>2. QED BY <2>2, <3>1 DEF Busy, FilingOK, Entry, Newest
  <2>3. QED BY <1>4, <2>1, <2>2 DEF Truncate
<1>5. CASE Cleared(q)
  <2>1. history' = <<>> /\ kept' = <<>> /\ metadata' = metadata /\ pc'[q] \in {"ended", "noting"}
    BY <1>1, <1>5 DEF Cleared
  <2>2. Consistent'
    BY <2>1, NothingKept
  <2>3. QED BY <2>1, <2>2 DEF Busy, FilingOK
<1>6. CASE Noted(q)
  <2>1. /\ history' = history /\ kept' = kept /\ metadata' = sid[q] /\ sid' = sid /\ pc[q] = "noted"
        /\ pc'[q] \in {"ended", "ready", "loading"}
    BY <1>1, <1>6 DEF Noted
  <2>2. history' = <<>> /\ kept' = <<>>
    BY <2>1 DEF FilingOK
  <2>3. Consistent'
    BY <2>2, NothingKept
  <2>4. QED BY <2>1, <2>3 DEF Busy, FilingOK
<1>7. CASE LoadHistory(q)
  <2>1. /\ UNCHANGED <<metadata, kept, sid, next>> /\ pc[q] = "loading" /\ pc'[q] = "adding"
        /\ held'[q] = Newest(<<Entry(q)>> \o Parsed(history))
    BY <1>1, <1>7 DEF LoadHistory
  <2>2. metadata = sid[q] /\ history = Newest(kept) /\ \A i \in 1..Len(history) : history[i].session = metadata
    BY <2>1 DEF FilingOK, Consistent
  <2>3. history \in Seq(Entries) /\ Parsed(history) = history
    BY <1>1, <2>2, NewestOf, LintCommandAssumption DEF Parsed
  <2>4. Entry(q) \in Entries /\ Entry(q).session = sid[q]
    BY <2>1, EntryType
  <2>5. held'[q] = Newest(<<Entry(q)>> \o kept)
    BY <1>1, <2>1, <2>2, <2>3, <2>4, NewestAgain
  <2>6. \A i \in 1..Len(held'[q]) : held'[q][i].session = sid[q]
    BY <2>1, <2>2, <2>3, <2>4, FrontSession
  <2>7. QED BY <2>1, <2>2, <2>5, <2>6 DEF Busy, FilingOK, Entry, Newest
<1>8. CASE Added(q)
  <2>1. /\ history' = held[q] /\ kept' = <<Entry(q)>> \o kept /\ metadata' = metadata /\ pc[q] = "added"
        /\ pc'[q] \in {"fetching", "ended", "summary"}
    BY <1>1, <1>8 DEF Added
  <2>2. metadata = sid[q] /\ held[q] = Newest(<<Entry(q)>> \o kept)
        /\ \A i \in 1..Len(held[q]) : held[q][i].session = sid[q]
    BY <2>1 DEF FilingOK
  <2>3. Consistent'
    BY <2>1, <2>2 DEF Consistent, Newest
  <2>4. QED BY <2>1, <2>3 DEF Busy
<1>9. QED BY <1>2, <1>3, <1>4, <1>5, <1>6, <1>7, <1>8 DEF File

\* Every step of a run.
LEMMA HistoryStep ==
  ASSUME IInv, FileTypes, HistoryInv, NEW q \in Runs, PlaceOK(q), Others(q), Proceed(q) \/ Kill(q)
  PROVE  HistoryInv'
<1> USE DEF Goto, End, Another, restVars, configVars
<1>1. pc \in [Runs -> PCs]
  BY DEF IInv, TypeInv
<1> SUFFICES ASSUME ~raced' PROVE OneAtOnce'
  BY DEF HistoryInv, OneAtOnce
<1>2. CASE Kill(q)
  <2>1. ~Busy(q) /\ ~Busy(q)' /\ UNCHANGED <<history, metadata, kept>> /\ ~raced
    BY <1>1, <1>2 DEF Kill, Busy
  <2>2. QED BY <2>1, OutsideKeeps DEF HistoryInv, OneAtOnce
<1>3. CASE (File(q) /\ ~ClearCommand(q)) \/ Added(q)
  <2>1. Busy(q) /\ ~raced
    BY <1>3 DEF File, ReadMetadata, Truncate, Cleared, Noted, LoadHistory, Added, Busy
  <2>2. OneAtOnce /\ FilingOK(q)
    BY <2>1 DEF HistoryInv, OneAtOnce
  <2>3. (Busy(q)' => FilingOK(q)') /\ (~Busy(q)' => Consistent')
    BY <1>3, <2>1, <2>2, FilingStep
  <2>4. QED BY <2>1, <2>2, <2>3, InsideKeeps
<1>4. ASSUME ~Busy(q), pc'[q] \in {"reading", "clearing"}, UNCHANGED <<history, metadata, kept>>,
             raced' = (raced \/ \E r \in Runs \ {q} : Busy(r))
      PROVE  OneAtOnce'
  <2>1. ~raced /\ \A r \in Runs \ {q} : ~Busy(r)
    BY <1>4
  <2>2. QED BY <1>4, <2>1, EnterKeeps DEF HistoryInv, OneAtOnce
<1>5. ASSUME ~Busy(q), ~Busy(q)', UNCHANGED <<history, metadata, kept, raced>> PROVE OneAtOnce'
  BY <1>5, OutsideKeeps DEF HistoryInv, OneAtOnce
<1>6. CASE ClearCommand(q) \/ Fetch(q)
  <2>1. /\ ~Busy(q) /\ pc'[q] \in {"reading", "clearing"} /\ UNCHANGED <<history, metadata, kept>>
        /\ raced' = (raced \/ \E r \in Runs \ {q} : Busy(r))
    BY <1>1, <1>6 DEF ClearCommand, Fetch, Enter, Busy
  <2>2. QED BY <1>4, <2>1
<1>7. CASE FetchFails(q) \/ ConfigSaved(q)
  <2>1. /\ ~Busy(q) /\ UNCHANGED <<history, metadata, kept>>
        /\ \/ pc'[q] = "reading" /\ raced' = (raced \/ \E r \in Runs \ {q} : Busy(r))
           \/ pc'[q] \in {"ended", "ready"} /\ raced' = raced
    BY <1>1, <1>7 DEF FetchFails, ConfigSaved, Enter, Busy
  <2>2. pc'[q] \in {"ended", "ready"} => ~Busy(q)'
    BY DEF Busy
  <2>3. QED BY <1>4, <1>5, <2>1, <2>2
<1>8. CASE LoadConfig(q) \/ WriteDefaults(q) \/ TruncateConfig(q) \/ LeaveConfig(q)
  <2>1. ~Busy(q) /\ ~Busy(q)' /\ UNCHANGED <<history, metadata, kept, raced>>
    BY <1>1, <1>8 DEF LoadConfig, WriteDefaults, TruncateConfig, LeaveConfig, Busy
  <2>2. QED BY <1>5, <2>1
<1>9. CASE ResetConfig(q) \/ \E s \in Settings : SetConfig(q, s)
  <2>1. ~Busy(q) /\ ~Busy(q)' /\ UNCHANGED <<history, metadata, kept, raced>>
    BY <1>1, <1>9 DEF ResetConfig, SetConfig, Busy
  <2>2. QED BY <1>5, <2>1
<1>10. CASE Upload(q) \/ Refuse(q) \/ Submit(q)
  <2>1. ~Busy(q) /\ ~Busy(q)' /\ UNCHANGED <<history, metadata, kept, raced>>
    BY <1>1, <1>10 DEF Upload, Refuse, Submit, Ready, Busy
  <2>2. QED BY <1>5, <2>1
<1>s. CASE Summarize(q) \/ SummaryFails(q)
  <2>1. ~Busy(q) /\ ~Busy(q)' /\ UNCHANGED <<history, metadata, kept, raced>>
    BY <1>1, <1>s DEF Summarize, SummaryFails, SummaryGoesOn, Busy
  <2>2. QED BY <1>5, <2>1
<1>11. CASE (\E n \in 1..3 : Poll(q, n)) \/ PollFails(q) \/ PollsExpire(q)
  <2>1. ~Busy(q) /\ ~Busy(q)' /\ UNCHANGED <<history, metadata, kept, raced>>
    BY <1>1, <1>11 DEF Poll, PollFails, PollsExpire, Busy
  <2>2. QED BY <1>5, <2>1
<1>12. QED
  BY <1>2, <1>3, <1>6, <1>7, <1>8, <1>9, <1>10, <1>s, <1>11 DEF Proceed, File

-----------------------------------------------------------------------------
(* The settings                                                              *)

\* config.json is what the user was told.
AsTold == config = wanted \/ (config = Torn /\ wanted = Factory)

\* What WritingOK says of a `config` run but that it is the only one.
EditOK(r) ==
    /\ pc[r] \notin {"saving", "saved"} => change[r] = "none"
    /\ Writing(r) =>
           /\ pc[r] \notin {"saving", "saved"} => config = wanted /\ loaded[r] = wanted
           /\ pc[r] \in {"saving", "saved"} =>
                  \/ change[r] = "none" /\ loaded[r] = Factory /\ wanted = Factory
                  \/ change[r] = "reset" /\ loaded[r] = Factory
                  \/ change[r] \in Settings /\ loaded[r] = [wanted EXCEPT ![change[r]] = r]

\* What ConfigInv says while no two runs have used config.json at once.
OneEdits ==
    /\ \A r \in Runs : WritingOK(r)
    /\ (\A r \in Runs : ~Writing(r)) => AsTold

\* A run whose place and config are the same writes as before.
LEMMA SameWriting ==
  ASSUME NEW r, plan' = plan, pc'[r] = pc[r]
  PROVE  (Writing(r)' <=> Writing(r)) /\ (Edits(r)' <=> Edits(r))
BY DEF Writing, Edits

\* A step of a run that writes config.json neither before it nor after it.
LEMMA AsideKeeps ==
  ASSUME OneEdits, NEW q \in Runs, Others(q), UNCHANGED <<config, wanted>>,
         pc[q] \notin {"saving", "saved"}, pc'[q] \notin {"saving", "saved"},
         change'[q] \in {change[q], "none"}, Edits(q) => pc[q] \notin {"start", "ended"},
         loaded'[q] = loaded[q] \/ (loaded'[q] = Factory /\ (pc'[q] = "ended" \/ ~Edits(q)))
  PROVE  OneEdits'
<1>1. \A r \in Runs \ {q} : (Writing(r)' <=> Writing(r)) /\ (Edits(r)' <=> Edits(r))
  BY SameWriting DEF Others
<1>2. (Writing(q)' => Writing(q)) /\ (Edits(q)' <=> Edits(q)) /\ (Writing(q) => Edits(q))
  BY DEF Writing, Edits, Others
<1>3. ASSUME NEW r \in Runs, r # q PROVE WritingOK(r)'
  <2>1. WritingOK(r) /\ pc'[r] = pc[r] /\ loaded'[r] = loaded[r] /\ change'[r] = change[r]
    BY <1>3 DEF OneEdits, Others
  <2>2. QED BY <1>1, <1>2, <1>3, <2>1 DEF WritingOK, Factory
<1>4. WritingOK(q)'
  <2>1. WritingOK(q)
    BY DEF OneEdits
  <2>2. Writing(q)' => pc'[q] # "ended" /\ Edits(q)
    BY DEF Writing, Edits, Others
  <2>3. QED BY <1>1, <1>2, <2>1, <2>2 DEF WritingOK, Factory
<1>5. ASSUME \A r \in Runs : ~Writing(r)' PROVE AsTold'
  <2>1. AsTold
    <3>1. CASE Writing(q)
      <4>1. Edits(q) /\ WritingOK(q)
        BY <1>2, <3>1 DEF OneEdits
      <4>2. QED BY <3>1, <4>1 DEF WritingOK, AsTold
    <3>2. CASE ~Writing(q)
      <4>1. \A r \in Runs : ~Writing(r)
        BY <1>1, <1>5, <3>2
      <4>2. QED BY <4>1 DEF OneEdits
    <3>3. QED BY <3>1, <3>2
  <2>2. QED BY <2>1 DEF AsTold, Factory
<1>6. QED BY <1>3, <1>4, <1>5 DEF OneEdits

\* A step of the `config` run that is the only one to write, or becomes it.
LEMMA EditKeeps ==
  ASSUME OneEdits, NEW q \in Runs, Others(q), Edits(q), \A r \in Runs \ {q} : ~Writing(r),
         EditOK(q)', ~Writing(q)' => AsTold'
  PROVE  OneEdits'
<1>1. \A r \in Runs \ {q} : ~Writing(r)' /\ (Edits(r)' <=> Edits(r))
  BY SameWriting DEF Others
<1>2. Edits(q)'
  BY DEF Edits, Others
<1>3. ASSUME NEW r \in Runs, r # q PROVE WritingOK(r)'
  <2>1. WritingOK(r) /\ pc'[r] = pc[r] /\ loaded'[r] = loaded[r] /\ change'[r] = change[r]
    BY <1>3 DEF OneEdits, Others
  <2>2. QED BY <1>1, <1>3, <2>1 DEF WritingOK, Factory
<1>4. WritingOK(q)'
  BY <1>1, <1>2 DEF WritingOK, EditOK
<1>5. QED BY <1>1, <1>3, <1>4 DEF OneEdits

\* A step of a `lint` run that writes the defaults, or begins to.
LEMMA DefaultsKeep ==
  ASSUME OneEdits, NEW q \in Runs, Others(q), ~Edits(q),
         \A r \in Runs \ {q} : Writing(r) => ~Edits(r),
         wanted = Factory, wanted' = wanted, config' \in {Torn, Factory},
         loaded'[q] = Factory, change'[q] = "none"
  PROVE  OneEdits'
<1>1. \A r \in Runs \ {q} : (Writing(r)' <=> Writing(r)) /\ (Edits(r)' <=> Edits(r))
  BY SameWriting DEF Others
<1>2. ~Edits(q)'
  BY DEF Edits, Others
<1>3. ASSUME NEW r \in Runs, r # q PROVE WritingOK(r)'
  <2>1. WritingOK(r) /\ pc'[r] = pc[r] /\ loaded'[r] = loaded[r] /\ change'[r] = change[r]
    BY <1>3 DEF OneEdits, Others
  <2>2. Writing(r)' => ~Edits(r)'
    BY <1>1, <1>3
  <2>3. QED BY <1>1, <1>3, <2>1, <2>2 DEF WritingOK, Factory
<1>4. WritingOK(q)' /\ AsTold'
  BY <1>2 DEF WritingOK, AsTold, Factory
<1>5. QED BY <1>3, <1>4 DEF OneEdits

\* Only one `config` run writes.
LEMMA Alone ==
  ASSUME OneEdits, NEW q \in Runs, Writing(q)
  PROVE  /\ Edits(q) => \A r \in Runs \ {q} : ~Writing(r)
         /\ ~Edits(q) => \A r \in Runs \ {q} : Writing(r) => ~Edits(r)
<1>1. \A r \in Runs : WritingOK(r)
  BY DEF OneEdits
<1>2. QED BY <1>1 DEF WritingOK

\* The steps of config.json.
LEMMA ConfigureConfig ==
  ASSUME IInv, FileTypes, OneEdits, NEW q \in Runs, PlaceOK(q), Others(q), Configure(q), ~mixed'
  PROVE  OneEdits'
<1> USE DEF Goto, End, Another, Forget, restVars
<1>1. /\ pc \in [Runs -> PCs] /\ loaded \in [Runs -> Configs] /\ change \in [Runs -> Changes]
      /\ wanted \in Configs /\ (config = Torn \/ config \in Configs) /\ Torn \notin Configs
  BY LintCommandAssumption DEF IInv, TypeInv, FileTypes
<1>2. WritingOK(q)
  BY DEF OneEdits
<1>3. {"none", "reset"} \cap Settings = {}
  BY LintCommandAssumption
<1>4. CASE LoadConfig(q)
  <2>1. /\ Edits(q) /\ pc[q] = "start" /\ UNCHANGED <<config, wanted, change>>
        /\ loaded'[q] = IF config = Torn THEN Factory ELSE config
        /\ pc'[q] = IF config = Torn THEN "saving" ELSE "ready"
        /\ \A r \in Runs \ {q} : ~Writing(r)
    BY <1>1, <1>4 DEF LoadConfig, Edits
  <2>2. ~Writing(q) /\ change[q] = "none"
    BY <1>2, <2>1 DEF Writing, WritingOK, Edits
  <2>3. AsTold
    BY <2>1, <2>2 DEF OneEdits
  <2>4. Writing(q)'
    BY <2>1 DEF Writing, Edits, Others
  <2>5. EditOK(q)'
    <3>1. CASE config = Torn
      <4>1. wanted = Factory
        BY <1>1, <2>3, <3>1 DEF AsTold
      <4>2. QED BY <2>1, <2>2, <3>1, <4>1 DEF EditOK, Factory
    <3>2. CASE config # Torn
      <4>1. config = wanted
        BY <2>3, <3>2 DEF AsTold
      <4>2. QED BY <2>1, <2>2, <3>2, <4>1 DEF EditOK
    <3>3. QED BY <3>1, <3>2
  <2>6. QED BY <2>1, <2>4, <2>5, EditKeeps
<1>5. CASE WriteDefaults(q)
  <2>1. /\ ~Edits(q) /\ pc[q] = "start" /\ config = Torn /\ UNCHANGED <<config, wanted, change, loaded>>
        /\ \A r \in Runs \ {q} : Writing(r) => ~Edits(r)
    BY <1>5 DEF WriteDefaults, Edits
  <2>2. wanted = Factory
    <3>1. CASE \E r \in Runs \ {q} : Writing(r)
      <4>1. PICK r \in Runs : Writing(r) /\ ~Edits(r)
        BY <2>1, <3>1
      <4>2. WritingOK(r)
        BY DEF OneEdits
      <4>3. QED BY <4>1, <4>2 DEF WritingOK
    <3>2. CASE \A r \in Runs \ {q} : ~Writing(r)
      <4>1. ~Writing(q)
        BY <2>1 DEF Writing, Edits
      <4>2. AsTold
        BY <3>2, <4>1 DEF OneEdits
      <4>3. QED BY <1>1, <2>1, <4>2 DEF AsTold
    <3>3. QED BY <3>1, <3>2
  <2>3. loaded'[q] = Factory /\ change'[q] = "none"
    BY <1>2, <2>1 DEF WritingOK
  <2>4. QED BY <2>1, <2>2, <2>3, DefaultsKeep
<1>6. CASE \E s \in Settings : SetConfig(q, s)
  <2>1. PICK s \in Settings : SetConfig(q, s)
    BY <1>6
  <2>2. /\ Edits(q) /\ pc[q] = "ready" /\ UNCHANGED <<config, wanted>>
        /\ loaded'[q] = [loaded[q] EXCEPT ![s] = q] /\ change'[q] = s /\ pc'[q] = "saving"
    BY <1>1, <2>1 DEF SetConfig, Set, Edits
  <2>3. Writing(q) /\ Writing(q)'
    BY <2>2 DEF Writing, Edits, Others
  <2>4. loaded[q] = wanted
    BY <1>2, <2>2, <2>3 DEF WritingOK
  <2>5. EditOK(q)'
    BY <2>2, <2>4 DEF EditOK
  <2>6. QED BY <2>2, <2>3, <2>5, Alone, EditKeeps
<1>7. CASE ResetConfig(q)
  <2>1. /\ Edits(q) /\ UNCHANGED <<config, wanted>>
        /\ loaded'[q] = Factory /\ change'[q] = "reset" /\ pc'[q] = "saving"
        /\ \/ pc[q] = "ready"
           \/ pc[q] = "start" /\ \A r \in Runs \ {q} : ~Writing(r)
    BY <1>1, <1>7 DEF ResetConfig, Edits
  <2>2. Writing(q)' /\ (pc[q] = "ready" => Writing(q))
    BY <2>1 DEF Writing, Edits, Others
  <2>3. \A r \in Runs \ {q} : ~Writing(r)
    BY <2>1, <2>2, Alone
  <2>4. EditOK(q)'
    BY <2>1 DEF EditOK, Factory
  <2>5. QED BY <2>1, <2>2, <2>3, <2>4, EditKeeps
<1>8. CASE LeaveConfig(q)
  <2>1. /\ Edits(q) /\ pc[q] = "ready" /\ pc'[q] = "ended" /\ UNCHANGED <<config, wanted, change>>
        /\ loaded'[q] = Factory
    BY <1>1, <1>8 DEF LeaveConfig, Edits
  <2>2. QED BY <2>1, AsideKeeps
<1>9. CASE TruncateConfig(q)
  <2>1. /\ pc[q] = "saving" /\ pc'[q] = "saved" /\ config' = Torn
        /\ UNCHANGED <<wanted, change, loaded>>
    BY <1>1, <1>9 DEF TruncateConfig
  <2>2. Writing(q) /\ Writing(q)'
    BY <2>1 DEF Writing
  <2>3. CASE Edits(q)
    <3>1. EditOK(q)'
      BY <1>2, <2>1, <2>2, <2>3 DEF WritingOK, EditOK, Factory
    <3>2. QED BY <2>2, <2>3, <3>1, Alone, EditKeeps
  <2>4. CASE ~Edits(q)
    <3>1. wanted = Factory /\ loaded'[q] = Factory /\ change'[q] = "none"
      BY <1>2, <2>1, <2>2, <2>4 DEF WritingOK
    <3>2. QED BY <2>1, <2>2, <2>4, <3>1, Alone, DefaultsKeep
  <2>5. QED BY <2>3, <2>4
<1>10. CASE ConfigSaved(q)
  <2>1. pc[q] = "saved" /\ config' = loaded[q] /\ change'[q] = "none"
    BY <1>1, <1>10 DEF ConfigSaved
  <2>2. Writing(q)
    BY <2>1 DEF Writing
  <2>3. CASE Edits(q)
    <3>1. \/ change[q] = "none" /\ loaded[q] = Factory /\ wanted = Factory
          \/ change[q] = "reset" /\ loaded[q] = Factory
          \/ change[q] \in Settings /\ loaded[q] = [wanted EXCEPT ![change[q]] = q]
      BY <1>2, <2>1, <2>2, <2>3 DEF WritingOK
    <3>2. \/ change[q] = "none" /\ wanted' = wanted
          \/ change[q] = "reset" /\ wanted' = Factory
          \/ change[q] \in Settings /\ wanted' = [wanted EXCEPT ![change[q]] = q]
      BY <1>10 DEF ConfigSaved
    <3>3. config' = wanted' /\ loaded[q] = wanted'
      BY <1>3, <2>1, <3>1, <3>2
    <3>4. /\ pc'[q] \in {"ready", "reading", "ended"}
          /\ pc'[q] # "ended" => loaded'[q] = loaded[q]
      BY <1>1, <1>10 DEF ConfigSaved, Enter
    <3>5. Writing(q)' => pc'[q] # "ended"
      BY <3>4 DEF Writing
    <3>6. EditOK(q)' /\ AsTold'
      BY <2>1, <3>3, <3>4, <3>5 DEF EditOK, AsTold
    <3>7. QED BY <2>2, <2>3, <3>6, Alone, EditKeeps
  <2>4. CASE ~Edits(q)
    <3>1. wanted = Factory /\ loaded[q] = Factory /\ change[q] = "none"
      BY <1>2, <2>2, <2>4 DEF WritingOK
    <3>2. loaded' = loaded /\ wanted' = wanted
      BY <1>3, <1>10, <3>1 DEF ConfigSaved
    <3>3. QED BY <2>1, <2>2, <2>4, <3>1, <3>2, Alone, DefaultsKeep
  <2>5. QED BY <2>3, <2>4
<1>11. QED BY <1>4, <1>5, <1>6, <1>7, <1>8, <1>9, <1>10 DEF Configure

\* Every step of a run.
LEMMA ConfigStep ==
  ASSUME IInv, FileTypes, ConfigInv, NEW q \in Runs, PlaceOK(q), Others(q), Proceed(q) \/ Kill(q)
  PROVE  ConfigInv'
<1> USE DEF Goto, End, Another, Forget, restVars, configVars
<1>1. /\ pc \in [Runs -> PCs] /\ loaded \in [Runs -> Configs] /\ change \in [Runs -> Changes]
      /\ plan[q].command \in {"lint", "clear", "config"}
  BY LintCommandAssumption DEF IInv, TypeInv, FileTypes
<1>2. ~Lints(q) => pc[q] \in Places(q)
  BY DEF PlaceOK
<1>3. OneEdits' => ConfigInv'
  BY DEF OneEdits, ConfigInv, SettingsAreKept, AsTold
<1>4. ~mixed => OneEdits
  BY DEF OneEdits, ConfigInv, SettingsAreKept, AsTold
<1> SUFFICES ASSUME ~mixed' PROVE OneEdits'
  BY <1>3 DEF ConfigInv
<1>5. CASE Configure(q)
  <2>1. ~mixed
    BY <1>5 DEF Configure, LoadConfig, WriteDefaults, ResetConfig, LeaveConfig, TruncateConfig,
                ConfigSaved, SetConfig
  <2>2. QED BY <1>4, <1>5, <2>1, ConfigureConfig
<1>6. ASSUME UNCHANGED <<config, wanted, mixed>>, pc[q] \notin {"saving", "saved"},
             pc'[q] \notin {"saving", "saved"}, change' = change,
             Edits(q) => pc[q] \notin {"start", "ended"},
             loaded'[q] = loaded[q] \/ (loaded'[q] = Factory /\ (pc'[q] = "ended" \/ ~Edits(q)))
      PROVE  OneEdits'
  BY <1>4, <1>6, AsideKeeps
<1>7. CASE ClearCommand(q) \/ Truncate(q) \/ Cleared(q) \/ LoadHistory(q) \/ Added(q)
  <2>1. /\ UNCHANGED <<config, wanted, mixed, change, loaded>>
        /\ pc[q] \notin {"saving", "saved"} /\ pc'[q] \notin {"saving", "saved"}
        /\ Edits(q) => pc[q] \notin {"start", "ended"}
    BY <1>1, <1>7 DEF ClearCommand, Truncate, Cleared, LoadHistory, Added, Enter, Edits
  <2>2. QED BY <1>6, <2>1
<1>8. CASE ReadMetadata(q) \/ Noted(q)
  <2>1. /\ UNCHANGED <<config, wanted, mixed, change>>
        /\ pc[q] \notin {"saving", "saved", "start", "ended"} /\ pc'[q] \notin {"saving", "saved"}
        /\ loaded' = loaded \/ (loaded'[q] = Factory /\ pc'[q] = "ended")
    BY <1>1, <1>8 DEF ReadMetadata, Noted
  <2>2. QED BY <1>6, <2>1
<1>9. CASE Upload(q) \/ Refuse(q) \/ Submit(q)
  <2>1. /\ UNCHANGED <<config, wanted, mixed, change, loaded>>
        /\ pc[q] \notin {"saving", "saved"} /\ pc'[q] \notin {"saving", "saved"}
        /\ Edits(q) => pc[q] \notin {"start", "ended"}
    BY <1>1, <1>2, <1>9 DEF Upload, Refuse, Submit, Ready, Places, Edits
  <2>2. QED BY <1>6, <2>1
<1>s. CASE Summarize(q) \/ SummaryFails(q)
  <2>1. /\ UNCHANGED <<config, wanted, mixed, change, loaded>>
        /\ pc[q] \notin {"saving", "saved"} /\ pc'[q] \notin {"saving", "saved"}
        /\ Edits(q) => pc[q] \notin {"start", "ended"}
    BY <1>1, <1>s DEF Summarize, SummaryFails, SummaryGoesOn, Edits
  <2>2. QED BY <1>6, <2>1
<1>10. CASE (\E n \in 1..3 : Poll(q, n)) \/ PollFails(q) \/ PollsExpire(q)
  <2>1. /\ UNCHANGED <<config, wanted, mixed, change, loaded>>
        /\ pc[q] \notin {"saving", "saved"} /\ pc'[q] \notin {"saving", "saved"}
        /\ Edits(q) => pc[q] \notin {"start", "ended"}
    BY <1>1, <1>10 DEF Poll, PollFails, PollsExpire, Edits
  <2>2. QED BY <1>6, <2>1
<1>11. CASE Fetch(q) \/ FetchFails(q)
  <2>1. /\ UNCHANGED <<config, wanted, mixed, change, loaded>>
        /\ pc[q] \notin {"saving", "saved"} /\ pc'[q] \notin {"saving", "saved"}
        /\ Edits(q) => pc[q] \notin {"start", "ended"}
    BY <1>1, <1>11 DEF Fetch, FetchFails, Enter, Edits
  <2>2. QED BY <1>6, <2>1
<1>12. CASE Kill(q)
  <2>1. /\ UNCHANGED <<config, wanted, plan>> /\ pc'[q] = "ended" /\ loaded'[q] = Factory
        /\ change'[q] = "none"
        /\ pc[q] = "saved" => ~Edits(q)
        /\ Busy(q) \/ pc[q] = "saved"
    BY <1>1, <1>12 DEF Kill, Edits
  <2>2. ~mixed
    BY <1>12 DEF Kill
  <2>3. CASE Busy(q)
    <3>1. pc[q] \notin {"saving", "saved", "start", "ended"}
      BY <2>3 DEF Busy
    <3>2. QED BY <1>4, <2>1, <2>2, <3>1, AsideKeeps
  <2>4. CASE pc[q] = "saved"
    <3>1. ~Edits(q) /\ Writing(q) /\ OneEdits
      BY <1>4, <2>1, <2>2, <2>4 DEF Writing
    <3>2. wanted = Factory /\ config \in {Torn, Factory}
      BY <3>1 DEF OneEdits, WritingOK
    <3>3. QED BY <2>1, <3>1, <3>2, Alone, DefaultsKeep
  <2>5. QED BY <2>1, <2>3, <2>4
<1>13. QED
  BY <1>5, <1>7, <1>8, <1>9, <1>s, <1>10, <1>11, <1>12 DEF Proceed, Configure

-----------------------------------------------------------------------------
(* The files throughout                                                      *)

LEMMA FilesInit == Init => FilesInv
<1> SUFFICES ASSUME Init PROVE FilesInv
  OBVIOUS
<1>1. Factory \in Configs /\ <<>> \in Seq(Entries) /\ Len(<<>>) = 0 /\ MaxRestarts \in Nat
  BY LintCommandAssumption DEF Factory, Configs
<1>2. FileTypes
  <2>1. session = 1 /\ metadata = 0 /\ 1 \in 1..(MaxRestarts + 1) /\ 0 \in 0..1
    BY <1>1 DEF Init
  <2>2. held \in [Runs -> Seq(Entries)] /\ loaded \in [Runs -> Configs] /\ shared \in [Runs -> BOOLEAN]
    BY <1>1 DEF Init
  <2>3. QED BY <1>1, <2>1, <2>2 DEF Init, FileTypes
<1>3. ASSUME NEW r \in Runs PROVE PlaceOK(r)
  <2>1. pc[r] = "start" /\ next[r] = 1 /\ seen[r] = {} /\ missed[r] = {}
    BY DEF Init
  <2>2. QED BY <2>1 DEF PlaceOK, Places, Sent
<1>4. HistoryInv
  <2>1. \A r \in Runs : ~Busy(r)
    BY DEF Init, Busy
  <2>2. history = <<>> /\ kept = <<>>
    BY DEF Init
  <2>3. Consistent
    BY <1>1, <2>2, NewestNone DEF Consistent
  <2>4. QED BY <2>1, <2>3 DEF HistoryInv
<1>5. ConfigInv
  <2>1. \A r \in Runs : pc[r] = "start" /\ loaded[r] = Factory /\ change[r] = "none"
    BY DEF Init
  <2>2. \A r \in Runs : ~Writing(r)
    BY <2>1 DEF Writing
  <2>3. config = Torn /\ wanted = Factory
    BY DEF Init
  <2>4. QED BY <2>1, <2>2, <2>3 DEF ConfigInv, WritingOK, SettingsAreKept
<1>6. QED BY <1>2, <1>3, <1>4, <1>5 DEF FilesInv

\* A step that no run takes leaves the files and what the runs hold of them.
LEMMA AloneKeeps ==
  ASSUME FilesInv, IInv,
         UNCHANGED <<plan, pc, next, seen, missed, exit, sid, held, history, metadata, raced, kept, configVars>>,
         session' \in 1..(MaxRestarts + 1), session <= session'
  PROVE  FilesInv'
<1>1. UNCHANGED <<config, loaded, shared, change, mixed, wanted>>
  BY DEF configVars
<1>2. FileTypes'
  <2>1. metadata = Torn \/ metadata \in 0..session
    BY DEF FilesInv, FileTypes
  <2>2. session \in Nat /\ session' \in Nat
    BY LintCommandAssumption DEF IInv, TypeInv
  <2>3. metadata' = Torn \/ metadata' \in 0..session'
    BY <2>1, <2>2
  <2>4. QED BY <1>1, <2>3 DEF FilesInv, FileTypes
<1>3. \A r \in Runs : PlaceOK(r)'
  BY DEF FilesInv, PlaceOK, Places, Edits
<1>4. HistoryInv'
  BY DEF FilesInv, HistoryInv, Busy, FilingOK, Consistent, Newest, Entry
<1>5. ConfigInv'
  BY <1>1 DEF FilesInv, ConfigInv, WritingOK, Writing, Edits, SettingsAreKept, Factory
<1>6. QED BY <1>2, <1>3, <1>4, <1>5 DEF FilesInv

LEMMA FilesStep == ASSUME IInv, FilesInv, [Next]_vars PROVE FilesInv'
<1>1. session \in 1..(MaxRestarts + 1) /\ MaxRestarts \in Nat
  BY LintCommandAssumption DEF FilesInv, FileTypes
<1>2. ASSUME NEW q \in Runs, Proceed(q) \/ Kill(q) PROVE FilesInv'
  <2>1. TypeInv /\ FileTypes /\ PlaceOK(q) /\ HistoryInv /\ ConfigInv
    BY DEF IInv, FilesInv
  <2>2. Others(q)
    BY <1>2, <2>1, OthersKept
  <2>3. ASSUME NEW r \in Runs PROVE PlaceOK(r)'
    <3>1. CASE r = q
      <4>1. pc[q] # "ended" /\ Leads(q)
        BY <1>2, <2>1, PlaceStep
      <4>2. QED BY <2>1, <2>2, <3>1, <4>1, PlaceKept DEF Others
    <3>2. CASE r # q
      BY <2>2, <3>2 DEF FilesInv, PlaceOK, Places, Edits, Others
    <3>3. QED BY <3>1, <3>2
  <2>4. FileTypes' /\ HistoryInv' /\ ConfigInv'
    BY <1>2, <2>1, <2>2, FileTypesStep, HistoryStep, ConfigStep
  <2>5. QED BY <2>3, <2>4 DEF FilesInv
<1>3. ASSUME NEW q \in Runs, NEW n \in 1..3, NEW outcome \in Settled, Settle(q, n, outcome)
      PROVE  FilesInv'
  <2>1. session' = session
        /\ UNCHANGED <<plan, pc, next, seen, missed, exit, sid, held, history, metadata, raced, kept, configVars>>
    BY <1>3 DEF Settle, runVars
  <2>2. QED BY <1>1, <2>1, AloneKeeps
<1>4. CASE Restart
  <2>1. session <= MaxRestarts /\ session' = session + 1
        /\ UNCHANGED <<plan, pc, next, seen, missed, exit, sid, held, history, metadata, raced, kept, configVars>>
    BY <1>4 DEF Restart, runVars
  <2>2. session' \in 1..(MaxRestarts + 1) /\ session <= session'
    BY <1>1, <2>1
  <2>3. QED BY <2>1, <2>2, AloneKeeps
<1>5. CASE UNCHANGED vars
  <2>1. session' = session
        /\ UNCHANGED <<plan, pc, next, seen, missed, exit, sid, held, history, metadata, raced, kept, configVars>>
    BY <1>5 DEF vars, runVars
  <2>2. QED BY <1>1, <2>1, AloneKeeps
<1>6. QED BY <1>2, <1>3, <1>4, <1>5 DEF Next

LEMMA FilesInvariance == Spec => []FilesInv
<1>1. IInv /\ FilesInv /\ [Next]_vars => FilesInv'
  BY FilesStep
<1>2. QED BY FilesInit, Invariance, <1>1, PTL DEF Spec

\* The history is that of one session, the one in the metadata, and holds the entries
\* added since it was last cleared, newest first, unless two runs used the files at
\* once or one was interrupted while it did: whatever other runs upload, poll, save or
\* are interrupted at meanwhile, and however often the server restarts.
THEOREM HistoryCorrect == Spec => []HistoryIsConsistent
<1>1. IInv /\ FilesInv => TypeOK
  <2> SUFFICES ASSUME IInv, FilesInv PROVE TypeOK
    OBVIOUS
  <2>1. TypeInv /\ FileTypes /\ \A r \in Runs : LintOK(r) /\ PlaceOK(r)
    BY DEF IInv, FilesInv
  <2>2. ASSUME NEW r \in Runs
        PROVE  /\ next[r] \in 1..plan[r].rulesets /\ seen[r] \subseteq 1..plan[r].rulesets
               /\ missed[r] \subseteq 1..plan[r].rulesets
               /\ exit[r] = -1 <=> pc[r] # "ended"
               /\ sid[r] \in 0..session
    <3>1. next[r] \in 1..K(r) /\ seen[r] \subseteq 1..K(r) /\ missed[r] \subseteq 1..K(r)
      BY <2>1, Within DEF PlaceOK
    <3>2. exit[r] = -1 <=> pc[r] # "ended"
      BY <2>1 DEF LintOK, PlaceOK
    <3>3. sid[r] \in 0..session
      BY <2>1 DEF TypeInv
    <3>4. QED BY <3>1, <3>2, <3>3
  <2>3. ASSUME NEW r \in Runs
        PROVE  /\ pc[r] \in Filing \cup {"start", "ready", "saving", "saved", "submitting", "polling",
                                         "fetching", "summary", "ended"}
               /\ jobs[r] \in Seq(Settled \cup {"running", "gone"})
               /\ exit[r] \in {-1, 0, 1, 130}
               /\ held[r] \in Seq(Entries)
               /\ loaded[r] \in Configs /\ shared[r] \in BOOLEAN
               /\ change[r] \in Settings \cup {"none", "reset"}
    BY <2>1 DEF TypeInv, FileTypes
  <2>4. /\ session \in 1..(MaxRestarts + 1)
        /\ config = Torn \/ config \in Configs
        /\ history = Torn \/ history \in Seq(Entries)
        /\ metadata \in {Torn} \cup (0..session)
    BY <2>1 DEF FileTypes
  <2>5. QED BY <2>2, <2>3, <2>4 DEF TypeOK
<1>2. FilesInv => HistoryOfOneSession /\ EntriesAreKept
  <2> SUFFICES ASSUME FilesInv, ~raced, \A r \in Runs : ~Busy(r)
               PROVE  /\ history # Torn
                      /\ \A i \in 1..Len(history) : history[i].session = metadata
                      /\ history = Newest(kept)
    BY DEF HistoryOfOneSession, EntriesAreKept
  <2>1. Consistent /\ kept \in Seq(Entries)
    BY DEF FilesInv, HistoryInv, FileTypes
  <2>2. history \in Seq(Entries)
    BY <2>1, NewestOf DEF Consistent
  <2>3. QED BY <2>1, <2>2, LintCommandAssumption DEF Consistent
<1>3. QED BY <1>1, <1>2, Invariance, FilesInvariance, PTL DEF HistoryIsConsistent

\* config.json has each setting as the user was last told it was set, whichever run
\* set it, unless two runs used it at once or one was interrupted while it wrote.
THEOREM SettingsCorrect == Spec => []SettingsAreKept
<1>1. FilesInv => SettingsAreKept
  BY DEF FilesInv, ConfigInv, SettingsAreKept
<1>2. QED BY <1>1, FilesInvariance, PTL
=============================================================================
