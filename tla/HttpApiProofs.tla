--------------------------- MODULE HttpApiProofs ---------------------------
(***************************************************************************)
(* Theorems about LintStorage, for any number of jobs, keys, documents,      *)
(* rulesets and concurrent invalidations, and then about HttpApi, which      *)
(* extends it, for any number of clients, filters, page sizes and issues.    *)
(*                                                                         *)
(* Of the storage IInv carries the document index and the lookups, TimesOK   *)
(* the sorted index and Counted the counters of stats; this part uses no     *)
(* assumption but LintStorageAssumption, and holds with a ttl and without.   *)
(* ApiInv adds what is true of each client at each point of its              *)
(* conversation; it rests on the storage's invariant, as the API takes no    *)
(* steps that the storage does not.                                        *)
(***************************************************************************)
EXTENDS HttpApi, FiniteSetTheorems, WellFoundedInduction, SequenceTheorems, TLAPS

Loops == [doc : Docs \cup {NoJob}, set : Jobs \cup {NoJob}, seen : SUBSET Jobs, due : SUBSET Jobs]

\* The types of what the other parts speak of.
TypeInv ==
    /\ jobResults \subseteq Jobs /\ expired \subseteq jobResults
    /\ status \in [Jobs -> Statuses]
    /\ documentIndex \in [Docs -> Jobs \cup {NoJob}]
    /\ sets \in [Jobs -> SUBSET Jobs]
    /\ compositeIndex \in [Keys -> Jobs \cup {NoJob}]
    /\ statusIndex \in [Statuses -> SUBSET Jobs]
    /\ rulesetIndex \in [Rulesets -> SUBSET Jobs]
    /\ stored \in Seq(Jobs)
    /\ looping \in [Invalidations -> Loops]

\* The name of a Set is a stored job of the document, so that no two documents share
\* one; the Set a job may give its name to is empty until the job is stored.
NamesOK ==
    /\ jobResults \subseteq ToSet(stored)
    /\ \A j \in Jobs \ ToSet(stored) : sets[j] = {}
    /\ \A d \in Docs : documentIndex[d] # NoJob =>
           documentIndex[d] \in ToSet(stored) /\ Doc(documentIndex[d]) = d

\* What an invalidate will not come to was stored while it ran, and what it began
\* with is gone or yet to come.
LoopOK(v) ==
    looping[v].doc # NoJob =>
        /\ looping[v].doc \in Docs /\ looping[v].set \in Jobs
        /\ looping[v].due \subseteq ToSet(stored)
        /\ Indexed(looping[v].doc) \subseteq raced \cup Unseen(v)
        /\ looping[v].due \cap jobResults \subseteq Unseen(v)

\* The indexes by status and by ruleset hold the stored jobs.
FieldsOK ==
    /\ \A s \in Statuses : statusIndex[s] = {j \in jobResults : status[j] = s}
    /\ \A r \in Rulesets : rulesetIndex[r] = {j \in jobResults : RulesetOf[KeyOf[j]] = r}

IInv ==
    /\ TypeInv /\ NamesOK /\ OrphansAreRaced /\ LookupIsLatest /\ FieldsOK
    /\ \A v \in Invalidations : LoopOK(v)

-----------------------------------------------------------------------------
(* What the steps do to the Sets of the documents                            *)

\* The document of a job is one.
LEMMA DocType == ASSUME NEW j \in Jobs PROVE KeyOf[j] \in Keys /\ Doc(j) \in Docs
BY LintStorageAssumption DEF Doc

\* What a sequence holds after a push.
LEMMA PushedSet ==
  ASSUME NEW S, NEW q \in Seq(S), NEW x \in S
  PROVE  ToSet(Append(q, x)) = ToSet(q) \cup {x}
<1>1. /\ Append(q, x) \in Seq(S) /\ Len(Append(q, x)) = Len(q) + 1 /\ Len(q) \in Nat
      /\ \A i \in 1..Len(q) : Append(q, x)[i] = q[i]
      /\ Append(q, x)[Len(q) + 1] = x
  BY AppendProperties
<1>2. DOMAIN q = 1..Len(q) /\ DOMAIN Append(q, x) = 1..(Len(q) + 1)
  BY <1>1
<1>3. 1..(Len(q) + 1) = (1..Len(q)) \cup {Len(q) + 1}
  BY <1>1
<1>4. QED BY <1>1, <1>2, <1>3 DEF ToSet

\* A removal takes the entries from every Set that the map holds, and may leave the
\* others as they are.
LEMMA Removal ==
  ASSUME TypeInv, NEW R, R \subseteq Jobs, RemoveEntries(R)
  PROVE  /\ jobResults' = jobResults \ R /\ expired' = expired \ R
         /\ \A d \in Docs : /\ Indexed(d)' = Indexed(d) \ R
                            /\ documentIndex'[d] \in {documentIndex[d], NoJob}
         /\ documentIndex' \in [Docs -> Jobs \cup {NoJob}] /\ sets' \in [Jobs -> SUBSET Jobs]
         /\ \A s \in Jobs : sets[s] \ R \subseteq sets'[s] /\ sets'[s] \subseteq sets[s]
<1>1. /\ jobResults' = jobResults \ R /\ expired' = expired \ R
      /\ sets' = [s \in Jobs |-> IF \E d \in Docs : documentIndex[d] = s
                                 THEN sets[s] \ R ELSE sets[s]]
      /\ documentIndex' = [d \in Docs |-> IF Indexed(d) \subseteq R THEN NoJob
                                          ELSE documentIndex[d]]
  BY DEF RemoveEntries
<1>2. \A s \in Jobs : sets[s] \ R \subseteq sets'[s] /\ sets'[s] \subseteq sets[s]
  BY <1>1
<1>3. documentIndex' \in [Docs -> Jobs \cup {NoJob}] /\ sets' \in [Jobs -> SUBSET Jobs]
  BY <1>1 DEF TypeInv
<1>4. ASSUME NEW d \in Docs
      PROVE  /\ Indexed(d)' = Indexed(d) \ R
             /\ documentIndex'[d] \in {documentIndex[d], NoJob}
  <2>1. CASE Indexed(d) \subseteq R
    <3>1. documentIndex'[d] = NoJob
      BY <1>1, <2>1
    <3>2. QED BY <2>1, <3>1 DEF Indexed
  <2>2. CASE ~(Indexed(d) \subseteq R)
    <3>1. documentIndex'[d] = documentIndex[d] /\ documentIndex[d] # NoJob
      BY <1>1, <2>2 DEF Indexed
    <3>2. documentIndex[d] \in Jobs
      BY <3>1 DEF TypeInv
    <3>3. sets'[documentIndex[d]] = sets[documentIndex[d]] \ R
      BY <1>1, <3>2
    <3>4. QED BY <3>1, <3>3 DEF Indexed
  <2>3. QED BY <2>1, <2>2
<1>5. QED BY <1>1, <1>2, <1>3, <1>4

\* A job is stored in the Set of its document and in no other.
LEMMA Storing ==
  ASSUME TypeInv, NamesOK, NEW j \in Jobs, StoreJob(j)
  PROVE  /\ jobResults' = jobResults \cup {j} /\ j \notin ToSet(stored)
         /\ stored' \in Seq(Jobs) /\ ToSet(stored') = ToSet(stored) \cup {j}
         /\ documentIndex' \in [Docs -> Jobs \cup {NoJob}] /\ sets' \in [Jobs -> SUBSET Jobs]
         /\ \A d \in Docs : Indexed(d)' = IF d = Doc(j) THEN Indexed(d) \cup {j} ELSE Indexed(d)
         /\ \A s \in Jobs : sets[s] \subseteq sets'[s]
         /\ NamesOK'
<1> DEFINE d0 == Doc(j)
           s0 == IF documentIndex[d0] = NoJob THEN j ELSE documentIndex[d0]
<1>1. /\ j \notin ToSet(stored) /\ jobResults' = jobResults \cup {j}
      /\ documentIndex' = [documentIndex EXCEPT ![d0] = s0]
      /\ sets' = [sets EXCEPT ![s0] = @ \cup {j}]
      /\ stored' = Append(stored, j)
  BY DEF StoreJob
<1>2. d0 \in Docs /\ s0 \in Jobs /\ j # NoJob
  BY DocType, LintStorageAssumption DEF TypeInv
<1>3. stored' \in Seq(Jobs) /\ ToSet(stored') = ToSet(stored) \cup {j}
  BY <1>1, PushedSet, AppendProperties DEF TypeInv
<1>4. \A d \in Docs : documentIndex[d] = s0 => d = d0
  BY <1>1, <1>2 DEF NamesOK
<1>5. documentIndex[d0] = NoJob => sets[s0] = {}
  BY <1>1 DEF NamesOK
<1> HIDE DEF s0
<1>6. documentIndex' \in [Docs -> Jobs \cup {NoJob}] /\ sets' \in [Jobs -> SUBSET Jobs]
  BY <1>1, <1>2 DEF TypeInv
<1>7. \A s \in Jobs : sets[s] \subseteq sets'[s]
  BY <1>1, <1>2 DEF TypeInv
<1>8. ASSUME NEW d \in Docs
      PROVE  Indexed(d)' = IF d = d0 THEN Indexed(d) \cup {j} ELSE Indexed(d)
  <2>1. CASE d = d0
    <3>1. documentIndex'[d] = s0 /\ sets'[s0] = sets[s0] \cup {j} /\ s0 # NoJob
      BY <1>1, <1>2, <2>1, LintStorageAssumption DEF TypeInv
    <3>2. Indexed(d) = sets[s0]
      BY <1>5, <2>1 DEF Indexed, s0
    <3>3. Indexed(d)' = sets'[s0]
      BY <3>1 DEF Indexed
    <3>4. QED BY <2>1, <3>1, <3>2, <3>3
  <2>2. CASE d # d0
    <3>1. documentIndex'[d] = documentIndex[d]
      BY <1>1, <2>2 DEF TypeInv
    <3>2. CASE documentIndex[d] = NoJob
      BY <2>2, <3>1, <3>2 DEF Indexed
    <3>3. CASE documentIndex[d] # NoJob
      <4>1. documentIndex[d] # s0 /\ documentIndex[d] \in Jobs
        BY <1>4, <2>2, <3>3 DEF TypeInv
      <4>2. sets'[documentIndex[d]] = sets[documentIndex[d]]
        BY <1>1, <4>1 DEF TypeInv
      <4>3. QED BY <2>2, <3>1, <4>2 DEF Indexed
    <3>4. QED BY <3>2, <3>3
  <2>3. QED BY <2>1, <2>2
<1>9. NamesOK'
  <2>1. jobResults' \subseteq ToSet(stored')
    BY <1>1, <1>3 DEF NamesOK
  <2>2. s0 \in ToSet(stored') /\ Doc(s0) = d0
    BY <1>2, <1>3 DEF NamesOK, s0
  <2>3. \A i \in Jobs \ ToSet(stored') : sets'[i] = {}
    BY <1>1, <1>3, <2>2 DEF NamesOK, TypeInv
  <2>4. ASSUME NEW d \in Docs, documentIndex'[d] # NoJob
        PROVE  documentIndex'[d] \in ToSet(stored') /\ Doc(documentIndex'[d]) = d
    <3>1. CASE d = d0
      BY <1>1, <2>2, <3>1 DEF TypeInv
    <3>2. CASE d # d0
      BY <1>1, <1>3, <2>4, <3>2 DEF TypeInv, NamesOK
    <3>3. QED BY <3>1, <3>2
  <2>5. QED BY <2>1, <2>3, <2>4 DEF NamesOK, Doc
<1>10. QED BY <1>1, <1>3, <1>6, <1>7, <1>8, <1>9

-----------------------------------------------------------------------------
(* The parts of the invariant                                                *)

\* The initial states satisfy the invariant.
LEMMA InvInit == Init => IInv
<1> SUFFICES ASSUME Init PROVE IInv
  OBVIOUS
<1>1. <<>> \in Seq(Jobs) /\ ToSet(<<>>) = {}
  BY DEF ToSet
<1>2. Idle \in Loops
  BY DEF Idle, Loops
<1>3. TypeInv
  BY <1>1, <1>2 DEF Init, TypeInv
<1>4. NamesOK /\ OrphansAreRaced
  BY <1>1 DEF Init, NamesOK, OrphansAreRaced, Indexed
<1>5. LookupIsLatest /\ FieldsOK
  BY DEF Init, LookupIsLatest, FieldsOK
<1>6. \A v \in Invalidations : LoopOK(v)
  BY DEF Init, LoopOK, Idle
<1>7. QED BY <1>3, <1>4, <1>5, <1>6 DEF IInv

\* The steps that remove entries: the queries and the timer, which touch no
\* invalidate, and the steps of one.
Removes(R) ==
    /\ R \subseteq Jobs /\ RemoveEntries(R)
    /\ UNCHANGED <<status, stored, raced>>

\* Every step is one of these.
LEMMA Steps ==
  ASSUME TypeInv, [Next]_vars
  PROVE  \/ \E j \in Jobs : StoreJob(j)
         \/ \E R : Removes(R) /\ UNCHANGED looping
         \/ \E v \in Invalidations, d \in Docs : Invalidate(v, d)
         \/ \E v \in Invalidations : InvalidateNext(v) \/ InvalidateDone(v)
         \/ Clear
         \/ /\ UNCHANGED <<jobResults, status, indexVars, looping, stored, raced>>
            /\ (expired' = expired \/ (\E j \in jobResults \ expired : expired' = expired \cup {j}))
<1>1. ASSUME NEW j \in Jobs, Expire(j)
      PROVE  /\ UNCHANGED <<jobResults, status, indexVars, looping, stored, raced>>
             /\ \E i \in jobResults \ expired : expired' = expired \cup {i}
  BY <1>1 DEF Expire
<1>2. ASSUME NEW j \in Jobs, Retrieve(j) PROVE Removes({j}) /\ UNCHANGED looping
  BY <1>2 DEF Retrieve, Removes
<1>3. ASSUME CleanupExpired PROVE Removes(expired) /\ UNCHANGED looping
  BY <1>3 DEF CleanupExpired, Removes, TypeInv
<1>4. ASSUME UNCHANGED vars
      PROVE  UNCHANGED <<jobResults, expired, status, indexVars, looping, stored, raced>>
  BY <1>4 DEF vars
<1>5. QED BY <1>1, <1>2, <1>3, <1>4 DEF Next

\* The types of the results and their indexes.
ResultTypes ==
    /\ jobResults \subseteq Jobs /\ expired \subseteq jobResults
    /\ status \in [Jobs -> Statuses]
    /\ documentIndex \in [Docs -> Jobs \cup {NoJob}]
    /\ sets \in [Jobs -> SUBSET Jobs]
    /\ compositeIndex \in [Keys -> Jobs \cup {NoJob}]
    /\ statusIndex \in [Statuses -> SUBSET Jobs]
    /\ rulesetIndex \in [Rulesets -> SUBSET Jobs]
    /\ stored \in Seq(Jobs)

\* A removal keeps what does not speak of the invalidations.
LEMMA RemovalKeeps ==
  ASSUME IInv, NEW R, Removes(R)
  PROVE  ResultTypes' /\ NamesOK' /\ OrphansAreRaced' /\ LookupIsLatest' /\ FieldsOK'
<1>1. R \subseteq Jobs /\ RemoveEntries(R) /\ status' = status /\ stored' = stored /\ raced' = raced
  BY DEF Removes
<1>2. TypeInv /\ NamesOK /\ OrphansAreRaced /\ LookupIsLatest /\ FieldsOK
  BY DEF IInv
<1>3. /\ jobResults' = jobResults \ R /\ expired' = expired \ R
      /\ \A d \in Docs : /\ Indexed(d)' = Indexed(d) \ R
                         /\ documentIndex'[d] \in {documentIndex[d], NoJob}
      /\ documentIndex' \in [Docs -> Jobs \cup {NoJob}] /\ sets' \in [Jobs -> SUBSET Jobs]
      /\ \A s \in Jobs : sets'[s] \subseteq sets[s]
  BY <1>1, <1>2, Removal
<1>4. /\ compositeIndex' = [k \in Keys |-> IF compositeIndex[k] \in R THEN NoJob
                                           ELSE compositeIndex[k]]
      /\ statusIndex' = [s \in Statuses |-> statusIndex[s] \ R]
      /\ rulesetIndex' = [r \in Rulesets |-> rulesetIndex[r] \ R]
  BY <1>1 DEF RemoveEntries
<1>5. ResultTypes'
  <2>1. compositeIndex' \in [Keys -> Jobs \cup {NoJob}]
    BY <1>2, <1>4 DEF TypeInv
  <2>2. statusIndex' \in [Statuses -> SUBSET Jobs] /\ rulesetIndex' \in [Rulesets -> SUBSET Jobs]
    BY <1>2, <1>4 DEF TypeInv
  <2>3. QED BY <1>1, <1>2, <1>3, <2>1, <2>2 DEF TypeInv, ResultTypes
<1>6. NamesOK'
  <2>1. \A j \in Jobs \ ToSet(stored) : sets'[j] = {}
    BY <1>2, <1>3 DEF NamesOK
  <2>2. \A d \in Docs : documentIndex'[d] # NoJob =>
            documentIndex'[d] \in ToSet(stored) /\ Doc(documentIndex'[d]) = d
    BY <1>2, <1>3 DEF NamesOK
  <2>3. jobResults' \subseteq ToSet(stored)
    BY <1>2, <1>3 DEF NamesOK
  <2>4. QED BY <1>1, <2>1, <2>2, <2>3 DEF NamesOK, Doc
<1>7. OrphansAreRaced'
  <2>1. \A j \in jobResults' : Doc(j) \in Docs
    BY <1>2, <1>3, DocType DEF TypeInv
  <2>2. \A d \in Docs : Indexed(d)' \subseteq {j \in jobResults' : Doc(j) = d}
    BY <1>2, <1>3 DEF OrphansAreRaced
  <2>3. \A j \in jobResults' : j \in Indexed(Doc(j))' \cup raced
    BY <1>2, <1>3, <2>1 DEF OrphansAreRaced
  <2>4. QED BY <1>1, <2>2, <2>3 DEF OrphansAreRaced, Doc
<1>8. LookupIsLatest'
  <2>1. ASSUME NEW k \in Keys, compositeIndex'[k] # NoJob
        PROVE  compositeIndex'[k] = compositeIndex[k] /\ compositeIndex[k] \notin R
    BY <1>4, <2>1
  <2>2. QED BY <1>1, <1>2, <1>3, <2>1 DEF LookupIsLatest
<1>9. FieldsOK'
  BY <1>1, <1>2, <1>3, <1>4 DEF FieldsOK
<1>10. QED BY <1>5, <1>6, <1>7, <1>8, <1>9

\* A removal keeps what is true of an invalidate that it is not a step of.
LEMMA RemovalKeepsLoops ==
  ASSUME IInv, NEW R, Removes(R), NEW v \in Invalidations, looping'[v] = looping[v]
  PROVE  LoopOK(v)'
<1>1. /\ jobResults' = jobResults \ R
      /\ \A d \in Docs : Indexed(d)' = Indexed(d) \ R
      /\ \A s \in Jobs : sets[s] \ R \subseteq sets'[s]
  BY Removal DEF IInv, Removes
<1>2. raced' = raced /\ stored' = stored /\ LoopOK(v)
  BY DEF IInv, Removes
<1> DEFINE w == looping[v]
<1>3. ASSUME w.doc # NoJob
      PROVE  /\ w.doc \in Docs /\ w.set \in Jobs /\ w.due \subseteq ToSet(stored)
             /\ Indexed(w.doc)' \subseteq raced \cup (sets'[w.set] \ w.seen)
             /\ w.due \cap jobResults' \subseteq sets'[w.set] \ w.seen
  BY <1>1, <1>2, <1>3 DEF LoopOK, Unseen
<1>4. Indexed(looping[v].doc)' = Indexed(looping[v].doc)' /\ looping[v]' = looping[v]
  OBVIOUS
<1>5. \A d : Indexed(d)' = IF documentIndex'[d] = NoJob THEN {} ELSE sets'[documentIndex'[d]]
  BY DEF Indexed
<1>6. QED BY <1>2, <1>3, <1>5 DEF LoopOK, Unseen, Indexed

\* storeJob
LEMMA StoreStep == ASSUME IInv, NEW j \in Jobs, StoreJob(j) PROVE IInv'
<1>1. TypeInv /\ NamesOK /\ OrphansAreRaced /\ LookupIsLatest /\ FieldsOK
  BY DEF IInv
<1>2. /\ jobResults' = jobResults \cup {j} /\ j \notin ToSet(stored)
      /\ stored' \in Seq(Jobs) /\ ToSet(stored') = ToSet(stored) \cup {j}
      /\ documentIndex' \in [Docs -> Jobs \cup {NoJob}] /\ sets' \in [Jobs -> SUBSET Jobs]
      /\ \A d \in Docs : Indexed(d)' = IF d = Doc(j) THEN Indexed(d) \cup {j} ELSE Indexed(d)
      /\ \A s \in Jobs : sets[s] \subseteq sets'[s]
      /\ NamesOK'
  BY <1>1, Storing
<1>3. /\ compositeIndex' = [compositeIndex EXCEPT ![KeyOf[j]] = j]
      /\ statusIndex' = [statusIndex EXCEPT ![status[j]] = @ \cup {j}]
      /\ rulesetIndex' = [rulesetIndex EXCEPT ![RulesetOf[KeyOf[j]]] = @ \cup {j}]
      /\ stored' = Append(stored, j)
      /\ raced \subseteq raced'
      /\ (\E v \in Invalidations : looping[v].doc = Doc(j)) => j \in raced'
      /\ expired' = expired /\ status' = status /\ looping' = looping
  BY DEF StoreJob
<1>4. KeyOf[j] \in Keys /\ Doc(j) \in Docs /\ status[j] \in Statuses /\ RulesetOf[KeyOf[j]] \in Rulesets
  BY <1>1, DocType, LintStorageAssumption DEF TypeInv
<1>5. TypeInv'
  <2>1. compositeIndex' \in [Keys -> Jobs \cup {NoJob}]
    BY <1>1, <1>3 DEF TypeInv
  <2>2. statusIndex' \in [Statuses -> SUBSET Jobs] /\ rulesetIndex' \in [Rulesets -> SUBSET Jobs]
    BY <1>1, <1>3 DEF TypeInv
  <2>3. QED BY <1>1, <1>2, <1>3, <2>1, <2>2 DEF TypeInv
<1>6. OrphansAreRaced'
  <2>1. \A d \in Docs : Indexed(d)' \subseteq {i \in jobResults' : Doc(i) = d}
    BY <1>1, <1>2 DEF OrphansAreRaced
  <2>2. ASSUME NEW i \in jobResults' PROVE i \in Indexed(Doc(i))' \cup raced'
    <3>1. Doc(i) \in Docs
      BY <1>1, <1>2, DocType DEF TypeInv
    <3>2. QED BY <1>1, <1>2, <1>3, <3>1 DEF OrphansAreRaced
  <2>3. QED BY <2>1, <2>2 DEF OrphansAreRaced, Doc
<1>7. LookupIsLatest'
  <2>1. /\ Len(stored) \in Nat /\ Len(stored') = Len(stored) + 1
        /\ \A a \in 1..Len(stored) : stored'[a] = stored[a] /\ stored[a] \in ToSet(stored)
        /\ stored'[Len(stored) + 1] = j
    BY <1>1, <1>3, AppendProperties DEF TypeInv, ToSet
  <2>2. ASSUME NEW k \in Keys, compositeIndex'[k] # NoJob
        PROVE  /\ compositeIndex'[k] \in jobResults' /\ KeyOf[compositeIndex'[k]] = k
               /\ \A a, b \in 1..Len(stored') :
                      stored'[a] = compositeIndex'[k] /\ a < b /\ KeyOf[stored'[b]] = k
                          => stored'[b] \notin jobResults'
    <3>1. CASE k = KeyOf[j]
      <4>1. compositeIndex'[k] = j
        BY <1>1, <1>3, <3>1 DEF TypeInv
      <4>2. ASSUME NEW a \in 1..Len(stored'), NEW b \in 1..Len(stored'), stored'[a] = j, a < b
            PROVE  FALSE
        <5>1. a \in 1..Len(stored)
          BY <2>1, <4>2
        <5>2. QED BY <1>2, <2>1, <4>2, <5>1
      <4>3. QED BY <1>2, <3>1, <4>1, <4>2
    <3>2. CASE k # KeyOf[j]
      <4>1. compositeIndex'[k] = compositeIndex[k]
        BY <1>1, <1>3, <3>2 DEF TypeInv
      <4>2. compositeIndex[k] \in jobResults /\ KeyOf[compositeIndex[k]] = k
        BY <1>1, <2>2, <4>1 DEF LookupIsLatest
      <4>3. ASSUME NEW a \in 1..Len(stored'), NEW b \in 1..Len(stored'),
                   stored'[a] = compositeIndex[k], a < b, KeyOf[stored'[b]] = k
            PROVE  stored'[b] \notin jobResults'
        <5>1. b # Len(stored) + 1
          BY <2>1, <3>2, <4>3
        <5>2. a \in 1..Len(stored) /\ b \in 1..Len(stored)
          BY <2>1, <4>3, <5>1
        <5>3. stored[b] \notin jobResults /\ stored[b] # j
          BY <1>1, <1>2, <2>1, <2>2, <4>1, <4>3, <5>2 DEF LookupIsLatest
        <5>4. QED BY <1>2, <2>1, <5>2, <5>3
      <4>4. QED BY <1>2, <4>1, <4>2, <4>3
    <3>3. QED BY <3>1, <3>2
  <2>3. QED BY <2>2 DEF LookupIsLatest
<1>8. FieldsOK'
  <2>1. \A s \in Statuses : statusIndex'[s] = {i \in jobResults' : status[i] = s}
    BY <1>1, <1>2, <1>3, <1>4 DEF FieldsOK, TypeInv
  <2>2. \A r \in Rulesets : rulesetIndex'[r] = {i \in jobResults' : RulesetOf[KeyOf[i]] = r}
    BY <1>1, <1>2, <1>3, <1>4 DEF FieldsOK, TypeInv
  <2>3. QED BY <1>3, <2>1, <2>2 DEF FieldsOK
<1>9. ASSUME NEW v \in Invalidations PROVE LoopOK(v)'
  <2> DEFINE w == looping[v]
  <2>1. LoopOK(v)
    BY DEF IInv
  <2>2. ASSUME w.doc # NoJob
        PROVE  /\ w.doc \in Docs /\ w.set \in Jobs /\ w.due \subseteq ToSet(stored')
               /\ Indexed(w.doc)' \subseteq raced' \cup (sets'[w.set] \ w.seen)
               /\ w.due \cap jobResults' \subseteq sets'[w.set] \ w.seen
    <3>1. /\ w.doc \in Docs /\ w.set \in Jobs /\ w.due \subseteq ToSet(stored)
          /\ Indexed(w.doc) \subseteq raced \cup (sets[w.set] \ w.seen)
          /\ w.due \cap jobResults \subseteq sets[w.set] \ w.seen
      BY <2>1, <2>2 DEF LoopOK, Unseen
    <3>2. Indexed(w.doc)' = IF w.doc = Doc(j) THEN Indexed(w.doc) \cup {j} ELSE Indexed(w.doc)
      BY <1>2, <1>3, <3>1
    <3>3. QED BY <1>2, <1>3, <3>1, <3>2
  <2>3. \A d : Indexed(d)' = IF documentIndex'[d] = NoJob THEN {} ELSE sets'[documentIndex'[d]]
    BY DEF Indexed
  <2>4. QED BY <1>3, <2>2, <2>3 DEF LoopOK, Unseen, Indexed
<1>10. QED BY <1>2, <1>5, <1>6, <1>7, <1>8, <1>9 DEF IInv

\* The first step of an invalidate: all that the index has of the document is due.
LEMMA InvalidateStep ==
  ASSUME IInv, NEW v \in Invalidations, NEW d \in Docs, Invalidate(v, d)
  PROVE  IInv'
<1>1. PICK j \in Indexed(d) :
         /\ looping' = [looping EXCEPT ![v] = [doc |-> d, set |-> documentIndex[d],
                                               seen |-> {j}, due |-> Indexed(d)]]
         /\ RemoveEntries({j})
         /\ UNCHANGED <<status, stored, raced>>
  BY DEF Invalidate
<1>2. TypeInv /\ NamesOK /\ OrphansAreRaced
  BY DEF IInv
<1>3. documentIndex[d] # NoJob /\ documentIndex[d] \in Jobs /\ Indexed(d) = sets[documentIndex[d]]
  BY <1>2 DEF Indexed, TypeInv
<1>4. Indexed(d) \subseteq jobResults /\ j \in Jobs
  BY <1>2 DEF OrphansAreRaced, TypeInv
<1>5. Removes({j})
  BY <1>1, <1>4 DEF Removes
<1>6. ResultTypes' /\ NamesOK' /\ OrphansAreRaced' /\ LookupIsLatest' /\ FieldsOK'
  BY <1>5, RemovalKeeps
<1> DEFINE new == [doc |-> d, set |-> documentIndex[d], seen |-> {j}, due |-> Indexed(d)]
<1>7. new \in Loops /\ looping' = [looping EXCEPT ![v] = new]
  BY <1>1, <1>3, <1>4, <1>2 DEF Loops, TypeInv
<1>8. TypeInv'
  <2> HIDE DEF new
  <2>1. looping' \in [Invalidations -> Loops]
    BY <1>2, <1>7 DEF TypeInv
  <2>2. QED BY <1>6, <2>1 DEF TypeInv, ResultTypes
<1>9. LoopOK(v)'
  <2>1. /\ jobResults' = jobResults \ {j} /\ Indexed(d)' = Indexed(d) \ {j}
        /\ sets[documentIndex[d]] \ {j} \subseteq sets'[documentIndex[d]]
    BY <1>1, <1>2, <1>3, <1>4, Removal
  <2>2. looping'[v] = new
    BY <1>2, <1>7 DEF TypeInv
  <2>3. new.due \subseteq ToSet(stored')
    BY <1>1, <1>2, <1>4 DEF NamesOK
  <2>4. \A x : Indexed(x)' = IF documentIndex'[x] = NoJob THEN {} ELSE sets'[documentIndex'[x]]
    BY DEF Indexed
  <2>5. (IF documentIndex'[d] = NoJob THEN {} ELSE sets'[documentIndex'[d]])
            \subseteq sets'[documentIndex[d]] \ {j}
    BY <1>3, <2>1, <2>4
  <2>6. new.due \cap jobResults' \subseteq sets'[documentIndex[d]] \ {j}
    BY <1>3, <2>1
  <2>7. QED BY <1>3, <2>2, <2>3, <2>5, <2>6 DEF LoopOK, Unseen, Indexed
<1>10. ASSUME NEW x \in Invalidations, x # v PROVE LoopOK(x)'
  <2>1. looping'[x] = looping[x]
    BY <1>2, <1>7, <1>10 DEF TypeInv
  <2>2. QED BY <1>5, <2>1, RemovalKeepsLoops
<1>11. QED BY <1>6, <1>8, <1>9, <1>10 DEF IInv

\* The loop of an invalidate goes on.
LEMMA NextStep ==
  ASSUME IInv, NEW v \in Invalidations, InvalidateNext(v)
  PROVE  IInv'
<1>1. PICK j \in Unseen(v) :
         /\ looping' = [looping EXCEPT ![v].seen = @ \cup {j}]
         /\ RemoveEntries({j} \cap jobResults)
         /\ UNCHANGED <<status, stored, raced>>
  BY DEF InvalidateNext
<1>2. looping[v].doc # NoJob /\ TypeInv /\ NamesOK /\ OrphansAreRaced /\ LoopOK(v)
  BY DEF IInv, InvalidateNext
<1>3. /\ looping[v] \in Loops /\ looping[v].doc \in Docs /\ looping[v].set \in Jobs
      /\ j \in Jobs /\ j \in sets[looping[v].set]
  BY <1>1, <1>2 DEF LoopOK, TypeInv, Unseen
<1> DEFINE R == {j} \cap jobResults
           w == looping[v]
           new == [doc |-> w.doc, set |-> w.set, seen |-> w.seen \cup {j}, due |-> w.due]
<1>4. Removes(R)
  BY <1>1, <1>3 DEF Removes
<1>5. ResultTypes' /\ NamesOK' /\ OrphansAreRaced' /\ LookupIsLatest' /\ FieldsOK'
  BY <1>4, RemovalKeeps
<1>6. new \in Loops /\ looping' = [looping EXCEPT ![v] = new]
  <2>1. new \in Loops
    BY <1>3 DEF Loops
  <2>2. w.seen \cup {j} = new.seen /\ [w EXCEPT !.seen = w.seen \cup {j}] = new
    BY <1>3 DEF Loops
  <2> HIDE DEF new
  <2>3. looping' = [looping EXCEPT ![v] = [w EXCEPT !.seen = w.seen \cup {j}]]
    BY <1>1
  <2>4. QED BY <2>1, <2>2, <2>3
<1>7. TypeInv'
  <2> HIDE DEF new
  <2>1. looping' \in [Invalidations -> Loops]
    BY <1>2, <1>6 DEF TypeInv
  <2>2. QED BY <1>5, <2>1 DEF TypeInv, ResultTypes
<1>8. LoopOK(v)'
  <2>1. /\ jobResults' = jobResults \ R
        /\ \A d \in Docs : Indexed(d)' = Indexed(d) \ R
        /\ \A s \in Jobs : sets[s] \ R \subseteq sets'[s]
    BY <1>1, <1>2, <1>3, Removal DEF TypeInv
  <2>2. looping'[v] = new
    BY <1>2, <1>6 DEF TypeInv
  <2>3. /\ w.due \subseteq ToSet(stored)
        /\ Indexed(w.doc) \subseteq raced \cup (sets[w.set] \ w.seen)
        /\ w.due \cap jobResults \subseteq sets[w.set] \ w.seen
        /\ Indexed(w.doc) \subseteq jobResults
    BY <1>2, <1>3 DEF LoopOK, Unseen, OrphansAreRaced
  <2>4. \A x : Indexed(x)' = IF documentIndex'[x] = NoJob THEN {} ELSE sets'[documentIndex'[x]]
    BY DEF Indexed
  <2>5. \A d \in Docs : (IF documentIndex'[d] = NoJob THEN {} ELSE sets'[documentIndex'[d]])
                            = Indexed(d) \ R
    BY <2>1, <2>4
  <2>6. (IF documentIndex'[w.doc] = NoJob THEN {} ELSE sets'[documentIndex'[w.doc]])
            = Indexed(w.doc) \ R
    BY <1>3, <2>5
  <2>7. Indexed(w.doc) \ R \subseteq raced \cup (sets'[w.set] \ (w.seen \cup {j}))
    BY <1>3, <2>1, <2>3
  <2>8. w.due \cap jobResults' \subseteq sets'[w.set] \ (w.seen \cup {j})
    BY <1>3, <2>1, <2>3
  <2>9. raced' = raced /\ stored' = stored
    BY <1>1
  <2>10. QED BY <1>3, <2>2, <2>3, <2>6, <2>7, <2>8, <2>9 DEF LoopOK, Unseen, Indexed
<1>9. ASSUME NEW x \in Invalidations, x # v PROVE LoopOK(x)'
  <2>1. looping'[x] = looping[x]
    BY <1>2, <1>6, <1>9 DEF TypeInv
  <2>2. QED BY <1>4, <2>1, RemovalKeepsLoops
<1>10. QED BY <1>5, <1>7, <1>8, <1>9 DEF IInv

\* The entry of the document goes when nothing in its Set is left to visit: what it
\* still held was stored meanwhile.
LEMMA DoneStep ==
  ASSUME IInv, NEW v \in Invalidations, InvalidateDone(v)
  PROVE  IInv'
<1> DEFINE w == looping[v]
<1>1. /\ w.doc # NoJob /\ Unseen(v) = {}
      /\ documentIndex' = [documentIndex EXCEPT ![w.doc] = NoJob]
      /\ looping' = [looping EXCEPT ![v] = Idle]
      /\ UNCHANGED <<jobResults, expired, status, sets, compositeIndex, statusIndex,
                     rulesetIndex, raced, stored>>
  BY DEF InvalidateDone
<1>2. TypeInv /\ NamesOK /\ OrphansAreRaced /\ LookupIsLatest /\ FieldsOK /\ LoopOK(v)
  BY DEF IInv
<1>3. w.doc \in Docs /\ Indexed(w.doc) \subseteq raced
  BY <1>1, <1>2 DEF LoopOK
<1>4. Idle \in Loops
  BY DEF Idle, Loops
<1>5. TypeInv'
  BY <1>1, <1>2, <1>4 DEF TypeInv
<1>6. \A d \in Docs : documentIndex'[d] = IF d = w.doc THEN NoJob ELSE documentIndex[d]
  BY <1>1, <1>2 DEF TypeInv
<1>7. NamesOK'
  BY <1>1, <1>2, <1>6 DEF NamesOK, Doc
<1>8. \A d : Indexed(d)' = IF documentIndex'[d] = NoJob THEN {} ELSE sets'[documentIndex'[d]]
  BY DEF Indexed
<1>9. \A d \in Docs : Indexed(d)' = IF d = w.doc THEN {} ELSE Indexed(d)
  <2> SUFFICES ASSUME NEW d \in Docs PROVE Indexed(d)' = IF d = w.doc THEN {} ELSE Indexed(d)
    OBVIOUS
  <2>1. QED BY <1>1, <1>6, <1>8 DEF Indexed
<1>10. OrphansAreRaced'
  <2>1. \A d \in Docs : Indexed(d)' \subseteq {j \in jobResults : Doc(j) = d}
    BY <1>2, <1>9 DEF OrphansAreRaced
  <2>2. \A j \in jobResults : j \in Indexed(Doc(j))' \cup raced
    BY <1>2, <1>3, <1>9, DocType DEF OrphansAreRaced, TypeInv
  <2>3. QED BY <1>1, <2>1, <2>2 DEF OrphansAreRaced, Doc
<1>11. LookupIsLatest' /\ FieldsOK'
  BY <1>1, <1>2 DEF LookupIsLatest, FieldsOK
<1>12. ASSUME NEW x \in Invalidations PROVE LoopOK(x)'
  <2>1. CASE x = v
    <3>1. looping'[x] = Idle
      BY <1>1, <1>2, <2>1 DEF TypeInv
    <3>2. QED BY <3>1 DEF LoopOK, Idle
  <2>2. CASE x # v
    <3>1. looping'[x] = looping[x]
      BY <1>1, <1>2, <2>2 DEF TypeInv
    <3>2. LoopOK(x)
      BY DEF IInv
    <3>3. ASSUME looping[x].doc # NoJob PROVE Indexed(looping[x].doc)' \subseteq Indexed(looping[x].doc)
      <4>1. looping[x].doc \in Docs
        BY <3>2, <3>3 DEF LoopOK
      <4>2. QED BY <1>9, <3>1, <4>1
    <3>4. QED BY <1>1, <3>1, <3>2, <3>3 DEF LoopOK, Unseen
  <2>3. QED BY <2>1, <2>2
<1>13. QED BY <1>5, <1>7, <1>10, <1>11, <1>12 DEF IInv

\* clear
LEMMA ClearStep == ASSUME IInv, Clear PROVE IInv'
<1>1. /\ jobResults' = {} /\ expired' = {}
      /\ documentIndex' = [d \in Docs |-> NoJob]
      /\ compositeIndex' = [k \in Keys |-> NoJob]
      /\ statusIndex' = [s \in Statuses |-> {}]
      /\ rulesetIndex' = [r \in Rulesets |-> {}]
      /\ UNCHANGED <<status, sets, looping, stored, raced>>
  BY DEF Clear
<1>2. TypeInv /\ NamesOK
  BY DEF IInv
<1>3. TypeInv'
  BY <1>1, <1>2 DEF TypeInv
<1>4. NamesOK' /\ OrphansAreRaced'
  BY <1>1, <1>2 DEF NamesOK, OrphansAreRaced, Indexed
<1>5. LookupIsLatest' /\ FieldsOK'
  BY <1>1 DEF LookupIsLatest, FieldsOK
<1>6. ASSUME NEW v \in Invalidations PROVE LoopOK(v)'
  <2>1. LoopOK(v)
    BY DEF IInv
  <2>2. QED BY <1>1, <2>1 DEF LoopOK, Unseen, Indexed
<1>7. QED BY <1>3, <1>4, <1>5, <1>6 DEF IInv

\* Every step keeps the invariant.
LEMMA InvStep == IInv /\ [Next]_vars => IInv'
<1> SUFFICES ASSUME IInv, [Next]_vars PROVE IInv'
  OBVIOUS
<1>1. ASSUME NEW R, Removes(R), UNCHANGED looping PROVE IInv'
  <2>1. ResultTypes' /\ NamesOK' /\ OrphansAreRaced' /\ LookupIsLatest' /\ FieldsOK'
    BY <1>1, RemovalKeeps
  <2>2. TypeInv'
    BY <1>1, <2>1 DEF IInv, TypeInv, ResultTypes
  <2>3. \A v \in Invalidations : LoopOK(v)'
    BY <1>1, RemovalKeepsLoops
  <2>4. QED BY <2>1, <2>2, <2>3 DEF IInv
<1>2. ASSUME UNCHANGED <<jobResults, status, indexVars, looping, stored, raced>>,
             expired' = expired \/ (\E j \in jobResults \ expired : expired' = expired \cup {j})
      PROVE  IInv'
  <2>1. TypeInv'
    BY <1>2 DEF IInv, TypeInv, indexVars
  <2>2. NamesOK' /\ OrphansAreRaced' /\ LookupIsLatest' /\ FieldsOK'
    BY <1>2 DEF IInv, NamesOK, OrphansAreRaced, LookupIsLatest, FieldsOK, Doc, Indexed, indexVars
  <2>3. \A v \in Invalidations : LoopOK(v)'
    BY <1>2 DEF IInv, LoopOK, Unseen, Indexed, indexVars
  <2>4. QED BY <2>1, <2>2, <2>3 DEF IInv
<1>3. TypeInv
  BY DEF IInv
<1>4. QED BY <1>1, <1>2, <1>3, Steps, StoreStep, InvalidateStep, NextStep, DoneStep, ClearStep

-----------------------------------------------------------------------------
(* Theorems                                                                  *)

\* The invariant holds of every reachable state.
LEMMA Invariance == Spec => []IInv
BY InvInit, InvStep, PTL DEF Spec

\* A lookup by key answers a stored result, the last one stored of those of the key
\* that are there.
THEOREM LookupCorrect == Spec => []LookupIsLatest
<1>1. IInv => LookupIsLatest
  BY DEF IInv
<1>2. QED BY <1>1, Invariance, PTL

\* A result that the document index does not hold was stored under an invalidate.
THEOREM OrphansCorrect == Spec => []OrphansAreRaced
<1>1. IInv => OrphansAreRaced
  BY DEF IInv
<1>2. QED BY <1>1, Invariance, PTL

\* However the loops of the invalidations interleave with each other and with what
\* is stored, each one ends with all gone that it began with.
THEOREM InvalidationsComplete == Spec => InvalidateIsComplete
<1> DEFINE Complete == \A v \in Invalidations :
              looping[v].doc # NoJob /\ looping'[v].doc = NoJob
                  => looping[v].due \cap jobResults' = {}
<1>1. ASSUME IInv, [Next]_vars PROVE [Complete]_vars
  <2>1. TypeInv
    BY <1>1 DEF IInv
  <2>2. ASSUME NEW v \in Invalidations, InvalidateDone(v) PROVE Complete
    <3>1. /\ looping' = [looping EXCEPT ![v] = Idle] /\ jobResults' = jobResults
          /\ looping[v].doc # NoJob /\ Unseen(v) = {}
      BY <2>2 DEF InvalidateDone
    <3>2. looping[v].due \cap jobResults = {}
      BY <1>1, <3>1 DEF IInv, LoopOK
    <3>3. \A x \in Invalidations \ {v} : looping'[x] = looping[x]
      BY <2>1, <3>1 DEF TypeInv
    <3>4. QED BY <3>1, <3>2, <3>3
  <2>3. ASSUME NEW v \in Invalidations, NEW d \in Docs, Invalidate(v, d) PROVE Complete
    <3>1. PICK j : looping' = [looping EXCEPT ![v] = [doc |-> d, set |-> documentIndex[d],
                                                      seen |-> {j}, due |-> Indexed(d)]]
      BY <2>3 DEF Invalidate
    <3>2. looping'[v].doc = d /\ \A x \in Invalidations \ {v} : looping'[x] = looping[x]
      BY <2>1, <3>1 DEF TypeInv
    <3>3. QED BY <3>2, LintStorageAssumption
  <2>4. ASSUME NEW v \in Invalidations, InvalidateNext(v) PROVE Complete
    <3>1. PICK j : looping' = [looping EXCEPT ![v].seen = @ \cup {j}]
      BY <2>4 DEF InvalidateNext
    <3>2. \A x \in Invalidations : looping'[x].doc = looping[x].doc
      BY <2>1, <3>1 DEF TypeInv, Loops
    <3>3. QED BY <3>2
  <2>5. ASSUME UNCHANGED looping PROVE Complete
    BY <2>5
  <2> HIDE DEF Complete
  <2>6. QED BY <1>1, <2>1, <2>2, <2>3, <2>4, <2>5, Steps DEF StoreJob, Clear
<1>2. QED BY <1>1, Invariance, PTL DEF Spec, InvalidateIsComplete

\* Listing through the indexes is filtering by the fields, but for the results that
\* no document's Set holds.
THEOREM ListingCorrect == Spec => []ListingIsExact
<1>1. ASSUME IInv, NEW S \in SUBSET Statuses, NEW D \in SUBSET Docs, NEW R \in SUBSET Rulesets
      PROVE  LET exact == {j \in jobResults \ expired :
                              /\ S = {} \/ status[j] \in S
                              /\ D = {} \/ Doc(j) \in D
                              /\ R = {} \/ RulesetOf[KeyOf[j]] \in R}
             IN  /\ Candidates(S, D, R) \subseteq exact
                 /\ exact \ Candidates(S, D, R) \subseteq
                        {j \in exact : D # {} /\ j \notin Activity(Doc(j))}
  <2> DEFINE U == UNION {Indexed(d) : d \in D}
  <2>1. TypeInv /\ FieldsOK /\ OrphansAreRaced
    BY <1>1 DEF IInv
  <2>2. ASSUME NEW j \in jobResults
        PROVE  /\ j \in UNION {statusIndex[s] : s \in S} <=> status[j] \in S
               /\ j \in UNION {rulesetIndex[r] : r \in R} <=> RulesetOf[KeyOf[j]] \in R
               /\ j \in U => Doc(j) \in D
               /\ Doc(j) \in D /\ j \notin U => j \notin Activity(Doc(j))
    <3>1. \A s \in Statuses : j \in statusIndex[s] <=> status[j] = s
      BY <2>1 DEF FieldsOK
    <3>2. \A r \in Rulesets : j \in rulesetIndex[r] <=> RulesetOf[KeyOf[j]] = r
      BY <2>1 DEF FieldsOK
    <3>3. \A d \in Docs : j \in Indexed(d) => Doc(j) = d
      BY <2>1 DEF OrphansAreRaced
    <3>4. j \in UNION {statusIndex[s] : s \in S} <=> status[j] \in S
      BY <3>1
    <3>5. j \in UNION {rulesetIndex[r] : r \in R} <=> RulesetOf[KeyOf[j]] \in R
      BY <3>2
    <3>6. (j \in U => Doc(j) \in D) /\ (Doc(j) \in D /\ j \notin U => j \notin Activity(Doc(j)))
      BY <3>3 DEF Activity
    <3>7. QED BY <3>4, <3>5, <3>6
  <2>3. Candidates(S, D, R) =
            {j \in jobResults \ expired : /\ S = {} \/ status[j] \in S
                                          /\ D = {} \/ j \in U
                                          /\ R = {} \/ RulesetOf[KeyOf[j]] \in R}
    BY <2>2 DEF Candidates
  <2> HIDE DEF U
  <2>4. QED BY <2>2, <2>3
<1>2. IInv => ListingIsExact
  BY <1>1 DEF ListingIsExact
<1>3. QED BY <1>2, Invariance, PTL

\* What the orchestrator sees of the storage is LintCache: a store, and results that
\* are forgotten together with the lookups that find them.
THEOREM StorageImplementsLintCache == Spec => ImplementsLintCache
<1> DEFINE found == jobResults \ expired
           latest == [k \in Keys |-> IF compositeIndex[k] \in expired THEN NoJob
                                     ELSE compositeIndex[k]]
<1>1. Init => Cache!Init
  BY LintStorageAssumption DEF Init, Cache!Init
<1>2. ASSUME IInv, [Next]_vars PROVE [Cache!Next]_(Cache!cacheVars)
  <2>1. TypeInv /\ NamesOK /\ LookupIsLatest
    BY <1>2 DEF IInv
  <2>2. \A k \in Keys : compositeIndex[k] # NoJob => compositeIndex[k] \in jobResults
    BY <2>1 DEF LookupIsLatest
  <2>3. NoJob \notin Jobs
    BY LintStorageAssumption
  <2>4. ASSUME NEW j \in Jobs, StoreJob(j) PROVE Cache!Store(j)
    <3>1. /\ jobResults' = jobResults \cup {j} /\ expired' = expired /\ j \notin expired
          /\ compositeIndex' = [compositeIndex EXCEPT ![KeyOf[j]] = j]
      BY <2>1, <2>4 DEF StoreJob, TypeInv, NamesOK
    <3>2. found' = found \cup {j}
      BY <3>1
    <3>3. latest' = [latest EXCEPT ![KeyOf[j]] = j]
      BY <2>1, <3>1 DEF TypeInv
    <3>4. QED BY <3>2, <3>3 DEF Cache!Store
  <2>5. ASSUME NEW R, R \subseteq Jobs,
               jobResults' = jobResults \ R, expired' = expired \ R,
               compositeIndex' = [k \in Keys |-> IF compositeIndex[k] \in R THEN NoJob
                                                 ELSE compositeIndex[k]]
        PROVE  Cache!Next
    <3>1. found' = found \ (R \cap found)
      BY <2>5
    <3>2. latest' = [k \in Keys |-> IF latest[k] \in R \cap found THEN NoJob ELSE latest[k]]
      <4>1. ASSUME NEW k \in Keys
            PROVE  latest'[k] = IF latest[k] \in R \cap found THEN NoJob ELSE latest[k]
        BY <2>1, <2>2, <2>3, <2>5 DEF TypeInv
      <4>2. QED BY <4>1
    <3>3. \E Q \in SUBSET found :
              /\ found' = found \ Q
              /\ latest' = [k \in Keys |-> IF latest[k] \in Q THEN NoJob ELSE latest[k]]
      BY <3>1, <3>2
    <3>4. QED BY <3>3 DEF Cache!Next, Cache!Forget
  <2>6. ASSUME NEW R, R \subseteq Jobs, RemoveEntries(R) PROVE Cache!Next
    BY <2>5, <2>6 DEF RemoveEntries
  <2>7. ASSUME Clear PROVE Cache!Next
    <3>1. found' = {} /\ latest' = [k \in Keys |-> NoJob]
      BY <2>3, <2>7 DEF Clear
    <3>2. \A k \in Keys : latest[k] # NoJob => latest[k] \in found
      BY <2>2
    <3>3. latest' = [k \in Keys |-> IF latest[k] \in found THEN NoJob ELSE latest[k]]
      BY <3>1, <3>2
    <3>4. \E Q \in SUBSET found :
              /\ found' = found \ Q
              /\ latest' = [k \in Keys |-> IF latest[k] \in Q THEN NoJob ELSE latest[k]]
      BY <3>1, <3>3
    <3>5. QED BY <3>4 DEF Cache!Next, Cache!Forget
  <2>8. ASSUME NEW j \in jobResults \ expired, expired' = expired \cup {j},
               jobResults' = jobResults, compositeIndex' = compositeIndex
        PROVE  Cache!Next
    <3>1. found' = found \ {j}
      BY <2>8
    <3>2. latest' = [k \in Keys |-> IF latest[k] \in {j} THEN NoJob ELSE latest[k]]
      <4>1. ASSUME NEW k \in Keys
            PROVE  latest'[k] = IF latest[k] \in {j} THEN NoJob ELSE latest[k]
        BY <2>1, <2>3, <2>8 DEF TypeInv
      <4>2. QED BY <4>1
    <3>3. \E Q \in SUBSET found :
              /\ found' = found \ Q
              /\ latest' = [k \in Keys |-> IF latest[k] \in Q THEN NoJob ELSE latest[k]]
      BY <3>1, <3>2
    <3>4. QED BY <3>3 DEF Cache!Next, Cache!Forget
  <2>9. ASSUME UNCHANGED <<jobResults, expired, compositeIndex>> PROVE UNCHANGED Cache!cacheVars
    BY <2>9 DEF Cache!cacheVars
  <2>10. \A j \in Jobs : Cache!Store(j) => Cache!Next
    BY DEF Cache!Next
  <2>11. ASSUME NEW v \in Invalidations, NEW d \in Docs, Invalidate(v, d) PROVE Cache!Next
    <3>1. PICK j \in Indexed(d) : RemoveEntries({j})
      BY <2>11 DEF Invalidate
    <3>2. {j} \subseteq Jobs
      BY <2>1 DEF TypeInv, Indexed
    <3>3. QED BY <2>6, <3>1, <3>2
  <2>12. ASSUME NEW v \in Invalidations, InvalidateNext(v) PROVE Cache!Next
    <3>1. PICK j : RemoveEntries({j} \cap jobResults)
      BY <2>12 DEF InvalidateNext
    <3>2. {j} \cap jobResults \subseteq Jobs
      BY <2>1 DEF TypeInv
    <3>3. QED BY <2>6, <3>1, <3>2
  <2>13. ASSUME NEW R, Removes(R) PROVE Cache!Next
    BY <2>6, <2>13 DEF Removes
  <2>14. ASSUME NEW v \in Invalidations, InvalidateDone(v) PROVE UNCHANGED Cache!cacheVars
    BY <2>9, <2>14 DEF InvalidateDone
  <2>15. ASSUME UNCHANGED <<jobResults, indexVars>>,
                expired' = expired \/ (\E j \in jobResults \ expired : expired' = expired \cup {j})
         PROVE  [Cache!Next]_(Cache!cacheVars)
    BY <2>8, <2>9, <2>15 DEF indexVars
  <2>16. QED
    BY <1>2, <2>1, <2>4, <2>7, <2>10, <2>11, <2>12, <2>13, <2>14, <2>15, Steps
<1>3. QED BY <1>1, <1>2, Invariance, PTL DEF Spec, ImplementsLintCache, Cache!Spec

-----------------------------------------------------------------------------
(* The timestamp index                                                       *)

\* Newest first.
Sorted(q) == \A a, b \in 1..Len(q) : a < b => TimeOf[q[a]] >= TimeOf[q[b]]

\* What IndexesAgree says of the timestamp index.
TimesOK ==
    /\ timestampIndex \in Seq(Jobs)
    /\ ToSet(timestampIndex) = jobResults /\ IsInjective(timestampIndex)
    /\ Sorted(timestampIndex)

\* Of some numbers one is the first.
LEMMA First == ASSUME NEW T \in SUBSET Nat, T # {} PROVE \E m \in T : \A n \in T : m <= n
<1>1. PICK m \in T : \A n \in T : <<n, m>> \notin OpToRel(<, Nat)
  BY NatLessThanWellFounded, WFMin
<1>2. \A n \in T : ~(n < m)
  BY <1>1 DEF OpToRel
<1>3. QED BY <1>2

\* A job that is sorted in comes after what is not older, and before what is.
LEMMA SortedPlace ==
  ASSUME NEW q \in Seq(Jobs), Sorted(q), NEW j \in Jobs
  PROVE  \E p \in 1..(Len(q) + 1) :
             /\ SortedIn(q, j) = InsertAt(q, p, j)
             /\ \A i \in 1..Len(q) : i < p <=> TimeOf[q[i]] >= TimeOf[j]
<1> DEFINE older == {i \in DOMAIN q : TimeOf[q[i]] < TimeOf[j]}
<1>1. /\ DOMAIN q = 1..Len(q) /\ Len(q) \in Nat /\ older \subseteq 1..Len(q)
      /\ TimeOf[j] \in Nat /\ \A i \in 1..Len(q) : TimeOf[q[i]] \in Nat
  BY LenProperties, LintStorageAssumption
<1>2. CASE older = {}
  <2>1. \A i \in 1..Len(q) : TimeOf[q[i]] >= TimeOf[j] /\ i < Len(q) + 1
    BY <1>1, <1>2
  <2>2. SortedIn(q, j) = InsertAt(q, Len(q) + 1, j)
    BY <1>2 DEF SortedIn
  <2>3. QED BY <1>1, <2>1, <2>2
<1>3. CASE older # {}
  <2> HIDE DEF older
  <2>1. \E m \in older : \A n \in older : m <= n
    <3>1. older \in SUBSET Nat
      BY <1>1
    <3>2. QED BY <1>3, <3>1, First
  <2>2. Min(older) \in older /\ \A n \in older : Min(older) <= n
    BY <2>1 DEF Min
  <2> DEFINE p == Min(older)
  <2>3. SortedIn(q, j) = InsertAt(q, p, j)
    BY <1>3 DEF SortedIn, older
  <2> HIDE DEF p
  <2>4. /\ p \in 1..Len(q) /\ TimeOf[q[p]] < TimeOf[j]
        /\ \A n \in 1..Len(q) : TimeOf[q[n]] < TimeOf[j] => p <= n
    BY <1>1, <2>2 DEF p, older
  <2>5. ASSUME NEW i \in 1..Len(q) PROVE i < p <=> TimeOf[q[i]] >= TimeOf[j]
    <3>1. CASE i < p
      BY <1>1, <2>4, <3>1
    <3>2. CASE i = p
      BY <1>1, <2>4, <3>2
    <3>3. CASE p < i
      <4>1. TimeOf[q[p]] >= TimeOf[q[i]]
        BY <2>4, <3>3 DEF Sorted
      <4>2. QED BY <1>1, <2>4, <3>3, <4>1
    <3>4. QED BY <1>1, <2>4, <3>1, <3>2, <3>3
  <2>6. QED BY <1>1, <2>3, <2>4, <2>5
<1>4. QED BY <1>2, <1>3

\* What an insertion makes of a sequence.
LEMMA Inserted ==
  ASSUME NEW S, NEW q \in Seq(S), NEW x \in S, NEW p \in 1..(Len(q) + 1)
  PROVE  /\ InsertAt(q, p, x) \in Seq(S) /\ Len(InsertAt(q, p, x)) = Len(q) + 1
         /\ \A i \in 1..(Len(q) + 1) :
                InsertAt(q, p, x)[i] = IF i < p THEN q[i] ELSE IF i = p THEN x ELSE q[i - 1]
<1> DEFINE a == SubSeq(q, 1, p - 1)
           b == SubSeq(q, p, Len(q))
           n == Len(q)
<1>1. n \in Nat /\ p \in Nat /\ 1 <= p /\ p <= n + 1 /\ \A i \in 1..n : q[i] \in S
  BY LenProperties
<1>2. a \in Seq(S) /\ Len(a) = p - 1 /\ \A i \in 1..(p - 1) : a[i] = q[i]
  <2>1. \A i \in 1..(p - 1) : q[i] \in S
    BY <1>1
  <2>2. /\ a \in Seq(S) /\ Len(a) = IF 1 <= p - 1 THEN (p - 1) - 1 + 1 ELSE 0
        /\ \A i \in 1..((p - 1) - 1 + 1) : a[i] = q[1 + i - 1]
    BY <1>1, <2>1, SubSeqProperties
  <2> HIDE DEF a
  <2>3. QED BY <1>1, <2>2
<1>3. b \in Seq(S) /\ Len(b) = n - p + 1 /\ \A i \in 1..(n - p + 1) : b[i] = q[p + i - 1]
  <2>1. \A i \in p..n : q[i] \in S
    BY <1>1
  <2>2. /\ b \in Seq(S) /\ Len(b) = IF p <= n THEN n - p + 1 ELSE 0
        /\ \A i \in 1..(n - p + 1) : b[i] = q[p + i - 1]
    BY <1>1, <2>1, SubSeqProperties
  <2> HIDE DEF b
  <2>3. QED BY <1>1, <2>2
<1> DEFINE c == a \o <<x>>
<1> HIDE DEF a, b, n
<1>4. c \in Seq(S) /\ Len(c) = p /\ \A i \in 1..p : c[i] = IF i < p THEN q[i] ELSE x
  <2>1. <<x>> \in Seq(S) /\ Len(<<x>>) = 1 /\ <<x>>[1] = x
    OBVIOUS
  <2>2. /\ c \in Seq(S) /\ Len(c) = Len(a) + 1
        /\ \A i \in 1..(Len(a) + 1) : c[i] = IF i <= Len(a) THEN a[i] ELSE <<x>>[i - Len(a)]
    BY <1>2, <2>1, ConcatProperties
  <2> HIDE DEF c
  <2>3. QED BY <1>1, <1>2, <2>1, <2>2
<1> HIDE DEF c
<1>5. /\ c \o b \in Seq(S) /\ Len(c \o b) = Len(c) + Len(b)
      /\ \A i \in 1..(Len(c) + Len(b)) : (c \o b)[i] = IF i <= Len(c) THEN c[i] ELSE b[i - Len(c)]
  BY <1>3, <1>4, ConcatProperties
<1>6. /\ c \o b \in Seq(S) /\ Len(c \o b) = n + 1
      /\ \A i \in 1..(n + 1) : (c \o b)[i] = IF i < p THEN q[i] ELSE IF i = p THEN x ELSE q[i - 1]
  <2>1. c \o b \in Seq(S) /\ Len(c \o b) = n + 1
    BY <1>1, <1>3, <1>4, <1>5
  <2>2. ASSUME NEW i \in 1..(n + 1)
        PROVE  (c \o b)[i] = IF i < p THEN q[i] ELSE IF i = p THEN x ELSE q[i - 1]
    <3>1. CASE i <= p
      <4>1. i \in 1..p /\ (c \o b)[i] = c[i]
        <5>1. i \in 1..(Len(c) + Len(b)) /\ i <= Len(c)
          BY <1>1, <1>3, <1>4, <3>1
        <5>2. (c \o b)[i] = IF i <= Len(c) THEN c[i] ELSE b[i - Len(c)]
          BY <1>5, <5>1
        <5>3. QED BY <1>1, <3>1, <5>1, <5>2
      <4>2. QED BY <1>1, <1>3, <1>4, <3>1, <4>1
    <3>2. CASE i > p
      <4>1. i - p \in 1..(n - p + 1) /\ p + (i - p) - 1 = i - 1
        BY <1>1, <3>2
      <4>2. b[i - p] = q[i - 1]
        BY <1>3, <4>1
      <4>3. (c \o b)[i] = IF i <= Len(c) THEN c[i] ELSE b[i - Len(c)]
        <5>1. i \in 1..(Len(c) + Len(b))
          BY <1>1, <1>3, <1>4
        <5>2. QED BY <1>5, <5>1
      <4>4. (c \o b)[i] = b[i - p]
        BY <1>1, <1>4, <3>2, <4>3
      <4>5. ~(i < p) /\ i # p
        BY <1>1, <3>2
      <4>6. QED BY <4>2, <4>4, <4>5
    <3>3. i <= p \/ i > p
      BY <1>1
    <3>4. QED BY <3>1, <3>2, <3>3
  <2>3. QED BY <2>1, <2>2
<1>7. QED BY <1>6 DEF InsertAt, a, b, c, n

\* A job that is not in the index is sorted into it.
LEMMA TimesStored ==
  ASSUME NEW q \in Seq(Jobs), Sorted(q), IsInjective(q), NEW j \in Jobs, j \notin ToSet(q)
  PROVE  LET w == SortedIn(q, j)
         IN  w \in Seq(Jobs) /\ ToSet(w) = ToSet(q) \cup {j} /\ IsInjective(w) /\ Sorted(w)
<1>1. PICK p \in 1..(Len(q) + 1) :
          /\ SortedIn(q, j) = InsertAt(q, p, j)
          /\ \A i \in 1..Len(q) : i < p <=> TimeOf[q[i]] >= TimeOf[j]
  BY SortedPlace
<1> DEFINE w == SortedIn(q, j)
           n == Len(q)
<1>2. /\ w \in Seq(Jobs) /\ Len(w) = n + 1 /\ n \in Nat
      /\ \A i \in 1..(n + 1) : w[i] = IF i < p THEN q[i] ELSE IF i = p THEN j ELSE q[i - 1]
  <2>1. n \in Nat /\ w = InsertAt(q, p, j)
    BY <1>1, LenProperties
  <2>2. /\ InsertAt(q, p, j) \in Seq(Jobs) /\ Len(InsertAt(q, p, j)) = n + 1
        /\ \A i \in 1..(n + 1) :
               InsertAt(q, p, j)[i] = IF i < p THEN q[i] ELSE IF i = p THEN j ELSE q[i - 1]
    BY Inserted
  <2> HIDE DEF w, n
  <2>3. QED BY <2>1, <2>2
<1>3. DOMAIN q = 1..n /\ DOMAIN w = 1..(n + 1)
  BY <1>2, LenProperties
<1>4. /\ \A i \in 1..n : q[i] # j
      /\ \A a, b \in 1..n : q[a] = q[b] => a = b
      /\ \A a, b \in 1..n : a < b => TimeOf[q[a]] >= TimeOf[q[b]]
      /\ \A i \in 1..n : i < p <=> TimeOf[q[i]] >= TimeOf[j]
      /\ TimeOf[j] \in Nat /\ \A i \in 1..n : TimeOf[q[i]] \in Nat
  <2>1. \A i \in 1..n : q[i] # j
    BY <1>3 DEF ToSet
  <2>2. \A a, b \in 1..n : q[a] = q[b] => a = b
    BY <1>3 DEF IsInjective
  <2>3. \A a, b \in 1..n : a < b => TimeOf[q[a]] >= TimeOf[q[b]]
    BY DEF Sorted
  <2>4. TimeOf[j] \in Nat /\ \A i \in 1..n : TimeOf[q[i]] \in Nat
    BY LenProperties, LintStorageAssumption
  <2>5. QED BY <1>1, <2>1, <2>2, <2>3, <2>4
<1> HIDE DEF w, n
<1>5. ToSet(w) = ToSet(q) \cup {j}
  <2>1. \A i \in 1..(n + 1) : w[i] \in {q[k] : k \in 1..n} \cup {j}
    BY <1>1, <1>2 DEF n
  <2>2. ASSUME NEW k \in 1..n PROVE \E i \in 1..(n + 1) : w[i] = q[k]
    <3>1. CASE k < p
      <4>1. k \in 1..(n + 1)
        BY <1>2
      <4>2. QED BY <1>2, <3>1, <4>1
    <3>2. CASE k >= p
      <4>1. k + 1 \in 1..(n + 1) /\ ~(k + 1 < p) /\ k + 1 # p /\ (k + 1) - 1 = k
        BY <1>1, <1>2, <3>2 DEF n
      <4>2. QED BY <1>2, <4>1
    <3>3. QED BY <1>1, <1>2, <3>1, <3>2 DEF n
  <2>3. w[p] = j
    BY <1>1, <1>2 DEF n
  <2>4. QED BY <1>1, <1>3, <2>1, <2>2, <2>3 DEF ToSet, n
<1>6. ASSUME NEW a \in 1..(n + 1), NEW b \in 1..(n + 1), a < b
      PROVE  w[a] # w[b] /\ TimeOf[w[a]] >= TimeOf[w[b]]
  <2>1. CASE b < p
    <3>1. a < p /\ a \in 1..n /\ b \in 1..n
      BY <1>1, <1>2, <1>6, <2>1 DEF n
    <3>2. w[a] = q[a] /\ w[b] = q[b]
      BY <1>2, <2>1, <3>1
    <3>3. QED BY <1>4, <1>6, <3>1, <3>2
  <2>2. CASE b = p
    <3>1. w[b] = j /\ w[a] = q[a] /\ a \in 1..n /\ a < p
      BY <1>1, <1>2, <1>6, <2>2 DEF n
    <3>2. QED BY <1>4, <3>1
  <2>3. CASE b > p
    <3>1. w[b] = q[b - 1] /\ b - 1 \in 1..n /\ ~(b - 1 < p)
      BY <1>1, <1>2, <2>3 DEF n
    <3>2. CASE a < p
      <4>1. w[a] = q[a] /\ a \in 1..n /\ a < b - 1
        BY <1>1, <1>2, <2>3, <3>2 DEF n
      <4>2. QED BY <1>4, <3>1, <4>1
    <3>3. CASE a = p
      <4>1. w[a] = j /\ ~(TimeOf[q[b - 1]] >= TimeOf[j])
        BY <1>2, <1>4, <3>1, <3>3
      <4>2. QED BY <1>4, <3>1, <4>1
    <3>4. CASE a > p
      <4>1. w[a] = q[a - 1] /\ a - 1 \in 1..n /\ a - 1 < b - 1
        BY <1>1, <1>2, <1>6, <3>4 DEF n
      <4>2. QED BY <1>4, <3>1, <4>1
    <3>5. QED BY <1>1, <1>2, <3>2, <3>3, <3>4 DEF n
  <2>4. QED BY <1>1, <1>2, <2>1, <2>2, <2>3 DEF n
<1>7. IsInjective(w) /\ Sorted(w)
  <2>1. \A a, b \in 1..(n + 1) : w[a] = w[b] => a = b
    <3> SUFFICES ASSUME NEW a \in 1..(n + 1), NEW b \in 1..(n + 1), a # b PROVE w[a] # w[b]
      OBVIOUS
    <3>1. a < b \/ b < a
      BY <1>2
    <3>2. QED BY <1>6, <3>1
  <2>2. QED BY <1>2, <1>3, <1>6, <2>1 DEF IsInjective, Sorted
<1>8. QED BY <1>2, <1>5, <1>7 DEF w

\* The number of members of K before x, by the pairs R.
Before(K, R, x) == Cardinality({h \in K : <<h, x>> \in R})

\* R puts the members of K one after another.
Orders(R, K) ==
    /\ \A x \in K : <<x, x>> \notin R
    /\ \A x, y \in K : x # y => <<x, y>> \in R \/ <<y, x>> \in R
    /\ \A x, y, z \in K : <<x, y>> \in R /\ <<y, z>> \in R => <<x, z>> \in R

\* The members of a finite set that R orders are counted by how many come before.
LEMMA Counting ==
  ASSUME NEW K, IsFiniteSet(K), NEW R, Orders(R, K)
  PROVE  /\ Cardinality(K) \in Nat
         /\ \A x \in K : Before(K, R, x) \in 0..(Cardinality(K) - 1)
         /\ \A x, y \in K : <<x, y>> \in R => Before(K, R, x) < Before(K, R, y)
         /\ \A n \in 0..(Cardinality(K) - 1) : \E x \in K : Before(K, R, x) = n
<1>1. Cardinality(K) \in Nat
  BY FS_CardinalityType
<1>2. ASSUME NEW x \in K PROVE Before(K, R, x) \in 0..(Cardinality(K) - 1)
  <2> DEFINE below == {h \in K : <<h, x>> \in R}
  <2>1. below \in SUBSET K /\ x \notin below
    BY DEF Orders
  <2> HIDE DEF below
  <2>2. IsFiniteSet(below) /\ Cardinality(below) <= Cardinality(K) /\ Cardinality(below) # Cardinality(K)
    BY <2>1, FS_Subset
  <2>3. Cardinality(below) \in Nat
    BY <2>2, FS_CardinalityType
  <2>4. Cardinality(below) \in 0..(Cardinality(K) - 1)
    BY <1>1, <2>2, <2>3
  <2>5. QED BY <2>4 DEF Before, below
<1>3. ASSUME NEW x \in K, NEW y \in K, <<x, y>> \in R PROVE Before(K, R, x) < Before(K, R, y)
  <2> DEFINE a == {h \in K : <<h, x>> \in R}
             b == {h \in K : <<h, y>> \in R}
  <2>1. a \in SUBSET b /\ x \in b /\ x \notin a /\ b \in SUBSET K
    BY <1>3 DEF Orders
  <2> HIDE DEF a, b
  <2>2. IsFiniteSet(b)
    BY <2>1, FS_Subset
  <2>3. IsFiniteSet(a) /\ Cardinality(a) <= Cardinality(b) /\ Cardinality(a) # Cardinality(b)
    BY <2>1, <2>2, FS_Subset
  <2>4. Cardinality(a) \in Nat /\ Cardinality(b) \in Nat
    BY <2>2, <2>3, FS_CardinalityType
  <2>5. Cardinality(a) < Cardinality(b)
    BY <2>3, <2>4
  <2>6. QED BY <2>5 DEF Before, a, b
<1>4. ASSUME NEW n \in 0..(Cardinality(K) - 1) PROVE \E x \in K : Before(K, R, x) = n
  <2> DEFINE rank == [x \in K |-> Before(K, R, x)]
             N == 0..(Cardinality(K) - 1)
  <2>1. rank \in [K -> N]
    BY <1>2
  <2>2. \A x, y \in K : rank[x] = rank[y] => x = y
    <3> SUFFICES ASSUME NEW x \in K, NEW y \in K, x # y PROVE Before(K, R, x) # Before(K, R, y)
      OBVIOUS
    <3>1. <<x, y>> \in R \/ <<y, x>> \in R
      BY DEF Orders
    <3>2. Before(K, R, x) < Before(K, R, y) \/ Before(K, R, y) < Before(K, R, x)
      BY <1>3, <3>1
    <3>3. Before(K, R, x) \in Nat /\ Before(K, R, y) \in Nat
      BY <1>1, <1>2
    <3>4. QED BY <3>2, <3>3
  <2>3. rank \in Injection(K, N)
    BY <2>1, <2>2 DEF Injection, IsInjective
  <2>4. IsFiniteSet(N) /\ Cardinality(N) = Cardinality(K)
    <3>1. Cardinality(K) - 1 \in Int /\ 0 \in Int
      BY <1>1
    <3>2. IsFiniteSet(N) /\ Cardinality(N) = IF 0 > Cardinality(K) - 1 THEN 0 ELSE (Cardinality(K) - 1) - 0 + 1
      BY <3>1, FS_Interval
    <3>3. QED BY <1>1, <3>2
  <2> HIDE DEF N, rank
  <2>5. rank \in Surjection(K, N)
    BY <2>3, <2>4, FS_Injection
  <2>6. n \in N
    BY DEF N
  <2>7. \E x \in K : rank[x] = n
    BY <2>5, <2>6 DEF Surjection
  <2>8. QED BY <2>7 DEF rank
<1>5. QED BY <1>1, <1>2, <1>3, <1>4

\* InOrder lists the members of a finite set once each, at their counts.
LEMMA Enumerated ==
  ASSUME NEW K, IsFiniteSet(K), NEW R, Orders(R, K)
  PROVE  /\ InOrder(K, R) \in Seq(K) /\ Len(InOrder(K, R)) = Cardinality(K)
         /\ Cardinality(K) \in Nat /\ DOMAIN InOrder(K, R) = 1..Cardinality(K)
         /\ \A n \in 1..Cardinality(K) : /\ InOrder(K, R)[n] \in K
                                         /\ Before(K, R, InOrder(K, R)[n]) = n - 1
         /\ \A x \in K : /\ Before(K, R, x) + 1 \in 1..Cardinality(K)
                         /\ InOrder(K, R)[Before(K, R, x) + 1] = x
         /\ \A a, b \in 1..Cardinality(K) : a < b => <<InOrder(K, R)[a], InOrder(K, R)[b]>> \in R
<1> DEFINE q == InOrder(K, R)
           m == Cardinality(K)
<1>1. /\ m \in Nat
      /\ \A x \in K : Before(K, R, x) \in 0..(m - 1)
      /\ \A x, y \in K : <<x, y>> \in R => Before(K, R, x) < Before(K, R, y)
      /\ \A n \in 0..(m - 1) : \E x \in K : Before(K, R, x) = n
  BY Counting
<1>2. q = [n \in 1..m |-> CHOOSE x \in K : Before(K, R, x) = n - 1]
  BY DEF InOrder, Before
<1> HIDE DEF q, m
<1>3. \A n \in 1..m : q[n] \in K /\ Before(K, R, q[n]) = n - 1
  <2> SUFFICES ASSUME NEW n \in 1..m PROVE q[n] \in K /\ Before(K, R, q[n]) = n - 1
    OBVIOUS
  <2>1. n - 1 \in 0..(m - 1)
    BY <1>1
  <2>2. \E x \in K : Before(K, R, x) = n - 1
    BY <1>1, <2>1
  <2>3. q[n] = CHOOSE x \in K : Before(K, R, x) = n - 1
    BY <1>2
  <2>4. QED BY <2>2, <2>3
<1>4. q \in Seq(K) /\ Len(q) = m /\ DOMAIN q = 1..m
  <2>1. q \in [1..m -> K]
    BY <1>2, <1>3
  <2>2. q \in Seq(K)
    BY <1>1, <2>1
  <2>3. QED BY <1>1, <1>2, <2>2, LenProperties
<1>5. ASSUME NEW x \in K, NEW y \in K, Before(K, R, x) = Before(K, R, y) PROVE x = y
  <2>1. Before(K, R, x) \in Nat /\ Before(K, R, y) \in Nat
    BY <1>1
  <2>2. <<x, y>> \notin R /\ <<y, x>> \notin R
    BY <1>1, <1>5, <2>1
  <2>3. QED BY <2>2 DEF Orders
<1>6. ASSUME NEW x \in K PROVE Before(K, R, x) + 1 \in 1..m /\ q[Before(K, R, x) + 1] = x
  <2> DEFINE n == Before(K, R, x) + 1
  <2>1. n \in 1..m /\ n - 1 = Before(K, R, x)
    BY <1>1
  <2>2. q[n] \in K /\ Before(K, R, q[n]) = Before(K, R, x)
    BY <1>3, <2>1
  <2>3. q[n] = x
    BY <1>5, <2>2
  <2>4. QED BY <2>1, <2>3
<1>7. ASSUME NEW a \in 1..m, NEW b \in 1..m, a < b PROVE <<q[a], q[b]>> \in R
  <2>1. /\ q[a] \in K /\ q[b] \in K
        /\ Before(K, R, q[a]) = a - 1 /\ Before(K, R, q[b]) = b - 1
    BY <1>3
  <2>2. q[a] # q[b] /\ <<q[b], q[a]>> \notin R
    BY <1>1, <1>7, <2>1
  <2>3. QED BY <2>1, <2>2 DEF Orders
<1>8. QED BY <1>1, <1>3, <1>4, <1>6, <1>7 DEF q, m

\* Ascending lists a finite set of numbers from the least to the greatest.
LEMMA Sequenced ==
  ASSUME NEW K \in SUBSET Nat, IsFiniteSet(K)
  PROVE  /\ Ascending(K) \in Seq(K) /\ Len(Ascending(K)) = Cardinality(K)
         /\ Cardinality(K) \in Nat /\ DOMAIN Ascending(K) = 1..Cardinality(K)
         /\ \A n \in 1..Cardinality(K) : Ascending(K)[n] \in K
         /\ \A x \in K : \E n \in 1..Cardinality(K) : Ascending(K)[n] = x
         /\ \A a, b \in 1..Cardinality(K) : a < b => Ascending(K)[a] < Ascending(K)[b]
<1> DEFINE R == {p \in K \X K : p[1] < p[2]}
<1>1. \A x, y \in K : <<x, y>> \in R <=> x < y
  OBVIOUS
<1>2. Ascending(K) = InOrder(K, R)
  BY DEF Ascending
<1> HIDE DEF R
<1>3. Orders(R, K)
  <2>1. \A x, y \in K : x # y => x < y \/ y < x
    OBVIOUS
  <2>2. \A x \in K : ~(x < x)
    OBVIOUS
  <2>3. \A x, y, z \in K : x < y /\ y < z => x < z
    OBVIOUS
  <2>4. QED BY <1>1, <2>1, <2>2, <2>3 DEF Orders
<1>4. /\ InOrder(K, R) \in Seq(K) /\ Len(InOrder(K, R)) = Cardinality(K)
      /\ Cardinality(K) \in Nat /\ DOMAIN InOrder(K, R) = 1..Cardinality(K)
      /\ \A n \in 1..Cardinality(K) : InOrder(K, R)[n] \in K
      /\ \A x \in K : /\ Before(K, R, x) + 1 \in 1..Cardinality(K)
                      /\ InOrder(K, R)[Before(K, R, x) + 1] = x
      /\ \A a, b \in 1..Cardinality(K) : a < b => <<InOrder(K, R)[a], InOrder(K, R)[b]>> \in R
  BY <1>3, Enumerated
<1>5. QED BY <1>1, <1>2, <1>4

\* What is left when a sequence is spliced stands in the order it had.
LEMMA Spliced ==
  ASSUME NEW S, NEW q \in Seq(S), NEW R
  PROVE  LET kept == {i \in DOMAIN q : q[i] \notin R}
         IN  \E m \in Nat : \E p \in [1..m -> kept] :
                 /\ Without(q, R) = [n \in 1..m |-> q[p[n]]]
                 /\ \A a, b \in 1..m : a < b => p[a] < p[b]
                 /\ \A i \in kept : \E n \in 1..m : p[n] = i
<1> DEFINE kept == {i \in DOMAIN q : q[i] \notin R}
           m == Cardinality(kept)
           p == Ascending(kept)
<1>1. kept \in SUBSET Nat /\ IsFiniteSet(kept)
  <2>1. DOMAIN q = 1..Len(q) /\ Len(q) \in Nat /\ IsFiniteSet(1..Len(q))
    BY LenProperties, FS_Interval
  <2>2. kept \in SUBSET (1..Len(q))
    BY <2>1
  <2> HIDE DEF kept
  <2>3. kept \in SUBSET Nat
    BY <2>1, <2>2
  <2>4. IsFiniteSet(kept)
    BY <2>1, <2>2, FS_Subset
  <2>5. QED BY <2>3, <2>4
<1>2. Without(q, R) = [n \in DOMAIN p |-> q[p[n]]]
  BY DEF Without
<1> HIDE DEF kept
<1>3. /\ p \in Seq(kept) /\ m \in Nat /\ DOMAIN p = 1..m
      /\ \A n \in 1..m : p[n] \in kept
      /\ \A i \in kept : \E n \in 1..m : p[n] = i
      /\ \A a, b \in 1..m : a < b => p[a] < p[b]
  BY <1>1, Sequenced
<1> HIDE DEF m, p
<1>4. p \in [1..m -> kept]
  BY <1>3
<1>5. \E mm \in Nat : \E pp \in [1..mm -> kept] :
          /\ Without(q, R) = [n \in 1..mm |-> q[pp[n]]]
          /\ \A a, b \in 1..mm : a < b => pp[a] < pp[b]
          /\ \A i \in kept : \E n \in 1..mm : pp[n] = i
  BY <1>2, <1>3, <1>4
<1>6. QED BY <1>5 DEF kept

LEMMA TimesRemoved ==
  ASSUME NEW q \in Seq(Jobs), Sorted(q), IsInjective(q), NEW R
  PROVE  LET w == Without(q, R)
         IN  w \in Seq(Jobs) /\ ToSet(w) = ToSet(q) \ R /\ IsInjective(w) /\ Sorted(w)
<1> DEFINE kept == {i \in DOMAIN q : q[i] \notin R}
           w == Without(q, R)
<1>1. PICK m \in Nat : \E p \in [1..m -> kept] :
          /\ w = [n \in 1..m |-> q[p[n]]]
          /\ \A a, b \in 1..m : a < b => p[a] < p[b]
          /\ \A i \in kept : \E n \in 1..m : p[n] = i
  BY Spliced
<1>2. PICK p \in [1..m -> kept] :
          /\ w = [n \in 1..m |-> q[p[n]]]
          /\ \A a, b \in 1..m : a < b => p[a] < p[b]
          /\ \A i \in kept : \E n \in 1..m : p[n] = i
  BY <1>1
<1>3. DOMAIN q = 1..Len(q) /\ \A i \in 1..Len(q) : q[i] \in Jobs
  BY LenProperties
<1>4. \A n \in 1..m : p[n] \in 1..Len(q) /\ q[p[n]] \notin R
  BY <1>2, <1>3
<1> HIDE DEF w
<1>5. w \in Seq(Jobs) /\ Len(w) = m /\ DOMAIN w = 1..m
  <2>1. w \in [1..m -> Jobs]
    BY <1>2, <1>3, <1>4
  <2>2. w \in Seq(Jobs)
    BY <1>2, <2>1
  <2>3. QED BY <1>2, <2>1, <2>2, LenProperties
<1>6. ToSet(w) = ToSet(q) \ R
  <2>1. \A n \in 1..m : w[n] = q[p[n]]
    BY <1>2
  <2>2. \A i \in 1..Len(q) : q[i] \notin R => \E n \in 1..m : w[n] = q[i]
    BY <1>2, <1>3, <2>1
  <2>3. ToSet(w) = {w[n] : n \in 1..m} /\ ToSet(q) = {q[i] : i \in 1..Len(q)}
    BY <1>3, <1>5 DEF ToSet
  <2>4. \A n \in 1..m : w[n] \in {q[i] : i \in 1..Len(q)} \ R
    BY <1>4, <2>1
  <2>5. QED BY <2>2, <2>3, <2>4
<1>7. Sorted(w)
  <2>1. ASSUME NEW a \in 1..m, NEW b \in 1..m, a < b PROVE TimeOf[w[a]] >= TimeOf[w[b]]
    <3>1. p[a] < p[b] /\ p[a] \in 1..Len(q) /\ p[b] \in 1..Len(q) /\ w[a] = q[p[a]] /\ w[b] = q[p[b]]
      BY <1>2, <1>4, <2>1
    <3>2. QED BY <3>1 DEF Sorted
  <2>2. QED BY <1>5, <2>1 DEF Sorted
<1>8. IsInjective(w)
  <2>1. ASSUME NEW a \in 1..m, NEW b \in 1..m, a < b PROVE w[a] # w[b]
    <3>1. /\ p[a] < p[b] /\ p[a] \in 1..Len(q) /\ p[b] \in 1..Len(q)
          /\ w[a] = q[p[a]] /\ w[b] = q[p[b]]
      BY <1>2, <1>4, <2>1
    <3>2. p[a] # p[b]
      BY <3>1, LenProperties
    <3>3. QED BY <1>3, <3>1, <3>2 DEF IsInjective
  <2>2. ASSUME NEW a \in 1..m, NEW b \in 1..m, a # b PROVE w[a] # w[b]
    <3>1. a < b \/ b < a
      BY <2>2
    <3>2. QED BY <2>1, <3>1
  <2>3. QED BY <1>5, <2>2 DEF IsInjective
<1>9. QED BY <1>5, <1>6, <1>7, <1>8 DEF w

\* The index by time holds the stored jobs once each, newest first.
LEMMA TimesInit == Init => TimesOK
<1> SUFFICES ASSUME Init PROVE TimesOK
  OBVIOUS
<1>1. timestampIndex = <<>> /\ jobResults = {} /\ Len(<<>>) = 0 /\ DOMAIN <<>> = {}
  BY DEF Init
<1>2. QED BY <1>1 DEF TimesOK, Sorted, IsInjective, ToSet

LEMMA TimesStep == ASSUME IInv, TimesOK, [Next]_vars PROVE TimesOK'
<1>1. TypeInv /\ NamesOK
  BY DEF IInv
<1>2. ASSUME NEW R, RemoveEntries(R) PROVE TimesOK'
  <2>1. timestampIndex' = Without(timestampIndex, R) /\ jobResults' = jobResults \ R
    BY <1>2 DEF RemoveEntries
  <2>2. QED BY <2>1, TimesRemoved DEF TimesOK
<1>3. ASSUME NEW j \in Jobs, StoreJob(j) PROVE TimesOK'
  <2>1. /\ timestampIndex' = SortedIn(timestampIndex, j) /\ jobResults' = jobResults \cup {j}
        /\ j \notin jobResults
    BY <1>1, <1>3 DEF StoreJob, NamesOK
  <2>2. QED BY <2>1, TimesStored DEF TimesOK
<1>4. ASSUME Clear PROVE TimesOK'
  <2>1. timestampIndex' = <<>> /\ jobResults' = {} /\ Len(<<>>) = 0 /\ DOMAIN <<>> = {}
    BY <1>4 DEF Clear
  <2>2. QED BY <2>1 DEF TimesOK, Sorted, IsInjective, ToSet
<1>5. ASSUME UNCHANGED <<jobResults, timestampIndex>> PROVE TimesOK'
  BY <1>5 DEF TimesOK
<1>6. QED BY <1>1, <1>2, <1>3, <1>4, <1>5, Steps DEF Removes, Invalidate, InvalidateNext, InvalidateDone, indexVars

-----------------------------------------------------------------------------
(* The counters                                                              *)

\* What the invalidations under way have visited, and not yet counted.
Pending == {e \in Invalidations \X Jobs : e[2] \in looping[e[1]].seen}

\* What was stored is there, was cleared, was counted, or is about to be.
Counted ==
    /\ IsFiniteSet(jobResults) /\ IsFiniteSet(Pending)
    /\ totalExpired \in Nat /\ totalInvalidated \in Nat /\ cleared \in Nat
    /\ \A v \in Invalidations : looping[v].doc = NoJob => looping[v].seen = {}
    /\ Len(stored) <= Cardinality(jobResults) + cleared + totalExpired + totalInvalidated
                          + Cardinality(Pending)

LEMMA CountedInit == Init => Counted
<1> SUFFICES ASSUME Init PROVE Counted
  OBVIOUS
<1>1. /\ jobResults = {} /\ stored = <<>> /\ totalExpired = 0 /\ totalInvalidated = 0 /\ cleared = 0
      /\ \A v \in Invalidations : looping[v].seen = {}
  BY DEF Init, Idle
<1>2. Pending = {}
  BY <1>1 DEF Pending
<1>3. Len(stored) = 0 /\ IsFiniteSet({}) /\ Cardinality({}) = 0
  BY <1>1, FS_EmptySet
<1>4. QED BY <1>1, <1>2, <1>3 DEF Counted

\* A removal takes as many results as it is of at most, and counts those that had expired.
LEMMA RemovalCounts ==
  ASSUME Counted, expired \subseteq jobResults, NEW R, RemoveEntries(R)
  PROVE  /\ IsFiniteSet(jobResults') /\ Cardinality(jobResults') \in Nat /\ Cardinality(jobResults) \in Nat
         /\ totalExpired' \in Nat /\ totalExpired <= totalExpired'
         /\ R \subseteq expired =>
                Cardinality(jobResults) + totalExpired = Cardinality(jobResults') + totalExpired'
         /\ \A j : R \subseteq {j} => Cardinality(jobResults) <= Cardinality(jobResults') + 1
<1>1. /\ jobResults' = jobResults \ R /\ totalExpired' = totalExpired + Cardinality(expired \cap R)
      /\ IsFiniteSet(jobResults) /\ totalExpired \in Nat
  BY DEF RemoveEntries, Counted
<1>2. IsFiniteSet(expired \cap R) /\ IsFiniteSet(jobResults \cap R)
  <2>1. expired \cap R \in SUBSET jobResults /\ jobResults \cap R \in SUBSET jobResults
    OBVIOUS
  <2>2. QED BY <1>1, <2>1, FS_Subset
<1>3. /\ IsFiniteSet(jobResults')
      /\ Cardinality(jobResults') = Cardinality(jobResults) - Cardinality(jobResults \cap R)
  BY <1>1, FS_Difference
<1>4. /\ Cardinality(expired \cap R) \in Nat /\ Cardinality(jobResults \cap R) \in Nat
      /\ Cardinality(jobResults) \in Nat /\ Cardinality(jobResults') \in Nat
  BY <1>1, <1>2, <1>3, FS_CardinalityType
<1>5. ASSUME R \subseteq expired
      PROVE  Cardinality(jobResults) + totalExpired = Cardinality(jobResults') + totalExpired'
  <2> DEFINE n == Cardinality(R)
  <2>1. expired \cap R = R /\ jobResults \cap R = R
    BY <1>5
  <2>2. /\ n \in Nat /\ totalExpired' = totalExpired + n
        /\ Cardinality(jobResults') = Cardinality(jobResults) - n
    BY <1>1, <1>3, <1>4, <2>1
  <2> HIDE DEF n
  <2>3. QED BY <1>1, <1>4, <2>2
<1>6. ASSUME NEW j, R \subseteq {j} PROVE Cardinality(jobResults) <= Cardinality(jobResults') + 1
  <2>1. jobResults \cap R \in SUBSET {j} /\ IsFiniteSet({j}) /\ Cardinality({j}) = 1
    BY <1>6, FS_Singleton
  <2>2. Cardinality(jobResults \cap R) <= 1
    BY <2>1, FS_Subset
  <2>3. QED BY <1>3, <1>4, <2>2
<1>7. totalExpired' \in Nat /\ totalExpired <= totalExpired'
  BY <1>1, <1>4
<1>8. QED BY <1>3, <1>4, <1>5, <1>6, <1>7

\* An invalidate visits one more, which may not have been there any longer.
LEMMA VisitCounts ==
  ASSUME IInv, Counted, NEW v \in Invalidations, NEW j \in Jobs, j \notin looping[v].seen,
         looping' \in [Invalidations -> Loops], looping'[v].seen = looping[v].seen \cup {j},
         \A x \in Invalidations \ {v} : looping'[x] = looping[x],
         looping'[v].doc # NoJob,
         NEW R \in SUBSET {j}, RemoveEntries(R), UNCHANGED <<totalInvalidated, cleared, stored>>
  PROVE  Counted'
<1>1. TypeInv
  BY DEF IInv
<1>2. Pending' = Pending \cup {<<v, j>>} /\ <<v, j>> \notin Pending
  <2>1. \A x \in Invalidations : looping'[x].seen = IF x = v THEN looping[v].seen \cup {j} ELSE looping[x].seen
    OBVIOUS
  <2>2. QED BY <2>1 DEF Pending
<1>3. /\ IsFiniteSet(Pending') /\ Cardinality(Pending') = Cardinality(Pending) + 1
      /\ Cardinality(Pending) \in Nat
  BY <1>2, FS_AddElement, FS_CardinalityType DEF Counted
<1>4. /\ IsFiniteSet(jobResults') /\ Cardinality(jobResults') \in Nat /\ Cardinality(jobResults) \in Nat
      /\ totalExpired' \in Nat /\ totalExpired <= totalExpired'
      /\ Cardinality(jobResults) <= Cardinality(jobResults') + 1
  <2>1. R \subseteq {j} /\ expired \subseteq jobResults
    BY <1>1 DEF TypeInv
  <2>2. QED BY <2>1, RemovalCounts
<1>5. \A x \in Invalidations : looping'[x].doc = NoJob => looping'[x].seen = {}
  BY DEF Counted
<1>6. Len(stored') \in Nat /\ Len(stored') = Len(stored)
  BY <1>1, LenProperties DEF TypeInv
<1>7. Len(stored') <= Cardinality(jobResults') + cleared' + totalExpired' + totalInvalidated' + Cardinality(Pending')
  BY <1>3, <1>4, <1>6 DEF Counted
<1>8. QED BY <1>3, <1>4, <1>5, <1>7 DEF Counted

\* The end of an invalidate counts what it has visited.
LEMMA DoneCounts ==
  ASSUME IInv, Counted, NEW v \in Invalidations, InvalidateDone(v)
  PROVE  Counted'
<1>1. /\ looping' = [looping EXCEPT ![v] = Idle]
      /\ totalInvalidated' = totalInvalidated + Cardinality(looping[v].seen)
      /\ UNCHANGED <<jobResults, totalExpired, cleared, stored>>
      /\ looping \in [Invalidations -> Loops] /\ stored \in Seq(Jobs)
  BY DEF InvalidateDone, IInv, TypeInv
<1> DEFINE mine == {v} \X looping[v].seen
<1>2. \A x \in Invalidations : looping'[x] = IF x = v THEN Idle ELSE looping[x]
  BY <1>1
<1>3. looping[v].seen \subseteq Jobs
  BY <1>1 DEF Loops
<1>4. Pending' = Pending \ mine /\ Pending \cap mine = mine
  BY <1>2, <1>3 DEF Pending, Idle
<1>5. IsFiniteSet(looping[v].seen) /\ IsFiniteSet(mine) /\ Cardinality(mine) = Cardinality(looping[v].seen)
  <2>1. mine \in SUBSET Pending
    BY <1>4
  <2>2. IsFiniteSet(mine)
    BY <2>1, FS_Subset DEF Counted
  <2> DEFINE f == [j \in looping[v].seen |-> <<v, j>>]
  <2>3. f \in Bijection(looping[v].seen, mine)
    <3>1. f \in [looping[v].seen -> mine]
      OBVIOUS
    <3>2. \A a, b \in looping[v].seen : f[a] = f[b] => a = b
      OBVIOUS
    <3>3. ASSUME NEW e \in mine PROVE \E a \in looping[v].seen : f[a] = e
      <4>1. e[2] \in looping[v].seen /\ e = <<v, e[2]>>
        OBVIOUS
      <4>2. QED BY <4>1
    <3> HIDE DEF f, mine
    <3>4. QED BY <3>1, <3>2, <3>3 DEF Bijection, Injection, Surjection, IsInjective
  <2>4. f \in Injection(looping[v].seen, mine)
    BY <2>3 DEF Bijection
  <2> HIDE DEF mine, f
  <2>5. IsFiniteSet(looping[v].seen)
    BY <2>2, <2>4, FS_Injection
  <2>6. Cardinality(mine) = Cardinality(looping[v].seen)
    BY <2>3, <2>5, FS_Bijection DEF ExistsBijection
  <2>7. QED BY <2>2, <2>5, <2>6
<1>6. /\ IsFiniteSet(Pending')
      /\ Cardinality(Pending') = Cardinality(Pending) - Cardinality(looping[v].seen)
  <2> HIDE DEF mine
  <2>1. IsFiniteSet(Pending)
    BY DEF Counted
  <2>2. IsFiniteSet(Pending \ mine) /\ Cardinality(Pending \ mine) = Cardinality(Pending) - Cardinality(Pending \cap mine)
    BY <2>1, FS_Difference
  <2>3. QED BY <1>4, <1>5, <2>2
<1>7. /\ Cardinality(Pending) \in Nat /\ Cardinality(Pending') \in Nat
      /\ Cardinality(looping[v].seen) \in Nat /\ Cardinality(jobResults) \in Nat
      /\ Len(stored) \in Nat
  BY <1>1, <1>5, <1>6, FS_CardinalityType, LenProperties DEF Counted
<1>8. \A x \in Invalidations : looping'[x].doc = NoJob => looping'[x].seen = {}
  BY <1>2 DEF Counted, Idle
<1>9. totalInvalidated' \in Nat
  BY <1>1, <1>7 DEF Counted
<1>10. Len(stored') <= Cardinality(jobResults') + cleared' + totalExpired' + totalInvalidated' + Cardinality(Pending')
  BY <1>1, <1>6, <1>7 DEF Counted
<1>11. QED BY <1>1, <1>6, <1>8, <1>9, <1>10 DEF Counted

LEMMA CountedStep == ASSUME IInv, IInv', Counted, [Next]_vars PROVE Counted'
<1>1. TypeInv /\ NamesOK /\ TypeInv'
  BY DEF IInv
<1>2. /\ Cardinality(jobResults) \in Nat /\ Cardinality(Pending) \in Nat /\ Len(stored) \in Nat
      /\ IsFiniteSet(jobResults)
  BY <1>1, FS_CardinalityType, LenProperties DEF Counted, TypeInv
<1>3. ASSUME NEW j \in Jobs, StoreJob(j) PROVE Counted'
  <2>1. /\ jobResults' = jobResults \cup {j} /\ j \notin jobResults /\ stored' = Append(stored, j)
        /\ UNCHANGED <<looping, totalExpired, totalInvalidated, cleared>>
    BY <1>1, <1>3 DEF StoreJob, NamesOK, counts
  <2>2. Len(stored') = Len(stored) + 1
    BY <1>1, <2>1, AppendProperties DEF TypeInv
  <2>3. IsFiniteSet(jobResults') /\ Cardinality(jobResults') = Cardinality(jobResults) + 1
    BY <1>2, <2>1, FS_AddElement
  <2>4. Pending' = Pending
    BY <2>1 DEF Pending
  <2>5. Len(stored') <= Cardinality(jobResults') + cleared' + totalExpired' + totalInvalidated' + Cardinality(Pending')
    BY <1>2, <2>1, <2>2, <2>3, <2>4 DEF Counted
  <2>6. QED BY <2>1, <2>3, <2>4, <2>5 DEF Counted
<1>4. ASSUME NEW R \in SUBSET expired, RemoveEntries(R),
             UNCHANGED <<looping, totalInvalidated, cleared, stored>>
      PROVE  Counted'
  <2>1. /\ IsFiniteSet(jobResults') /\ Cardinality(jobResults') \in Nat /\ totalExpired' \in Nat
        /\ Cardinality(jobResults) + totalExpired = Cardinality(jobResults') + totalExpired'
    BY <1>1, <1>4, RemovalCounts DEF TypeInv
  <2>2. Pending' = Pending
    BY <1>4 DEF Pending
  <2>3. Len(stored') <= Cardinality(jobResults') + cleared' + totalExpired' + totalInvalidated' + Cardinality(Pending')
    BY <1>2, <1>4, <2>1, <2>2 DEF Counted
  <2>4. QED BY <1>4, <2>1, <2>2, <2>3 DEF Counted
<1>5. ASSUME NEW v \in Invalidations, NEW d \in Docs, Invalidate(v, d) PROVE Counted'
  <2>1. PICK j \in Indexed(d) :
           /\ looping' = [looping EXCEPT ![v] = [doc |-> d, set |-> documentIndex[d],
                                                 seen |-> {j}, due |-> Indexed(d)]]
           /\ RemoveEntries({j}) /\ looping[v].doc = NoJob
           /\ UNCHANGED <<totalInvalidated, cleared, stored>>
    BY <1>5 DEF Invalidate
  <2>2. j \in Jobs /\ looping[v].seen = {} /\ d # NoJob
    BY <1>1, <2>1, LintStorageAssumption DEF TypeInv, Indexed, Counted
  <2>3. /\ looping' \in [Invalidations -> Loops] /\ looping'[v].seen = {j} /\ looping'[v].doc = d
        /\ \A x \in Invalidations \ {v} : looping'[x] = looping[x]
    BY <1>1, <2>1 DEF TypeInv
  <2>4. j \notin looping[v].seen /\ looping'[v].seen = looping[v].seen \cup {j} /\ looping'[v].doc # NoJob
    BY <2>2, <2>3
  <2>5. QED BY <2>1, <2>2, <2>3, <2>4, VisitCounts
<1>6. ASSUME NEW v \in Invalidations, InvalidateNext(v) PROVE Counted'
  <2>1. PICK j \in Unseen(v) :
           /\ looping' = [looping EXCEPT ![v].seen = @ \cup {j}]
           /\ RemoveEntries({j} \cap jobResults) /\ looping[v].doc # NoJob
           /\ UNCHANGED <<totalInvalidated, cleared, stored>>
    BY <1>6 DEF InvalidateNext
  <2>2. j \in Jobs /\ j \notin looping[v].seen
    BY <1>1, <2>1 DEF TypeInv, Unseen, IInv, LoopOK
  <2>3. /\ looping' \in [Invalidations -> Loops] /\ looping'[v].seen = looping[v].seen \cup {j}
        /\ looping'[v].doc = looping[v].doc
        /\ \A x \in Invalidations \ {v} : looping'[x] = looping[x]
    BY <1>1, <2>1 DEF TypeInv, Loops
  <2>4. {j} \cap jobResults \in SUBSET {j}
    OBVIOUS
  <2>5. QED BY <2>1, <2>2, <2>3, <2>4, VisitCounts
<1>7. ASSUME Clear PROVE Counted'
  <2>1. /\ jobResults' = {} /\ cleared' = cleared + Cardinality(jobResults)
        /\ UNCHANGED <<looping, totalExpired, totalInvalidated, stored>>
    BY <1>7 DEF Clear
  <2>2. Pending' = Pending /\ IsFiniteSet({}) /\ Cardinality({}) = 0
    BY <2>1, FS_EmptySet DEF Pending
  <2>3. Len(stored') <= Cardinality(jobResults') + cleared' + totalExpired' + totalInvalidated' + Cardinality(Pending')
    BY <1>2, <2>1, <2>2 DEF Counted
  <2>4. QED BY <1>2, <2>1, <2>2, <2>3 DEF Counted
<1>8. ASSUME UNCHANGED <<jobResults, looping, totalExpired, totalInvalidated, cleared, stored>>
      PROVE  Counted'
  BY <1>8 DEF Counted, Pending
<1>9. ASSUME NEW j \in Jobs, Retrieve(j) PROVE Counted'
  BY <1>4, <1>9 DEF Retrieve
<1>10. ASSUME CleanupExpired PROVE Counted'
  BY <1>4, <1>10 DEF CleanupExpired
<1>11. ASSUME NEW j \in Jobs, Expire(j) PROVE Counted'
  BY <1>8, <1>11 DEF Expire, counts
<1>12. CASE UNCHANGED vars
  BY <1>8, <1>12 DEF vars, counts
<1>13. QED BY <1>3, <1>5, <1>6, <1>7, <1>9, <1>10, <1>11, <1>12, DoneCounts DEF Next

-----------------------------------------------------------------------------
(* The storage as a whole                                                    *)

\* What the indexes need beyond the document index: the times, the counters, and
\* the jobs that raced being jobs.
WholeInv == IInv /\ TimesOK /\ Counted /\ raced \subseteq Jobs

LEMMA RacedStep == ASSUME IInv, raced \subseteq Jobs, [Next]_vars PROVE raced' \subseteq Jobs
<1>1. ASSUME NEW j \in Jobs, StoreJob(j) PROVE raced' \subseteq Jobs
  <2>1. raced' = raced \cup {j} \/ raced' = raced
    BY <1>1 DEF StoreJob
  <2>2. QED BY <2>1
<1>2. ASSUME UNCHANGED raced PROVE raced' \subseteq Jobs
  BY <1>2
<1>3. QED
  BY <1>1, <1>2 DEF Next, vars, Expire, Retrieve, CleanupExpired, Invalidate, InvalidateNext,
                    InvalidateDone, Clear

LEMMA WholeInvariance == Spec => []WholeInv
<1>1. Init => TimesOK /\ Counted /\ raced \subseteq Jobs
  <2>1. Init => raced \subseteq Jobs
    BY DEF Init
  <2>2. QED BY <2>1, TimesInit, CountedInit
<1>2. IInv /\ IInv' /\ (TimesOK /\ Counted /\ raced \subseteq Jobs) /\ [Next]_vars
          => (TimesOK /\ Counted /\ raced \subseteq Jobs)'
  BY TimesStep, CountedStep, RacedStep
<1>3. QED BY <1>1, <1>2, Invariance, PTL DEF Spec, WholeInv

\* Once no invalidate is under way none of its visits is left to be counted.
LEMMA RemovalsCounted == ASSUME WholeInv PROVE RemovalsAreCounted
<1> SUFFICES ASSUME \A v \in Invalidations : looping[v].doc = NoJob
             PROVE  GetStats.totalStored - GetStats.totalJobs - cleared
                        <= GetStats.totalExpired + GetStats.totalInvalidated
  BY DEF RemovalsAreCounted
<1>1. Pending = {}
  BY DEF WholeInv, Counted, Pending
<1>2. Cardinality(Pending) = 0
  BY <1>1, FS_EmptySet
<1>3. Cardinality(jobResults) \in Nat /\ Len(stored) \in Nat
  BY FS_CardinalityType, LenProperties DEF WholeInv, Counted, IInv, TypeInv
<1>4. Len(stored) <= Cardinality(jobResults) + cleared + totalExpired + totalInvalidated
  BY <1>2, <1>3 DEF WholeInv, Counted
<1>5. /\ GetStats.totalStored = Len(stored) /\ GetStats.totalJobs = Cardinality(jobResults)
      /\ GetStats.totalExpired = totalExpired /\ GetStats.totalInvalidated = totalInvalidated
  BY DEF GetStats
<1>6. QED BY <1>3, <1>4, <1>5 DEF WholeInv, Counted

\* Between any two steps of the calls that interleave, the storage's indexes hold
\* what is stored, the one by time newest first, a lookup by key answers the latest
\* job stored under it, whatever the document index misses raced an invalidate, every
\* removal was counted, and a listing through the indexes is one by the fields.
THEOREM StorageCorrect == Spec => []StorageIsConsistent
<1>1. WholeInv => TypeOK
  BY DEF WholeInv, IInv, TypeInv, TimesOK, Counted, TypeOK, Loops
<1>2. WholeInv => IndexesAgree
  BY DEF WholeInv, IInv, FieldsOK, TimesOK, Sorted, IndexesAgree
<1>3. WholeInv => RemovalsAreCounted
  BY RemovalsCounted
<1>4. WholeInv => LookupIsLatest /\ OrphansAreRaced
  BY DEF WholeInv, IInv
<1>5. WholeInv => IInv
  BY DEF WholeInv
<1>6. QED BY <1>1, <1>2, <1>3, <1>4, WholeInvariance, ListingCorrect, PTL DEF StorageIsConsistent

-----------------------------------------------------------------------------
(* The invariant of the API                                                  *)

\* The jobs the orchestrator has ended are the ones stored, once each and with the
\* status it reports; without a ttl nothing expires.
JobsInv ==
    /\ jobs \in [Jobs -> {"none", "running"} \cup Statuses]
    /\ \A j \in Jobs : jobs[j] \in Statuses <=> j \in ToSet(stored)
    /\ \A j \in ToSet(stored) : jobs[j] = status[j]
    /\ IsFiniteSet({j \in Jobs : jobs[j] # "none"})
    /\ IsInjective(stored) /\ expired = {}

\* Where a client is: before it has asked for anything new, and after its job ended.
Fresh == {"idle", "submitting", "refused", "waiting", "finished", "reproducing", "answered"}
Over == Told \ {"waiting"}
Listings == {"listing", "enriching", "whole", "disturbed"}

Catalogued == [id : Rules, level : {Level(s) : s \in Severity}]
Conversations ==
    [at : Fresh \cup Over \cup Listings, key : Keys \cup {NoJob}, job : Jobs \cup {NoJob},
     filter : Filters \cup {NoJob}, total : Nat, got : Seq(Nat) \cup Seq(Jobs),
     rules : Seq(Catalogued), page : Seq(Jobs),
     by : SUBSET Statuses, due : SUBSET Jobs, gone : SUBSET Jobs]

\* A client starts with nothing, and reads numbers or jobs.
StartOK(r) ==
    /\ r.at = "idle" => r = Waits
    /\ r.at = "submitting" => r.key \in Keys
    /\ r.at \in Fresh => r.got = <<>>
    /\ r.at \in Told => r.got \in Seq(Nat)
    /\ r.at \in Listings => r.got \in Seq(Jobs)

\* The job a client was given is the orchestrator's, and stored once it is over.
JobOK(r) ==
    /\ r.at \in Told => r.job \in Jobs /\ jobs[r.job] # "none" /\ KeyOf[r.job] = r.key
    /\ r.at \in Over => r.job \in ToSet(stored)
    /\ r.at = "gone" => r.job \notin jobResults

\* The places of the results a client looks for in a report.
Mine(j, f) == Ascending({i \in DOMAIN BuildSarif(j).results : Shows(BuildSarif(j).results[i], f)})

\* What a client has read is what the statistics counted, and a beginning of the
\* issues that pass, or the report.
ReadOK(r) ==
    /\ r.at \in {"reading", "done", "reported"} =>
           r.filter \in Filters /\ r.total = Breakdown(r.job)[r.filter.by][r.filter.is]
    /\ r.at \in {"reading", "done"} =>
           /\ Len(r.got) <= Len(Matching(r.job, r.filter))
           /\ \A i \in 1..Len(r.got) : r.got[i] = Matching(r.job, r.filter)[i]
    /\ r.at = "done" => Len(r.got) = Len(Matching(r.job, r.filter))
    /\ r.at = "reported" => r.got = Mine(r.job, r.filter) /\ r.rules = RulesOf(r.job)

\* The number of jobs before j in a listing.
Place(S, j) == Before(Candidates(S, {}, {}), Newer, j)

\* As long as nothing was removed, what a listing began with is read or still ahead,
\* since storing a job only moves others back.
ListOK(r) ==
    /\ r.at = "listing" => r.page = <<>>
    /\ r.at \in {"listing", "enriching"} =>
           /\ r.gone \subseteq Removed
           /\ r.gone = Removed =>
                  /\ r.due \subseteq Candidates(r.by, {}, {})
                  /\ \A j \in r.due : \/ j \in ToSet(r.got) \cup ToSet(r.page)
                                      \/ Place(r.by, j) >= Len(r.got) + Len(r.page)
    /\ r.at = "enriching" /\ r.gone = Removed /\ Len(r.page) # r.total =>
           r.due \subseteq ToSet(r.got) \cup ToSet(r.page)
    /\ r.at = "whole" => r.due \subseteq ToSet(r.got)

Talks(r) == StartOK(r) /\ JobOK(r) /\ ReadOK(r) /\ ListOK(r)

ApiInv ==
    /\ WholeInv /\ JobsInv
    /\ client \in [Clients -> Conversations]
    /\ \A c \in Clients : \E r \in Conversations : r = client[c] /\ Talks(r)

-----------------------------------------------------------------------------
(* What the answers are computed by                                          *)

Issues == [code : Rules, severity : Severity, path : Paths]

\* Places of a sequence are finitely many numbers.
LEMMA PlacesFinite ==
  ASSUME NEW S, NEW q \in Seq(S), NEW K \in SUBSET (DOMAIN q)
  PROVE  K \in SUBSET Nat /\ IsFiniteSet(K)
<1>1. DOMAIN q = 1..Len(q) /\ Len(q) \in Nat /\ IsFiniteSet(1..Len(q))
  BY LenProperties, FS_Interval
<1>2. K \in SUBSET Nat
  BY <1>1
<1>3. IsFiniteSet(K)
  BY <1>1, FS_Subset
<1>4. QED BY <1>2, <1>3

\* The issues of a result are issues, and of no rule that is off.
LEMMA IssuesType ==
  ASSUME NEW j \in Jobs
  PROVE  /\ IssuesOf(j) \in Seq(Issues)
         /\ \A i \in DOMAIN IssuesOf(j) :
                ~ (IssuesOf(j)[i].code \in DOMAIN Overrides[j]
                   /\ Overrides[j][IssuesOf(j)[i].code] = Off)
<1> DEFINE found == Found[j]
           over == Overrides[j]
           Of(issue) == IF issue.code \in DOMAIN over THEN over[issue.code] ELSE issue.severity
           K == {i \in DOMAIN found : Of(found[i]) # Off}
           kept == Ascending(K)
           q == ApplyRuleOverrides(found, over)
<1>1. found \in Seq(Issues)
  BY HttpApiAssumption DEF Issues
<1>2. \A x \in DOMAIN over : over[x] \in Severity \cup {Off}
  BY HttpApiAssumption
<1>3. K \in SUBSET Nat /\ IsFiniteSet(K) /\ K \in SUBSET (DOMAIN found)
  <2>1. K \in SUBSET (DOMAIN found)
    OBVIOUS
  <2> HIDE DEF K, found
  <2>2. QED BY <1>1, <2>1, PlacesFinite
<1>4. \A i \in K : found[i] \in Issues
  BY <1>1, <1>3, LenProperties
<1>5. \A i \in K : Of(found[i]) \in Severity
  <2> SUFFICES ASSUME NEW i \in K PROVE Of(found[i]) \in Severity
    OBVIOUS
  <2>1. Of(found[i]) # Off
    OBVIOUS
  <2>2. CASE found[i].code \in DOMAIN over
    BY <1>2, <2>1, <2>2
  <2>3. CASE found[i].code \notin DOMAIN over
    BY <1>4, <2>3 DEF Issues
  <2>4. QED BY <2>2, <2>3
<1>6. q = [n \in DOMAIN kept |-> [found[kept[n]] EXCEPT !.severity = Of(found[kept[n]])]]
  BY DEF ApplyRuleOverrides
<1>7. /\ Cardinality(K) \in Nat /\ DOMAIN kept = 1..Cardinality(K)
      /\ \A n \in 1..Cardinality(K) : kept[n] \in K
  <2> HIDE DEF K
  <2>1. QED BY <1>3, Sequenced
<1>8. \A i \in K : found[i].code \in DOMAIN over => over[found[i].code] # Off
  OBVIOUS
<1> HIDE DEF K, kept, found, q, over, Of
<1> DEFINE m == Cardinality(K)
<1>9. \A n \in 1..m : q[n] \in Issues /\ q[n].code = found[kept[n]].code
  <2> SUFFICES ASSUME NEW n \in 1..m PROVE q[n] \in Issues /\ q[n].code = found[kept[n]].code
    OBVIOUS
  <2>1. kept[n] \in K /\ found[kept[n]] \in Issues /\ Of(found[kept[n]]) \in Severity
    BY <1>4, <1>5, <1>7
  <2>2. q[n] = [found[kept[n]] EXCEPT !.severity = Of(found[kept[n]])]
    BY <1>6, <1>7
  <2>3. QED BY <2>1, <2>2 DEF Issues
<1>10. q \in Seq(Issues) /\ DOMAIN q = 1..m
  <2>1. DOMAIN q = 1..m /\ q = [n \in 1..m |-> q[n]] /\ m \in Nat
    BY <1>6, <1>7
  <2>2. q \in [1..m -> Issues]
    BY <1>9, <2>1
  <2>3. q \in Seq(Issues)
    BY <2>1, <2>2
  <2>4. QED BY <2>1, <2>3
<1>11. \A n \in 1..m : ~ (q[n].code \in DOMAIN over /\ over[q[n].code] = Off)
  BY <1>7, <1>8, <1>9
<1>12. <<>> \in Seq(Issues) /\ DOMAIN <<>> = {}
  OBVIOUS
<1>13. IssuesOf(j) = q \/ IssuesOf(j) = <<>>
  BY DEF IssuesOf, q, found, over
<1>14. QED BY <1>10, <1>11, <1>12, <1>13 DEF over

\* A list of places of issues has each once, in order.
LEMMA Chosen ==
  ASSUME NEW j \in Jobs, NEW K \in SUBSET (DOMAIN IssuesOf(j))
  PROVE  /\ IsFiniteSet(K) /\ Cardinality(K) \in Nat
         /\ Ascending(K) \in Seq(Nat) /\ Len(Ascending(K)) = Cardinality(K)
         /\ DOMAIN Ascending(K) = 1..Cardinality(K)
         /\ \A n \in 1..Cardinality(K) : Ascending(K)[n] \in K
         /\ \A x \in K : \E n \in 1..Cardinality(K) : Ascending(K)[n] = x
         /\ \A a, b \in 1..Cardinality(K) : a < b => Ascending(K)[a] < Ascending(K)[b]
<1>1. IssuesOf(j) \in Seq(Issues)
  BY IssuesType
<1>2. K \in SUBSET Nat /\ IsFiniteSet(K)
  BY <1>1, PlacesFinite
<1>3. /\ Ascending(K) \in Seq(K) /\ Len(Ascending(K)) = Cardinality(K)
      /\ Cardinality(K) \in Nat /\ DOMAIN Ascending(K) = 1..Cardinality(K)
      /\ \A n \in 1..Cardinality(K) : Ascending(K)[n] \in K
      /\ \A x \in K : \E n \in 1..Cardinality(K) : Ascending(K)[n] = x
      /\ \A a, b \in 1..Cardinality(K) : a < b => Ascending(K)[a] < Ascending(K)[b]
  BY <1>2, Sequenced
<1>4. Ascending(K) \in Seq(Nat)
  <2>1. \A n \in 1..Cardinality(K) : Ascending(K)[n] \in Nat
    BY <1>2, <1>3
  <2>2. Ascending(K) \in [1..Cardinality(K) -> Nat]
    <3>1. Ascending(K) \in [1..Len(Ascending(K)) -> K]
      BY <1>3, LenProperties
    <3>2. QED BY <1>2, <1>3, <3>1
  <2>3. QED BY <1>3, <2>2
<1>5. QED BY <1>2, <1>3, <1>4

\* slice(offset, offset + limit)
LEMMA Sliced ==
  ASSUME NEW S, NEW q \in Seq(S), NEW o \in Nat, NEW limit \in Nat
  PROVE  /\ Slice(q, o, limit) \in Seq(S)
         /\ Len(Slice(q, o, limit)) \in Nat /\ Len(q) \in Nat
         /\ Len(Slice(q, o, limit)) <= limit
         /\ o + limit <= Len(q) => Len(Slice(q, o, limit)) = limit
         /\ o <= Len(q) /\ Len(q) <= o + limit => Len(Slice(q, o, limit)) = Len(q) - o
         /\ \A i \in 1..Len(q) : o < i /\ i <= o + limit =>
                i - o \in 1..Len(Slice(q, o, limit))
         /\ \A i \in 1..Len(Slice(q, o, limit)) :
                o + i \in 1..Len(q) /\ Slice(q, o, limit)[i] = q[o + i]
<1> DEFINE e == IF o + limit < Len(q) THEN o + limit ELSE Len(q)
           p == Slice(q, o, limit)
<1>1. Len(q) \in Nat /\ \A i \in 1..Len(q) : q[i] \in S
  BY LenProperties
<1>2. /\ e \in Nat /\ e <= Len(q) /\ e <= o + limit
      /\ o + limit <= Len(q) => e = o + limit
      /\ Len(q) <= o + limit => e = Len(q)
  BY <1>1
<1>3. p = SubSeq(q, o + 1, e)
  BY DEF Slice
<1> HIDE DEF e
<1>4. /\ SubSeq(q, o + 1, e) \in Seq(S)
      /\ Len(SubSeq(q, o + 1, e)) = IF o + 1 <= e THEN e - (o + 1) + 1 ELSE 0
      /\ \A i \in 1..(e - (o + 1) + 1) : SubSeq(q, o + 1, e)[i] = q[(o + 1) + i - 1]
  <2>1. o + 1 \in Int /\ e \in Int /\ \A i \in (o + 1)..e : q[i] \in S
    BY <1>1, <1>2
  <2>2. QED BY <2>1, SubSeqProperties
<1> HIDE DEF p
<1>5. Len(p) = IF o + 1 <= e THEN e - o ELSE 0
  <2>1. Len(p) = IF o + 1 <= e THEN e - (o + 1) + 1 ELSE 0
    BY <1>3, <1>4
  <2>2. e - (o + 1) + 1 = e - o
    BY <1>2
  <2>3. QED BY <2>1, <2>2
<1>6. ASSUME NEW i \in 1..Len(p) PROVE o + i \in 1..Len(q) /\ p[i] = q[o + i]
  <2>1. i \in 1..(e - (o + 1) + 1) /\ o + i \in 1..Len(q) /\ (o + 1) + i - 1 = o + i
    BY <1>1, <1>2, <1>5
  <2>2. p[i] = q[(o + 1) + i - 1]
    BY <1>3, <1>4, <2>1
  <2>3. QED BY <2>1, <2>2
<1>7. \A i \in 1..Len(q) : o < i /\ i <= o + limit => i - o \in 1..Len(p)
  BY <1>1, <1>2, <1>5
<1>8. /\ Len(p) \in Nat /\ Len(p) <= limit
      /\ o + limit <= Len(q) => Len(p) = limit
      /\ o <= Len(q) /\ Len(q) <= o + limit => Len(p) = Len(q) - o
  BY <1>1, <1>2, <1>5
<1>9. p \in Seq(S)
  BY <1>3, <1>4
<1>10. QED BY <1>1, <1>6, <1>7, <1>8, <1>9 DEF p

\* What the statistics count of an issue.
Counts(issue, f) ==
    \/ f.by = "rule" /\ issue.code = f.is
    \/ f.by = "severity" /\ issue.severity = f.is
    \/ f.by = "path" /\ issue.path = f.is

Tallied(j, f) == {i \in DOMAIN IssuesOf(j) : Counts(IssuesOf(j)[i], f)}
Passing(j, f) == {i \in DOMAIN IssuesOf(j) : Passes(IssuesOf(j)[i], f)}
Showing(j, f) == {i \in DOMAIN IssuesOf(j) : Shows(ResultsOf(j)[i], f)}

\* The filters are by rule, by severity or by path.
LEMMA FilterType ==
  ASSUME NEW f \in Filters
  PROVE  \/ f.by = "rule" /\ f.is \in Rules
         \/ f.by = "severity" /\ f.is \in Severity
         \/ f.by = "path" /\ f.is \in Paths
<1>1. \/ f \in [by : {"rule"}, is : Rules] \/ f \in [by : {"severity"}, is : Severity]
      \/ f \in [by : {"path"}, is : Paths]
  BY HttpApiAssumption
<1>2. QED BY <1>1

\* The number that the statistics have for a filter.
LEMMA StatsCount ==
  ASSUME NEW j \in Jobs, NEW f \in Filters
  PROVE  /\ Breakdown(j)[f.by][f.is] = Cardinality(Tallied(j, f))
         /\ Cardinality(Tallied(j, f)) \in Nat
<1> DEFINE issues == IssuesOf(j)
<1>1. Cardinality(Tallied(j, f)) \in Nat
  <2>1. Tallied(j, f) \in SUBSET (DOMAIN IssuesOf(j))
    BY DEF Tallied
  <2>2. IsFiniteSet(Tallied(j, f))
    BY <2>1, Chosen
  <2>3. QED BY <2>2, FS_CardinalityType
<1>2. CASE f.by = "rule" /\ f.is \in Rules
  <2>1. Breakdown(j)[f.by][f.is] = Cardinality({i \in DOMAIN issues : issues[i].code = f.is})
    BY <1>2 DEF Breakdown
  <2>2. {i \in DOMAIN issues : issues[i].code = f.is} = Tallied(j, f)
    <3>1. \A i \in DOMAIN issues : Counts(issues[i], f) <=> issues[i].code = f.is
      BY <1>2 DEF Counts
    <3>2. QED BY <3>1 DEF Tallied
  <2>3. QED BY <1>1, <2>1, <2>2
<1>3. CASE f.by = "severity" /\ f.is \in Severity
  <2>1. Breakdown(j)[f.by][f.is] = Cardinality({i \in DOMAIN issues : issues[i].severity = f.is})
    BY <1>3 DEF Breakdown
  <2>2. {i \in DOMAIN issues : issues[i].severity = f.is} = Tallied(j, f)
    <3>1. \A i \in DOMAIN issues : Counts(issues[i], f) <=> issues[i].severity = f.is
      BY <1>3 DEF Counts
    <3>2. QED BY <3>1 DEF Tallied
  <2>3. QED BY <1>1, <2>1, <2>2
<1>4. CASE f.by = "path" /\ f.is \in Paths
  <2>1. Breakdown(j)[f.by][f.is] = Cardinality({i \in DOMAIN issues : issues[i].path = f.is})
    BY <1>4 DEF Breakdown
  <2>2. {i \in DOMAIN issues : issues[i].path = f.is} = Tallied(j, f)
    <3>1. \A i \in DOMAIN issues : Counts(issues[i], f) <=> issues[i].path = f.is
      BY <1>4 DEF Counts
    <3>2. QED BY <3>1 DEF Tallied
  <2>3. QED BY <1>1, <2>1, <2>2
<1>5. QED BY <1>2, <1>3, <1>4, FilterType

\* The issues that pass a filter are those the statistics count, or more for a path.
LEMMA PassCount ==
  ASSUME NEW j \in Jobs, NEW f \in Filters
  PROVE  /\ Passing(j, f) \in SUBSET (DOMAIN IssuesOf(j)) /\ IsFiniteSet(Passing(j, f))
         /\ Matching(j, f) = Ascending(Passing(j, f))
         /\ Breakdown(j)[f.by][f.is] \in Nat /\ Cardinality(Passing(j, f)) \in Nat
         /\ Breakdown(j)[f.by][f.is] <= Cardinality(Passing(j, f))
         /\ f.by # "path" => Breakdown(j)[f.by][f.is] = Cardinality(Passing(j, f))
<1>1. Passing(j, f) \in SUBSET (DOMAIN IssuesOf(j)) /\ Matching(j, f) = Ascending(Passing(j, f))
  BY DEF Passing, Matching
<1>2. IsFiniteSet(Passing(j, f)) /\ Cardinality(Passing(j, f)) \in Nat
  BY <1>1, Chosen
<1>3. \A i \in DOMAIN IssuesOf(j) : IssuesOf(j)[i] \in Issues
  BY IssuesType, LenProperties
<1>4. Tallied(j, f) \subseteq Passing(j, f) /\ (f.by # "path" => Tallied(j, f) = Passing(j, f))
  <2>1. ASSUME NEW i \in DOMAIN IssuesOf(j)
        PROVE  /\ Counts(IssuesOf(j)[i], f) => Passes(IssuesOf(j)[i], f)
               /\ f.by # "path" => (Passes(IssuesOf(j)[i], f) <=> Counts(IssuesOf(j)[i], f))
    <3>1. CASE f.by = "rule"
      BY <3>1 DEF Counts, Passes
    <3>2. CASE f.by = "severity"
      BY <3>2 DEF Counts, Passes
    <3>3. CASE f.by = "path"
      <4>1. IssuesOf(j)[i].path \in Paths
        BY <1>3 DEF Issues
      <4>2. Passes(IssuesOf(j)[i], f) <=> <<IssuesOf(j)[i].path, f.is>> \in StartsWith
        BY <3>3 DEF Passes
      <4>3. \A p \in Paths : <<p, p>> \in StartsWith
        BY HttpApiAssumption
      <4>4. QED BY <3>3, <4>1, <4>2, <4>3 DEF Counts
    <3>4. QED BY <3>1, <3>2, <3>3, FilterType
  <2>2. QED BY <2>1 DEF Tallied, Passing
<1>5. Cardinality(Tallied(j, f)) <= Cardinality(Passing(j, f))
  <2>1. Tallied(j, f) \in SUBSET Passing(j, f)
    BY <1>4
  <2>2. QED BY <1>2, <2>1, FS_Subset
<1>6. QED BY <1>1, <1>2, <1>4, <1>5, StatsCount

\* The same of the results a client looks for in a report: errors and warnings have
\* levels of their own.
LEMMA ShowCount ==
  ASSUME NEW j \in Jobs, NEW f \in Filters
  PROVE  /\ Showing(j, f) \in SUBSET (DOMAIN IssuesOf(j)) /\ IsFiniteSet(Showing(j, f))
         /\ Mine(j, f) = Ascending(Showing(j, f))
         /\ Breakdown(j)[f.by][f.is] \in Nat /\ Cardinality(Showing(j, f)) \in Nat
         /\ Breakdown(j)[f.by][f.is] <= Cardinality(Showing(j, f))
         /\ f \notin [by : {"severity"}, is : {2, 3}] =>
                Breakdown(j)[f.by][f.is] = Cardinality(Showing(j, f))
<1>1. /\ BuildSarif(j).results = ResultsOf(j) /\ DOMAIN ResultsOf(j) = DOMAIN IssuesOf(j)
      /\ Showing(j, f) \in SUBSET (DOMAIN IssuesOf(j))
  BY DEF BuildSarif, ResultsOf, Showing
<1>2. Mine(j, f) = Ascending(Showing(j, f))
  BY <1>1 DEF Mine, Showing
<1>3. IsFiniteSet(Showing(j, f)) /\ Cardinality(Showing(j, f)) \in Nat
  BY <1>1, Chosen
<1>4. \A i \in DOMAIN IssuesOf(j) : IssuesOf(j)[i] \in Issues
  BY IssuesType, LenProperties
<1>5. /\ Tallied(j, f) \subseteq Showing(j, f)
      /\ f \notin [by : {"severity"}, is : {2, 3}] => Tallied(j, f) = Showing(j, f)
  <2>1. ASSUME NEW i \in DOMAIN IssuesOf(j)
        PROVE  /\ Counts(IssuesOf(j)[i], f) => Shows(ResultsOf(j)[i], f)
               /\ f \notin [by : {"severity"}, is : {2, 3}] =>
                      (Shows(ResultsOf(j)[i], f) <=> Counts(IssuesOf(j)[i], f))
    <3>1. /\ ResultsOf(j)[i].ruleId = IssuesOf(j)[i].code /\ ResultsOf(j)[i].path = IssuesOf(j)[i].path
          /\ ResultsOf(j)[i].level = Level(IssuesOf(j)[i].severity)
      BY DEF ResultsOf
    <3>2. CASE f.by = "rule"
      BY <3>1, <3>2 DEF Counts, Shows
    <3>3. CASE f.by = "path"
      BY <3>1, <3>3 DEF Counts, Shows
    <3>4. CASE f.by = "severity"
      <4>1. f.is \in Severity /\ IssuesOf(j)[i].severity \in Severity
        BY <1>4, <3>4, FilterType DEF Issues
      <4>2. Shows(ResultsOf(j)[i], f) <=> Level(IssuesOf(j)[i].severity) = Level(f.is)
        BY <3>1, <3>4 DEF Shows
      <4>3. f.is \notin {2, 3} =>
                (Level(IssuesOf(j)[i].severity) = Level(f.is) <=> IssuesOf(j)[i].severity = f.is)
        BY <4>1 DEF Level, Severity
      <4>4. f \notin [by : {"severity"}, is : {2, 3}] => f.is \notin {2, 3}
        <5>1. f \in [by : {"rule"}, is : Rules] \cup [by : {"severity"}, is : Severity]
                         \cup [by : {"path"}, is : Paths]
          BY HttpApiAssumption
        <5>2. f = [by |-> "severity", is |-> f.is]
          BY <3>4, <5>1
        <5>3. QED BY <5>2
      <4>5. QED BY <3>4, <4>2, <4>3, <4>4 DEF Counts
    <3>5. QED BY <3>2, <3>3, <3>4, FilterType
  <2>2. QED BY <2>1 DEF Tallied, Showing
<1>6. Cardinality(Tallied(j, f)) <= Cardinality(Showing(j, f))
  <2>1. Tallied(j, f) \in SUBSET Showing(j, f)
    BY <1>5
  <2>2. QED BY <1>3, <2>1, FS_Subset
<1>7. QED BY <1>1, <1>2, <1>3, <1>5, <1>6, StatsCount

\* The issues that are the first of their rule.
Firsts(j) == {i \in DOMAIN IssuesOf(j) :
                 \A h \in 1..(i - 1) : IssuesOf(j)[h].code # IssuesOf(j)[i].code}

\* The catalogue has each rule of the issues once.
LEMMA RulesOnce ==
  ASSUME NEW j \in Jobs
  PROVE  LET rules == RulesOf(j)
             ids   == {rules[i].id : i \in DOMAIN rules}
         IN  /\ rules \in Seq(Catalogued)
             /\ ids = {IssuesOf(j)[i].code : i \in DOMAIN IssuesOf(j)}
             /\ Len(rules) = Cardinality(ids)
<1> DEFINE issues == IssuesOf(j)
           rules == RulesOf(j)
           ids == {rules[i].id : i \in DOMAIN rules}
           K == Firsts(j)
           q == Ascending(K)
           m == Cardinality(K)
<1>1. issues \in Seq(Issues) /\ DOMAIN issues = 1..Len(issues) /\ Len(issues) \in Nat
  BY IssuesType, LenProperties
<1>2. rules = [n \in DOMAIN q |-> [id |-> issues[q[n]].code, level |-> Level(issues[q[n]].severity)]]
  BY DEF RulesOf, Catalogue, Firsts
<1>3. K \in SUBSET (DOMAIN issues)
  BY DEF Firsts
<1>4. /\ m \in Nat /\ DOMAIN q = 1..m
      /\ \A n \in 1..m : q[n] \in K
      /\ \A x \in K : \E n \in 1..m : q[n] = x
      /\ \A a, b \in 1..m : a < b => q[a] < q[b]
  BY <1>3, Chosen
<1> HIDE DEF q, m, rules
<1>5. DOMAIN rules = 1..m /\ \A n \in 1..m : rules[n].id = issues[q[n]].code
  BY <1>2, <1>4
<1>6. \A i, k \in K : issues[i].code = issues[k].code => i = k
  <2> SUFFICES ASSUME NEW i \in K, NEW k \in K, i < k, issues[i].code = issues[k].code
               PROVE FALSE
    <3>1. \A i, k \in K : i = k \/ i < k \/ k < i
      BY <1>1, <1>3
    <3>2. QED BY <3>1
  <2>1. i \in 1..(k - 1)
    BY <1>1, <1>3
  <2>2. QED BY <2>1 DEF Firsts
<1>7. ASSUME NEW i \in DOMAIN issues PROVE \E k \in K : issues[k].code = issues[i].code
  <2> DEFINE same == {h \in DOMAIN issues : issues[h].code = issues[i].code}
  <2>1. same \in SUBSET Nat /\ same # {}
    BY <1>1
  <2>2. PICK k \in same : \A h \in same : k <= h
    <3> HIDE DEF same
    <3>1. QED BY <2>1, First
  <2>3. \A h \in 1..(k - 1) : issues[h].code # issues[k].code
    <3> SUFFICES ASSUME NEW h \in 1..(k - 1), issues[h].code = issues[k].code PROVE FALSE
      OBVIOUS
    <3>1. h \in DOMAIN issues /\ h < k
      BY <1>1
    <3>2. k <= h
      BY <2>2, <3>1
    <3>3. QED BY <1>1, <3>1, <3>2
  <2>4. QED BY <2>3 DEF Firsts
<1>8. ids = {issues[i].code : i \in DOMAIN issues}
  <2>1. ASSUME NEW x \in ids PROVE \E i \in DOMAIN issues : x = issues[i].code
    BY <1>3, <1>4, <1>5
  <2>2. ASSUME NEW i \in DOMAIN issues PROVE issues[i].code \in ids
    <3>1. PICK k \in K : issues[k].code = issues[i].code
      BY <1>7
    <3>2. PICK n \in 1..m : q[n] = k
      BY <1>4
    <3>3. rules[n].id = issues[i].code /\ n \in DOMAIN rules
      BY <1>5, <3>1, <3>2
    <3>4. QED BY <3>3
  <2>3. QED BY <2>1, <2>2
<1>9. Cardinality(ids) = m
  <2> DEFINE f == [n \in 1..m |-> rules[n].id]
  <2>1. f \in [1..m -> ids]
    BY <1>5
  <2>2. \A a, b \in 1..m : f[a] = f[b] => a = b
    <3> SUFFICES ASSUME NEW a \in 1..m, NEW b \in 1..m, rules[a].id = rules[b].id PROVE a = b
      OBVIOUS
    <3>1. q[a] = q[b]
      BY <1>4, <1>5, <1>6
    <3>2. q[a] \in Nat /\ q[b] \in Nat
      BY <1>1, <1>3, <1>4
    <3>3. ~(a < b) /\ ~(b < a)
      BY <1>4, <3>1, <3>2
    <3>4. QED BY <1>4, <3>3
  <2>3. \A x \in ids : \E a \in 1..m : f[a] = x
    BY <1>5
  <2> HIDE DEF f, ids
  <2>4. f \in Bijection(1..m, ids)
    BY <2>1, <2>2, <2>3 DEF Bijection, Injection, Surjection, IsInjective
  <2>5. ExistsBijection(1..m, ids)
    BY <2>4 DEF ExistsBijection
  <2>6. QED BY <1>4, <2>5, FS_CountingElements
<1>10. Len(rules) = m /\ rules \in Seq(Catalogued)
  <2>1. \A n \in 1..m : issues[q[n]] \in Issues
    <3>1. \A n \in 1..m : q[n] \in DOMAIN issues
      BY <1>3, <1>4
    <3>2. QED BY <1>1, <3>1, LenProperties
  <2>2. \A n \in 1..m : issues[q[n]].code \in Rules /\ issues[q[n]].severity \in Severity
    BY <2>1 DEF Issues
  <2>3. rules \in [1..m -> Catalogued]
    BY <1>2, <1>4, <2>2 DEF Catalogued
  <2>4. rules \in Seq(Catalogued)
    BY <1>4, <2>3
  <2>5. QED BY <1>4, <1>5, <2>4, LenProperties
<1>11. QED BY <1>8, <1>9, <1>10 DEF rules

-----------------------------------------------------------------------------
(* What the invariant says of the answers                                    *)

LEMMA Conversing ==
  ASSUME ApiInv, NEW c \in Clients
  PROVE  /\ client[c] \in Conversations
         /\ StartOK(client[c]) /\ JobOK(client[c]) /\ ReadOK(client[c]) /\ ListOK(client[c])
<1>1. PICK r \in Conversations : r = client[c] /\ Talks(r)
  BY DEF ApiInv
<1>2. QED BY <1>1 DEF Talks

LEMMA PagesHold == ASSUME ApiInv PROVE PagesMatchStats
<1> SUFFICES ASSUME NEW c \in Clients, client[c].at = "done"
             PROVE  LET f      == client[c].filter
                        got    == client[c].got
                        issues == IssuesOf(client[c].job)
                    IN  /\ IF f.by = "path" THEN client[c].total <= Len(got)
                           ELSE client[c].total = Len(got)
                        /\ \A a, b \in DOMAIN got : a < b => got[a] < got[b]
                        /\ ToSet(got) = {i \in DOMAIN issues : Passes(issues[i], f)}
  BY DEF PagesMatchStats
<1> DEFINE r == client[c]
           j == r.job
           f == r.filter
           got == r.got
           M == Matching(j, f)
           K == Passing(j, f)
           m == Cardinality(K)
<1>1. StartOK(r) /\ JobOK(r) /\ ReadOK(r)
  BY Conversing
<1>2. j \in Jobs /\ got \in Seq(Nat)
  BY <1>1 DEF StartOK, JobOK, Told
<1>3. f \in Filters /\ r.total = Breakdown(j)[f.by][f.is]
  BY <1>1 DEF ReadOK
<1>4. Len(got) = Len(M) /\ \A i \in 1..Len(got) : got[i] = M[i]
  BY <1>1 DEF ReadOK
<1>5. /\ K \in SUBSET (DOMAIN IssuesOf(j)) /\ M = Ascending(K)
      /\ r.total \in Nat /\ m \in Nat
      /\ r.total <= m
      /\ f.by # "path" => r.total = m
  BY <1>2, <1>3, PassCount
<1> HIDE DEF m, f, j, K, M, got, r
<1>6. /\ Len(M) = m
      /\ \A n \in 1..m : M[n] \in K
      /\ \A x \in K : \E n \in 1..m : M[n] = x
      /\ \A a, b \in 1..m : a < b => M[a] < M[b]
  BY <1>2, <1>5, Chosen DEF m
<1>7. Len(got) = m /\ DOMAIN got = 1..m
  BY <1>2, <1>4, <1>6, LenProperties
<1>8. IF f.by = "path" THEN r.total <= Len(got) ELSE r.total = Len(got)
  BY <1>5, <1>7
<1>9. \A a, b \in DOMAIN got : a < b => got[a] < got[b]
  BY <1>4, <1>6, <1>7
<1>10. ToSet(got) = K
  <2>1. \A i \in 1..m : got[i] = M[i]
    BY <1>4, <1>7
  <2>2. ToSet(got) = {got[i] : i \in 1..m}
    BY <1>7 DEF ToSet
  <2>3. QED BY <1>6, <2>1, <2>2
<1>11. QED BY <1>8, <1>9, <1>10 DEF K, Passing, f, j, got, r

LEMMA ReportsHold == ASSUME ApiInv PROVE ReportMatchesStats
<1> SUFFICES ASSUME NEW c \in Clients, client[c].at = "reported"
             PROVE  LET f     == client[c].filter
                        ids   == {client[c].rules[i].id : i \in DOMAIN client[c].rules}
                    IN  /\ ids \cap {x \in DOMAIN Overrides[client[c].job] :
                                         Overrides[client[c].job][x] = Off} = {}
                        /\ Len(client[c].rules) = Cardinality(ids)
                        /\ f.by = "rule" => (client[c].total > 0 <=> f.is \in ids)
                        /\ client[c].total <= Len(client[c].got)
                        /\ f \notin [by : {"severity"}, is : {2, 3}] =>
                               client[c].total = Len(client[c].got)
  BY DEF ReportMatchesStats
<1> DEFINE r == client[c]
           j == r.job
           f == r.filter
           ids == {r.rules[i].id : i \in DOMAIN r.rules}
<1>1. StartOK(r) /\ JobOK(r) /\ ReadOK(r)
  BY Conversing
<1>2. j \in Jobs
  BY <1>1 DEF JobOK, Told
<1>3. f \in Filters /\ r.total = Breakdown(j)[f.by][f.is]
  BY <1>1 DEF ReadOK
<1>4. r.got = Mine(j, f) /\ r.rules = RulesOf(j)
  BY <1>1 DEF ReadOK
<1>5. ids = {IssuesOf(j)[i].code : i \in DOMAIN IssuesOf(j)} /\ Len(r.rules) = Cardinality(ids)
  <2> DEFINE rules == r.rules
             codes == {IssuesOf(j)[i].code : i \in DOMAIN IssuesOf(j)}
  <2>1. rules = RulesOf(j)
    BY <1>4
  <2> HIDE DEF rules, j
  <2>2. {rules[i].id : i \in DOMAIN rules} = codes /\ Len(rules) = Cardinality({rules[i].id : i \in DOMAIN rules})
    BY <1>2, <2>1, RulesOnce
  <2>3. QED BY <2>2 DEF rules
<1>6. ids \cap {x \in DOMAIN Overrides[j] : Overrides[j][x] = Off} = {}
  BY <1>2, <1>5, IssuesType
<1>7. /\ Len(r.got) = Cardinality(Showing(j, f)) /\ r.total <= Len(r.got)
      /\ f \notin [by : {"severity"}, is : {2, 3}] => r.total = Len(r.got)
  <2>1. /\ Showing(j, f) \in SUBSET (DOMAIN IssuesOf(j)) /\ r.got = Ascending(Showing(j, f))
        /\ r.total <= Cardinality(Showing(j, f))
        /\ f \notin [by : {"severity"}, is : {2, 3}] => r.total = Cardinality(Showing(j, f))
    BY <1>2, <1>3, <1>4, ShowCount
  <2> HIDE DEF f, j, r, ids
  <2>2. Len(r.got) = Cardinality(Showing(j, f))
    BY <1>2, <2>1, Chosen
  <2>3. QED BY <2>1, <2>2
<1>8. f.by = "rule" => (r.total > 0 <=> f.is \in ids)
  <2>1. r.total = Cardinality(Tallied(j, f)) /\ r.total \in Nat
    BY <1>2, <1>3, StatsCount
  <2>2. Tallied(j, f) \in SUBSET (DOMAIN IssuesOf(j))
    BY DEF Tallied
  <2>3. IsFiniteSet(Tallied(j, f))
    BY <1>2, <2>2, Chosen
  <2>4. r.total > 0 <=> Tallied(j, f) # {}
    BY <2>1, <2>3, FS_EmptySet
  <2>5. ASSUME f.by = "rule" PROVE Tallied(j, f) # {} <=> f.is \in ids
    <3>1. \A i \in DOMAIN IssuesOf(j) : Counts(IssuesOf(j)[i], f) <=> IssuesOf(j)[i].code = f.is
      BY <2>5 DEF Counts
    <3>2. QED BY <1>5, <3>1 DEF Tallied
  <2>6. QED BY <2>4, <2>5
<1>9. QED BY <1>5, <1>6, <1>7, <1>8

LEMMA ToldHolds == ASSUME ApiInv PROVE ToldIsSo
<1>1. jobs \in [Jobs -> {"none", "running"} \cup Statuses]
  BY DEF ApiInv, JobsInv
<1>2. ASSUME NEW c \in Clients
      PROVE  /\ \/ client[c].at \in {"idle", "submitting", "refused"} /\ client[c].got = <<>>
                \/ client[c].at \in Told
                       /\ client[c].job \in Jobs /\ client[c].got \in Seq(Nat)
                \/ client[c].at \in {"listing", "enriching", "whole", "disturbed"}
                       /\ client[c].got \in Seq(Jobs) /\ client[c].page \in Seq(Jobs)
             /\ client[c].at \in Told =>
                    jobs[client[c].job] # "none" /\ KeyOf[client[c].job] = client[c].key
             /\ client[c].at = "gone" => client[c].job \in ToSet(stored) \ jobResults
  <2> DEFINE r == client[c]
  <2>1. r \in Conversations /\ StartOK(r) /\ JobOK(r)
    BY Conversing
  <2>2. r.at \in Fresh \cup Over \cup Listings /\ r.page \in Seq(Jobs)
    BY <2>1 DEF Conversations
  <2> HIDE DEF r
  <2>3. CASE r.at \in {"idle", "submitting", "refused"}
    BY <2>1, <2>3 DEF StartOK, JobOK, Fresh, Told, r
  <2>4. CASE r.at \in Told
    BY <2>1, <2>4 DEF StartOK, JobOK, Over, Told, r
  <2>5. CASE r.at \in Listings
    BY <2>1, <2>2, <2>5 DEF StartOK, JobOK, Listings, Told, r
  <2>6. QED BY <2>2, <2>3, <2>4, <2>5 DEF Fresh, Over, Told
<1>3. QED BY <1>1, <1>2 DEF ToldIsSo, ApiTypeOK, HitIsKnown, GoneIsRemoved

LEMMA ListsHold == ASSUME ApiInv PROVE ListMissesNothing
BY Conversing DEF ListOK, ListMissesNothing

\* How the jobs of some statuses are counted.
LEMMA InStatusCount ==
  ASSUME ApiInv, NEW S, "none" \notin S
  PROVE  IsFiniteSet({j \in Jobs : jobs[j] \in S}) /\ InStatus(S) \in Nat
<1>1. IsFiniteSet({j \in Jobs : jobs[j] # "none"})
  BY DEF ApiInv, JobsInv
<1>2. {j \in Jobs : jobs[j] \in S} \in SUBSET {j \in Jobs : jobs[j] # "none"}
  OBVIOUS
<1>3. IsFiniteSet({j \in Jobs : jobs[j] \in S})
  BY <1>1, <1>2, FS_Subset
<1>4. QED BY <1>3, FS_CardinalityType DEF InStatus

\* Those of two kinds together.
LEMMA InStatusSum ==
  ASSUME ApiInv, NEW S, NEW T, "none" \notin S, "none" \notin T, S \cap T = {}
  PROVE  InStatus(S \cup T) = InStatus(S) + InStatus(T)
<1> DEFINE A == {j \in Jobs : jobs[j] \in S}
           B == {j \in Jobs : jobs[j] \in T}
<1>1. IsFiniteSet(A) /\ IsFiniteSet(B) /\ InStatus(S) \in Nat /\ InStatus(T) \in Nat
  BY InStatusCount
<1>2. A \cap B = {} /\ {j \in Jobs : jobs[j] \in S \cup T} = A \cup B
  OBVIOUS
<1>3. InStatus(S) = Cardinality(A) /\ InStatus(T) = Cardinality(B) /\ InStatus(S \cup T) = Cardinality(A \cup B)
  BY <1>2 DEF InStatus
<1> HIDE DEF A, B
<1>4. Cardinality(A \cup B) = Cardinality(A) + Cardinality(B) - Cardinality(A \cap B)
  BY <1>1, FS_Union
<1>5. Cardinality(A \cap B) = 0
  BY <1>2, FS_EmptySet
<1>6. QED BY <1>1, <1>3, <1>4, <1>5

\* A sequence without repetitions is as long as it has members.
LEMMA OnceEach ==
  ASSUME NEW S, NEW q \in Seq(S), IsInjective(q)
  PROVE  Cardinality(ToSet(q)) = Len(q) /\ Len(q) \in Nat
<1>1. Len(q) \in Nat /\ DOMAIN q = 1..Len(q) /\ q \in [1..Len(q) -> S]
  BY LenProperties
<1>2. q \in [1..Len(q) -> ToSet(q)]
  BY <1>1 DEF ToSet
<1>3. \A x \in ToSet(q) : \E i \in 1..Len(q) : q[i] = x
  BY <1>1 DEF ToSet
<1>4. \A a, b \in 1..Len(q) : q[a] = q[b] => a = b
  BY <1>1 DEF IsInjective
<1>5. q \in Bijection(1..Len(q), ToSet(q))
  BY <1>2, <1>3, <1>4 DEF Bijection, Injection, Surjection, IsInjective
<1>6. ExistsBijection(1..Len(q), ToSet(q))
  BY <1>5 DEF ExistsBijection
<1>7. QED BY <1>1, <1>6, FS_CountingElements

\* The stored jobs of a status are among the orchestrator's.
LEMMA StoredWithin ==
  ASSUME ApiInv, NEW S \in SUBSET Statuses
  PROVE  /\ Cardinality({j \in jobResults : status[j] \in S}) \in Nat
         /\ Cardinality({j \in jobResults : status[j] \in S}) <= InStatus(S)
<1> DEFINE A == {j \in jobResults : status[j] \in S}
           B == {j \in Jobs : jobs[j] \in S}
<1>1. "none" \notin S
  BY HttpApiAssumption
<1>2. IsFiniteSet(B) /\ InStatus(S) = Cardinality(B)
  BY <1>1, InStatusCount DEF InStatus
<1>3. A \in SUBSET B
  <2>1. jobResults \subseteq Jobs /\ jobResults \subseteq ToSet(stored)
    BY DEF ApiInv, WholeInv, IInv, TypeInv, NamesOK
  <2>2. \A j \in ToSet(stored) : jobs[j] = status[j]
    BY DEF ApiInv, JobsInv
  <2>3. QED BY <2>1, <2>2
<1> HIDE DEF A, B
<1>4. IsFiniteSet(A) /\ Cardinality(A) <= Cardinality(B) /\ Cardinality(A) \in Nat
  BY <1>2, <1>3, FS_Subset, FS_CardinalityType
<1>5. QED BY <1>2, <1>4 DEF A

LEMMA StatsHold == ASSUME ApiInv PROVE StatsAgree
<1> DEFINE o == OrchestratorStats
           Done == Statuses \ {TimedOut, Failed}
<1>1. /\ "none" \notin Statuses /\ "running" \notin Statuses /\ Failed \notin {"none", "running"}
      /\ TimedOut \in Statuses /\ TimedOut # Failed
  BY HttpApiAssumption
<1>2. o.total = InStatus(Statuses) + o.running /\ o.running \in Nat /\ InStatus(Statuses) \in Nat
  <2>1. Statuses \cap {"running"} = {} /\ "none" \notin {"running"}
    BY <1>1
  <2>2. InStatus(Statuses \cup {"running"}) = InStatus(Statuses) + InStatus({"running"})
    BY <1>1, <2>1, InStatusSum
  <2>3. InStatus(Statuses) \in Nat /\ InStatus({"running"}) \in Nat
    BY <1>1, <2>1, InStatusCount
  <2>4. o.total = InStatus(Statuses \cup {"running"}) /\ o.running = InStatus({"running"})
    BY DEF OrchestratorStats
  <2>5. QED BY <2>2, <2>3, <2>4
<1>3. InStatus(Statuses) = GetStats.totalStored
  <2>1. stored \in Seq(Jobs) /\ IsInjective(stored) /\ ToSet(stored) \subseteq Jobs
    <3>1. stored \in Seq(Jobs) /\ IsInjective(stored)
      BY DEF ApiInv, JobsInv, WholeInv, IInv, TypeInv
    <3>2. QED BY <3>1, LenProperties DEF ToSet
  <2>2. {j \in Jobs : jobs[j] \in Statuses} = ToSet(stored)
    BY <2>1 DEF ApiInv, JobsInv
  <2>3. Cardinality(ToSet(stored)) = Len(stored)
    BY <2>1, OnceEach
  <2>4. QED BY <2>2, <2>3 DEF InStatus, GetStats
<1>4. /\ InStatus(Statuses) = InStatus(Done) + InStatus({TimedOut}) + InStatus({Failed} \cap Statuses)
      /\ InStatus({Failed}) = InStatus({Failed} \cap Statuses)
      /\ InStatus(Done) \in Nat /\ InStatus({TimedOut}) \in Nat /\ InStatus({Failed}) \in Nat
  <2> DEFINE F == {Failed} \cap Statuses
             D == Done \cup {TimedOut}
  <2>1. /\ Statuses = D \cup F /\ D \cap F = {} /\ Done \cap {TimedOut} = {}
        /\ "none" \notin D /\ "none" \notin F /\ "none" \notin Done /\ "none" \notin {TimedOut}
        /\ "none" \notin {Failed}
    BY <1>1
  <2>2. InStatus(D) = InStatus(Done) + InStatus({TimedOut})
    BY <2>1, InStatusSum
  <2>3. \A j \in Jobs : jobs[j] \in {Failed} <=> jobs[j] \in F
    BY <1>1 DEF ApiInv, JobsInv
  <2>4. {j \in Jobs : jobs[j] \in {Failed}} = {j \in Jobs : jobs[j] \in F}
    BY <2>3
  <2>5. InStatus({Failed}) = InStatus(F)
    BY <2>4 DEF InStatus
  <2> HIDE DEF D, F
  <2>6. InStatus(D \cup F) = InStatus(D) + InStatus(F)
    BY <2>1, InStatusSum
  <2>7. InStatus(Done) \in Nat /\ InStatus({TimedOut}) \in Nat /\ InStatus({Failed}) \in Nat
    BY <2>1, InStatusCount
  <2>8. InStatus(Statuses) = InStatus(D \cup F)
    BY <2>1
  <2>9. QED BY <2>2, <2>5, <2>6, <2>7, <2>8 DEF F
<1>5. /\ o.completed = InStatus(Done) /\ o.failed = InStatus({Failed})
      /\ FailureStats.totalCompleted = Cardinality({j \in jobResults : status[j] \in Done})
      /\ FailureStats.totalTimeout = Cardinality({j \in jobResults : status[j] \in {TimedOut}})
      /\ FailureStats.totalFailed = Cardinality({j \in jobResults : status[j] \in {Failed}})
  BY DEF OrchestratorStats, FailureStats
<1>6. FailureStats.totalCompleted <= o.completed
  <2>1. Done \in SUBSET Statuses
    OBVIOUS
  <2>2. QED BY <1>5, <2>1, StoredWithin
<1>7. FailureStats.totalTimeout <= InStatus({TimedOut}) /\ FailureStats.totalTimeout \in Nat
  <2>1. {TimedOut} \in SUBSET Statuses
    BY <1>1
  <2>2. QED BY <1>5, <2>1, StoredWithin
<1>8. FailureStats.totalFailed <= o.failed
  <2>1. jobResults \subseteq Jobs /\ status \in [Jobs -> Statuses]
    BY DEF ApiInv, WholeInv, IInv, TypeInv
  <2>2. {j \in jobResults : status[j] \in {Failed}} = {j \in jobResults : status[j] \in {Failed} \cap Statuses}
    BY <2>1
  <2>3. {Failed} \cap Statuses \in SUBSET Statuses
    OBVIOUS
  <2>4. Cardinality({j \in jobResults : status[j] \in {Failed} \cap Statuses}) <= InStatus({Failed} \cap Statuses)
    BY <2>3, StoredWithin
  <2>5. QED BY <1>4, <1>5, <2>2, <2>4
<1>9. FailureStats.totalTimeout <= o.total - o.running - o.completed - o.failed
  <2>1. o.total - o.running - o.completed - o.failed = InStatus({TimedOut})
    BY <1>2, <1>4, <1>5
  <2>2. QED BY <1>7, <2>1
<1>10. o.total = o.running + GetStats.totalStored
  BY <1>2, <1>3
<1>11. QED BY <1>6, <1>8, <1>9, <1>10 DEF StatsAgree

-----------------------------------------------------------------------------
(* The listings                                                              *)

\* What a list of jobs by their status is of.
LEMMA Candidate ==
  ASSUME WholeInv, expired = {}, NEW S \in SUBSET Statuses
  PROVE  /\ Candidates(S, {}, {}) = {j \in jobResults : S = {} \/ status[j] \in S}
         /\ IsFiniteSet(Candidates(S, {}, {})) /\ Candidates(S, {}, {}) \subseteq Jobs
         /\ Candidates(S, {}, {}) \subseteq ToSet(stored)
<1>1. /\ \A s \in Statuses : statusIndex[s] = {j \in jobResults : status[j] = s}
      /\ jobResults \subseteq Jobs /\ jobResults \subseteq ToSet(stored)
      /\ IsFiniteSet(jobResults) /\ status \in [Jobs -> Statuses]
  BY DEF WholeInv, IInv, FieldsOK, TypeInv, NamesOK, Counted
<1>2. ASSUME NEW j \in jobResults
      PROVE  j \in UNION {statusIndex[s] : s \in S} <=> status[j] \in S
  <2>1. ASSUME j \in UNION {statusIndex[s] : s \in S} PROVE status[j] \in S
    BY <1>1, <2>1
  <2>2. ASSUME status[j] \in S PROVE j \in UNION {statusIndex[s] : s \in S}
    <3>1. j \in statusIndex[status[j]]
      BY <1>1, <2>2
    <3>2. QED BY <2>2, <3>1
  <2>3. QED BY <2>1, <2>2
<1>3. Candidates(S, {}, {}) = {j \in jobResults : S = {} \/ status[j] \in S}
  BY <1>2 DEF Candidates
<1>4. Candidates(S, {}, {}) \in SUBSET jobResults
  BY <1>3
<1>5. IsFiniteSet(Candidates(S, {}, {}))
  BY <1>1, <1>4, FS_Subset
<1>6. QED BY <1>1, <1>3, <1>4, <1>5

\* The stored jobs have an order: the newer first, or the one stored first.
LEMMA NewerOrders ==
  ASSUME stored \in Seq(Jobs), IsInjective(stored), NEW K, K \subseteq ToSet(stored)
  PROVE  Orders(Newer, K)
<1>1. /\ DOMAIN stored = 1..Len(stored) /\ Len(stored) \in Nat
      /\ \A i \in 1..Len(stored) : stored[i] \in Jobs
  BY LenProperties
<1>2. \A j \in K : j \in Jobs /\ \E i \in 1..Len(stored) : stored[i] = j
  BY <1>1 DEF ToSet
<1>3. \A a, b \in 1..Len(stored) : stored[a] = stored[b] => a = b
  BY <1>1 DEF IsInjective
<1>4. ASSUME NEW a \in 1..Len(stored), NEW b \in 1..Len(stored)
      PROVE  <<stored[a], stored[b]>> \in Newer <=>
                 \/ TimeOf[stored[a]] > TimeOf[stored[b]]
                 \/ TimeOf[stored[a]] = TimeOf[stored[b]] /\ a < b
  <2>1. stored[a] \in Jobs /\ stored[b] \in Jobs
    BY <1>1
  <2>2. <<stored[a], stored[b]>> \in Newer <=>
            \E x, y \in DOMAIN stored :
                /\ stored[x] = stored[a] /\ stored[y] = stored[b]
                /\ \/ TimeOf[stored[a]] > TimeOf[stored[b]]
                   \/ TimeOf[stored[a]] = TimeOf[stored[b]] /\ x < y
    BY <2>1 DEF Newer
  <2>3. QED BY <1>1, <1>3, <2>2
<1>5. \A j \in Jobs : TimeOf[j] \in Nat
  BY LintStorageAssumption
<1>6. \A x \in K : <<x, x>> \notin Newer
  <2> SUFFICES ASSUME NEW x \in K PROVE <<x, x>> \notin Newer
    OBVIOUS
  <2>1. PICK a \in 1..Len(stored) : stored[a] = x
    BY <1>2
  <2>2. <<stored[a], stored[a]>> \notin Newer
    <3>1. TimeOf[stored[a]] \in Nat /\ a \in Nat
      BY <1>1, <1>5
    <3>2. QED BY <1>4, <3>1
  <2>3. QED BY <2>1, <2>2
<1>7. \A x, y \in K : x # y => <<x, y>> \in Newer \/ <<y, x>> \in Newer
  <2> SUFFICES ASSUME NEW x \in K, NEW y \in K, x # y
               PROVE  <<x, y>> \in Newer \/ <<y, x>> \in Newer
    OBVIOUS
  <2>1. PICK a \in 1..Len(stored) : stored[a] = x
    BY <1>2
  <2>2. PICK b \in 1..Len(stored) : stored[b] = y
    BY <1>2
  <2>3. TimeOf[stored[a]] \in Nat /\ TimeOf[stored[b]] \in Nat /\ a # b /\ a \in Nat /\ b \in Nat
    BY <1>1, <1>5, <2>1, <2>2
  <2>4. \/ TimeOf[stored[a]] > TimeOf[stored[b]]
        \/ TimeOf[stored[a]] = TimeOf[stored[b]] /\ a < b
        \/ TimeOf[stored[b]] > TimeOf[stored[a]]
        \/ TimeOf[stored[b]] = TimeOf[stored[a]] /\ b < a
    BY <2>3
  <2>5. <<stored[a], stored[b]>> \in Newer \/ <<stored[b], stored[a]>> \in Newer
    BY <1>4, <2>4
  <2>6. QED BY <2>1, <2>2, <2>5
<1>8. \A x, y, z \in K : <<x, y>> \in Newer /\ <<y, z>> \in Newer => <<x, z>> \in Newer
  <2> SUFFICES ASSUME NEW x \in K, NEW y \in K, NEW z \in K,
                      <<x, y>> \in Newer, <<y, z>> \in Newer
               PROVE  <<x, z>> \in Newer
    OBVIOUS
  <2>1. PICK a \in 1..Len(stored) : stored[a] = x
    BY <1>2
  <2>2. PICK b \in 1..Len(stored) : stored[b] = y
    BY <1>2
  <2>3. PICK c \in 1..Len(stored) : stored[c] = z
    BY <1>2
  <2>4. \/ TimeOf[stored[a]] > TimeOf[stored[b]]
        \/ TimeOf[stored[a]] = TimeOf[stored[b]] /\ a < b
    BY <1>4, <2>1, <2>2
  <2>5. \/ TimeOf[stored[b]] > TimeOf[stored[c]]
        \/ TimeOf[stored[b]] = TimeOf[stored[c]] /\ b < c
    BY <1>4, <2>2, <2>3
  <2>6. /\ TimeOf[stored[a]] \in Nat /\ TimeOf[stored[b]] \in Nat /\ TimeOf[stored[c]] \in Nat
        /\ a \in Nat /\ b \in Nat /\ c \in Nat
    BY <1>1, <1>5
  <2>7. \/ TimeOf[stored[a]] > TimeOf[stored[c]]
        \/ TimeOf[stored[a]] = TimeOf[stored[c]] /\ a < c
    BY <2>4, <2>5, <2>6
  <2>8. <<stored[a], stored[c]>> \in Newer
    BY <1>4, <2>7
  <2>9. QED BY <2>1, <2>3, <2>8
<1>9. QED BY <1>6, <1>7, <1>8 DEF Orders

\* A listing has each of its jobs at its place.
LEMMA ListPlaces ==
  ASSUME WholeInv, JobsInv, NEW S \in SUBSET Statuses
  PROVE  /\ Listing(S) \in Seq(Jobs) /\ Len(Listing(S)) = Cardinality(Candidates(S, {}, {}))
         /\ \A j \in Candidates(S, {}, {}) :
                /\ Place(S, j) \in Nat /\ Place(S, j) + 1 \in 1..Len(Listing(S))
                /\ Listing(S)[Place(S, j) + 1] = j
<1> DEFINE K == Candidates(S, {}, {})
<1>1. IsFiniteSet(K) /\ K \subseteq Jobs /\ K \subseteq ToSet(stored)
  BY Candidate DEF JobsInv
<1>2. stored \in Seq(Jobs) /\ IsInjective(stored)
  BY DEF WholeInv, IInv, TypeInv, JobsInv
<1> HIDE DEF K
<1>3. Orders(Newer, K)
  BY <1>1, <1>2, NewerOrders
<1>4. /\ InOrder(K, Newer) \in Seq(K) /\ Len(InOrder(K, Newer)) = Cardinality(K)
      /\ Cardinality(K) \in Nat
      /\ \A x \in K : /\ Before(K, Newer, x) + 1 \in 1..Cardinality(K)
                      /\ InOrder(K, Newer)[Before(K, Newer, x) + 1] = x
      /\ \A x \in K : Before(K, Newer, x) \in 0..(Cardinality(K) - 1)
  BY <1>1, <1>3, Enumerated, Counting
<1>5. InOrder(K, Newer) \in Seq(Jobs)
  <2>1. InOrder(K, Newer) \in [1..Cardinality(K) -> K]
    BY <1>4, LenProperties
  <2>2. InOrder(K, Newer) \in [1..Cardinality(K) -> Jobs]
    BY <1>1, <2>1
  <2>3. QED BY <1>4, <2>2
<1>6. Listing(S) = InOrder(K, Newer) /\ \A j : Place(S, j) = Before(K, Newer, j)
  BY DEF Listing, Place, K
<1>7. QED BY <1>4, <1>5, <1>6 DEF K

\* A page has what is at its places; one that is not full has all that is left.
LEMMA PageOf ==
  ASSUME NEW q \in Seq(Jobs), NEW n \in Nat, NEW limit \in Nat
  PROVE  /\ Slice(q, n, limit) \in Seq(Jobs) /\ Len(Slice(q, n, limit)) \in Nat
         /\ \A p \in Nat : p + 1 \in 1..Len(q) /\ p >= n =>
                \/ q[p + 1] \in ToSet(Slice(q, n, limit))
                \/ /\ Len(Slice(q, n, limit)) = limit
                   /\ p >= n + Len(Slice(q, n, limit))
<1> DEFINE page == Slice(q, n, limit)
<1>1. page \in Seq(Jobs) /\ Len(page) \in Nat /\ DOMAIN page = 1..Len(page)
  <2>1. page \in Seq(Jobs)
    BY Sliced
  <2> HIDE DEF page
  <2>2. QED BY <2>1, LenProperties
<1>2. Len(q) \in Nat
  BY LenProperties
<1>3. n + limit <= Len(q) => Len(page) = limit
  BY Sliced
<1>4. \A i \in 1..Len(q) : n < i /\ i <= n + limit => i - n \in 1..Len(page)
  BY Sliced
<1>5. \A i \in 1..Len(page) : page[i] = q[n + i]
  BY Sliced
<1> HIDE DEF page
<1>6. ASSUME NEW p \in Nat, p + 1 \in 1..Len(q), p >= n
      PROVE  q[p + 1] \in ToSet(page) \/ (Len(page) = limit /\ p >= n + Len(page))
  <2>1. CASE p + 1 <= n + limit
    <3>1. (p + 1) - n \in 1..Len(page)
      BY <1>4, <1>6, <2>1
    <3>2. page[(p + 1) - n] = q[n + ((p + 1) - n)] /\ n + ((p + 1) - n) = p + 1
      BY <1>5, <3>1
    <3>3. page[(p + 1) - n] = q[p + 1]
      BY <3>2
    <3>4. QED BY <1>1, <3>1, <3>3 DEF ToSet
  <2>2. CASE p + 1 > n + limit
    <3>1. n + limit <= Len(q)
      BY <1>2, <1>6, <2>2
    <3>2. QED BY <1>3, <2>2, <3>1
  <2>3. QED BY <2>1, <2>2
<1>7. QED BY <1>1, <1>6 DEF page

\* A page of a listing has the jobs of its places; one that is not full has all
\* that are left.
LEMMA PageReads ==
  ASSUME WholeInv, JobsInv, NEW S \in SUBSET Statuses, NEW n \in Nat, NEW limit \in Nat
  PROVE  LET page == Slice(Listing(S), n, limit)
         IN  /\ page \in Seq(Jobs) /\ Len(page) \in Nat
             /\ \A j \in Candidates(S, {}, {}) :
                    Place(S, j) >= n =>
                        j \in ToSet(page) \/ (Len(page) = limit /\ Place(S, j) >= n + Len(page))
<1> DEFINE q == Listing(S)
<1>1. /\ q \in Seq(Jobs)
      /\ \A j \in Candidates(S, {}, {}) :
            Place(S, j) \in Nat /\ Place(S, j) + 1 \in 1..Len(q) /\ q[Place(S, j) + 1] = j
  BY ListPlaces
<1> HIDE DEF q
<1>2. /\ Slice(q, n, limit) \in Seq(Jobs) /\ Len(Slice(q, n, limit)) \in Nat
      /\ \A p \in Nat : p + 1 \in 1..Len(q) /\ p >= n =>
             \/ q[p + 1] \in ToSet(Slice(q, n, limit))
             \/ Len(Slice(q, n, limit)) = limit /\ p >= n + Len(Slice(q, n, limit))
  BY <1>1, PageOf
<1>3. QED BY <1>1, <1>2 DEF q
-----------------------------------------------------------------------------
(* What a step may do to the jobs and their results                          *)

\* A result is stored after those that are stored; what is removed stays so, and a
\* job that was made is never forgotten.
Later ==
    /\ status' = status
    /\ stored' = stored \/ \E j \in Jobs : stored' = Append(stored, j)
    /\ jobResults' \cap ToSet(stored) \subseteq jobResults
    /\ \A j \in Jobs : jobs[j] # "none" => jobs'[j] # "none"

\* A step of the API is one of the storage, or leaves it.
LEMMA StorageStep == [ApiNext]_apiVars => [Next]_vars
<1> SUFFICES ASSUME [ApiNext]_apiVars PROVE [Next]_vars
  OBVIOUS
<1>1. ASSUME NEW c \in Clients, Request(c) PROVE UNCHANGED vars
  BY <1>1 DEF Request, Reject, NoDocument, Poll, NotFound, Report, Again, Hit, Miss, Accept,
              Stats, Reproduce, Reproduced, List, Results, ListJobs, ListJobsDetailed, Enriched
<1>2. ASSUME NEW j \in Jobs, Elsewhere(j) PROVE UNCHANGED vars
  BY <1>2 DEF Elsewhere
<1>3. ASSUME NEW j \in Jobs, JobEnds(j) PROVE Next
  BY <1>3 DEF JobEnds, Next
<1>4. ASSUME NEW v \in Invalidations, DeleteCache(v) PROVE Next
  BY <1>4 DEF DeleteCache, Next
<1>5. CASE UNCHANGED apiVars
  BY <1>5 DEF apiVars
<1>6. QED BY <1>1, <1>2, <1>3, <1>4, <1>5 DEF ApiNext

LEMMA WholeStep == ASSUME WholeInv, [Next]_vars PROVE WholeInv'
<1>1. IInv'
  BY InvStep DEF WholeInv
<1>2. QED BY <1>1, TimesStep, CountedStep, RacedStep DEF WholeInv

\* The kinds of steps, as the jobs and the results see them.
LEMMA Kinds ==
  ASSUME [ApiNext]_apiVars
  PROVE  \/ UNCHANGED <<vars, jobs>>
         \/ /\ UNCHANGED vars
            /\ \E j \in Jobs : jobs[j] = "none" /\ jobs' = [jobs EXCEPT ![j] = "running"]
         \/ UNCHANGED client /\ \E j \in Jobs : JobEnds(j)
         \/ UNCHANGED client /\ \E v \in Invalidations : DeleteCache(v)
<1>1. ASSUME NEW c \in Clients, Request(c)
      PROVE  \/ UNCHANGED <<vars, jobs>>
             \/ /\ UNCHANGED vars
                /\ \E j \in Jobs : jobs[j] = "none" /\ jobs' = [jobs EXCEPT ![j] = "running"]
  BY <1>1 DEF Request, Reject, NoDocument, Poll, NotFound, Report, Again, Hit, Miss, Accept,
              Stats, Reproduce, Reproduced, List, Results, ListJobs, ListJobsDetailed, Enriched
<1>2. ASSUME NEW j \in Jobs, Elsewhere(j)
      PROVE  /\ UNCHANGED vars
             /\ jobs[j] = "none" /\ jobs' = [jobs EXCEPT ![j] = "running"]
  BY <1>2 DEF Elsewhere
<1>3. ASSUME NEW j \in Jobs, JobEnds(j) PROVE UNCHANGED client
  BY <1>3 DEF JobEnds
<1>4. ASSUME NEW v \in Invalidations, DeleteCache(v) PROVE UNCHANGED client
  BY <1>4 DEF DeleteCache
<1>5. CASE UNCHANGED apiVars
  BY <1>5 DEF apiVars
<1>6. QED BY <1>1, <1>2, <1>3, <1>4, <1>5 DEF ApiNext

\* What a DELETE does to the results.
LEMMA Deletes ==
  ASSUME TypeInv, NEW v \in Invalidations, DeleteCache(v)
  PROVE  /\ UNCHANGED <<status, stored, jobs, client>>
         /\ jobResults' \subseteq jobResults /\ expired' \subseteq expired
<1>1. ASSUME NEW R, RemoveEntries(R)
      PROVE  jobResults' \subseteq jobResults /\ expired' \subseteq expired
  BY <1>1 DEF RemoveEntries
<1>2. CASE \E d \in Docs : Invalidate(v, d)
  <2>1. /\ UNCHANGED <<status, stored>>
        /\ \E R : RemoveEntries(R)
    BY <1>2 DEF Invalidate
  <2>2. QED BY <1>1, <2>1 DEF DeleteCache
<1>3. CASE InvalidateNext(v)
  <2>1. /\ UNCHANGED <<status, stored>>
        /\ \E R : RemoveEntries(R)
    BY <1>3 DEF InvalidateNext
  <2>2. QED BY <1>1, <2>1 DEF DeleteCache
<1>4. CASE InvalidateDone(v)
  BY <1>4 DEF InvalidateDone, DeleteCache
<1>5. QED BY <1>2, <1>3, <1>4 DEF DeleteCache

\* A push keeps a sequence without repetitions.
LEMMA PushedOnce ==
  ASSUME NEW S, NEW q \in Seq(S), IsInjective(q), NEW x \in S, x \notin ToSet(q)
  PROVE  IsInjective(Append(q, x))
<1>1. /\ Append(q, x) \in Seq(S) /\ Len(Append(q, x)) = Len(q) + 1 /\ Len(q) \in Nat
      /\ \A i \in 1..Len(q) : Append(q, x)[i] = q[i]
      /\ Append(q, x)[Len(q) + 1] = x
  BY AppendProperties
<1>2. DOMAIN q = 1..Len(q) /\ DOMAIN Append(q, x) = 1..(Len(q) + 1)
  BY <1>1
<1>3. \A i \in 1..Len(q) : q[i] # x
  BY <1>2 DEF ToSet
<1>4. \A a, b \in 1..Len(q) : q[a] = q[b] => a = b
  BY <1>2 DEF IsInjective
<1>5. \A a, b \in 1..(Len(q) + 1) : Append(q, x)[a] = Append(q, x)[b] => a = b
  <2>1. \A a \in 1..(Len(q) + 1) : a \in 1..Len(q) \/ a = Len(q) + 1
    BY <1>1
  <2>2. QED BY <1>1, <1>3, <1>4, <2>1
<1>6. QED BY <1>2, <1>5 DEF IsInjective

\* The orchestrator's jobs and the stored ones go together.
LEMMA JobsStep == ASSUME WholeInv, JobsInv, [ApiNext]_apiVars PROVE JobsInv' /\ Later
<1>1. /\ TypeInv /\ stored \in Seq(Jobs) /\ status \in [Jobs -> Statuses]
      /\ jobResults \subseteq ToSet(stored)
  BY DEF WholeInv, IInv, TypeInv, NamesOK
<1>2. /\ jobs \in [Jobs -> {"none", "running"} \cup Statuses]
      /\ \A j \in Jobs : jobs[j] \in Statuses <=> j \in ToSet(stored)
      /\ \A j \in ToSet(stored) : jobs[j] = status[j]
      /\ IsFiniteSet({j \in Jobs : jobs[j] # "none"})
      /\ IsInjective(stored) /\ expired = {}
  BY DEF JobsInv
<1>3. "none" \notin Statuses /\ "running" \notin Statuses
  BY HttpApiAssumption
<1>4. ASSUME UNCHANGED <<status, stored, jobs>>, jobResults' \subseteq jobResults,
             expired' \subseteq expired
      PROVE  JobsInv' /\ Later
  <2>1. JobsInv'
    BY <1>2, <1>4 DEF JobsInv
  <2>2. Later
    BY <1>4 DEF Later
  <2>3. QED BY <2>1, <2>2
<1>5. CASE UNCHANGED <<vars, jobs>>
  BY <1>4, <1>5 DEF vars
<1>6. ASSUME UNCHANGED vars, NEW j \in Jobs, jobs[j] = "none",
             jobs' = [jobs EXCEPT ![j] = "running"]
      PROVE  JobsInv' /\ Later
  <2>1. UNCHANGED <<status, stored, jobResults, expired>>
    BY <1>6 DEF vars
  <2>2. jobs' \in [Jobs -> {"none", "running"} \cup Statuses]
    BY <1>2, <1>6
  <2>3. j \notin ToSet(stored)
    BY <1>2, <1>3, <1>6
  <2>4. \A i \in Jobs : jobs'[i] = IF i = j THEN "running" ELSE jobs[i]
    BY <1>2, <1>6
  <2>5. \A i \in Jobs : jobs'[i] \in Statuses <=> i \in ToSet(stored)
    BY <1>2, <1>3, <2>3, <2>4
  <2>6. \A i \in ToSet(stored) : jobs'[i] = status[i]
    BY <1>1, <1>2, <2>3, <2>4, LenProperties DEF ToSet
  <2>7. IsFiniteSet({i \in Jobs : jobs'[i] # "none"})
    <3>1. {i \in Jobs : jobs'[i] # "none"} = {i \in Jobs : jobs[i] # "none"} \cup {j}
      BY <2>4
    <3>2. QED BY <1>2, <3>1, FS_AddElement
  <2>8. JobsInv'
    BY <1>2, <2>1, <2>2, <2>5, <2>6, <2>7 DEF JobsInv
  <2>9. Later
    BY <2>1, <2>4 DEF Later
  <2>10. QED BY <2>8, <2>9
<1>7. ASSUME NEW j \in Jobs, JobEnds(j) PROVE JobsInv' /\ Later
  <2>1. /\ jobs[j] = "running" /\ jobs' = [jobs EXCEPT ![j] = status[j]]
        /\ j \notin ToSet(stored) /\ jobResults' = jobResults \cup {j}
        /\ stored' = Append(stored, j) /\ UNCHANGED <<expired, status>>
    BY <1>7 DEF JobEnds, StoreJob
  <2>2. status[j] \in Statuses
    BY <1>1
  <2>3. jobs' \in [Jobs -> {"none", "running"} \cup Statuses]
    BY <1>2, <2>1, <2>2
  <2>4. \A i \in Jobs : jobs'[i] = IF i = j THEN status[j] ELSE jobs[i]
    BY <1>2, <2>1
  <2>5. ToSet(stored') = ToSet(stored) \cup {j}
    BY <1>1, <2>1, PushedSet
  <2>6. \A i \in Jobs : jobs'[i] \in Statuses <=> i \in ToSet(stored')
    BY <1>2, <2>2, <2>4, <2>5
  <2>7. \A i \in ToSet(stored') : jobs'[i] = status'[i]
    <3>1. ToSet(stored) \subseteq Jobs
      BY <1>1, LenProperties DEF ToSet
    <3>2. QED BY <1>2, <2>1, <2>4, <2>5, <3>1
  <2>8. {i \in Jobs : jobs'[i] # "none"} = {i \in Jobs : jobs[i] # "none"}
    BY <1>3, <2>1, <2>2, <2>4
  <2>9. IsInjective(stored')
    BY <1>1, <1>2, <2>1, PushedOnce
  <2>10. JobsInv'
    BY <1>2, <2>1, <2>3, <2>6, <2>7, <2>8, <2>9 DEF JobsInv
  <2>11. Later
    <3>1. \A i \in Jobs : jobs[i] # "none" => jobs'[i] # "none"
      BY <1>3, <2>2, <2>4
    <3>2. jobResults' \cap ToSet(stored) \subseteq jobResults
      BY <2>1
    <3>3. QED BY <2>1, <3>1, <3>2 DEF Later
  <2>12. QED BY <2>10, <2>11
<1>8. ASSUME NEW v \in Invalidations, DeleteCache(v) PROVE JobsInv' /\ Later
  BY <1>1, <1>4, <1>8, Deletes
<1>9. QED BY <1>5, <1>6, <1>7, <1>8, Kinds
-----------------------------------------------------------------------------
(* What stays true of a client that a step does not move                     *)

\* The answers depend on the status only, which a job keeps.
LEMMA SameAnswers ==
  ASSUME status' = status
  PROVE  /\ \A j : Breakdown(j)' = Breakdown(j) /\ RulesOf(j)' = RulesOf(j)
         /\ \A j, f : Matching(j, f)' = Matching(j, f) /\ Mine(j, f)' = Mine(j, f)
<1>1. \A j : IssuesOf(j)' = IssuesOf(j)
  BY DEF IssuesOf
<1>2. \A j : Breakdown(j)' = Breakdown(j)
  BY <1>1 DEF Breakdown
<1>3. \A j, f : Matching(j, f)' = Matching(j, f)
  BY <1>1 DEF Matching
<1>4. \A j : RulesOf(j)' = RulesOf(j)
  BY <1>1 DEF RulesOf, Catalogue
<1>5. \A j : BuildSarif(j).results' = BuildSarif(j).results
  BY <1>1 DEF BuildSarif, ResultsOf
<1>6. \A j, f : Mine(j, f)' = Mine(j, f)
  BY <1>5 DEF Mine
<1>7. QED BY <1>2, <1>3, <1>4, <1>6

\* What was stored remains so, and what was removed.
LEMMA StoredLater ==
  ASSUME WholeInv, Later
  PROVE  /\ ToSet(stored) \subseteq ToSet(stored') /\ Removed \subseteq Removed'
         /\ Removed' = Removed => jobResults \subseteq jobResults'
         /\ DOMAIN stored \subseteq DOMAIN stored'
         /\ \A i \in DOMAIN stored : stored'[i] = stored[i]
<1>1. stored \in Seq(Jobs) /\ jobResults \subseteq ToSet(stored)
  BY DEF WholeInv, IInv, TypeInv, NamesOK
<1>2. /\ ToSet(stored) \subseteq ToSet(stored') /\ DOMAIN stored \subseteq DOMAIN stored'
      /\ \A i \in DOMAIN stored : stored'[i] = stored[i]
  <2>1. CASE stored' = stored
    BY <2>1
  <2>2. ASSUME NEW j \in Jobs, stored' = Append(stored, j)
        PROVE  /\ ToSet(stored) \subseteq ToSet(stored') /\ DOMAIN stored \subseteq DOMAIN stored'
               /\ \A i \in DOMAIN stored : stored'[i] = stored[i]
    <3>1. /\ Append(stored, j) \in Seq(Jobs) /\ Len(Append(stored, j)) = Len(stored) + 1
          /\ Len(stored) \in Nat /\ \A i \in 1..Len(stored) : Append(stored, j)[i] = stored[i]
      BY <1>1, AppendProperties
    <3>2. DOMAIN stored = 1..Len(stored) /\ DOMAIN Append(stored, j) = 1..(Len(stored) + 1)
      BY <1>1, <3>1
    <3>3. DOMAIN stored \subseteq DOMAIN stored' /\ \A i \in DOMAIN stored : stored'[i] = stored[i]
      BY <2>2, <3>1, <3>2
    <3>4. ToSet(stored') = ToSet(stored) \cup {j}
      BY <1>1, <2>2, PushedSet
    <3>5. QED BY <3>3, <3>4
  <2>3. QED BY <2>1, <2>2 DEF Later
<1>3. Removed \subseteq Removed'
  BY <1>2 DEF Removed, Later
<1>4. ASSUME Removed' = Removed PROVE jobResults \subseteq jobResults'
  <2> SUFFICES ASSUME NEW j \in jobResults, j \notin jobResults' PROVE FALSE
    OBVIOUS
  <2>1. j \in Removed'
    BY <1>1, <1>2 DEF Removed
  <2>2. QED BY <1>4, <2>1 DEF Removed
<1>5. QED BY <1>2, <1>3, <1>4

\* As long as nothing is removed a job stays in the listing, and only moves back.
LEMMA PlaceGrows ==
  ASSUME WholeInv, JobsInv, WholeInv', JobsInv', Later, Removed' = Removed,
         NEW S \in SUBSET Statuses, NEW j \in Candidates(S, {}, {})
  PROVE  /\ j \in Candidates(S, {}, {})' /\ Place(S, j) <= Place(S, j)'
         /\ Place(S, j) \in Nat /\ Place(S, j)' \in Nat
<1> DEFINE K == Candidates(S, {}, {})
           L == Candidates(S, {}, {})'
<1>1. K = {i \in jobResults : S = {} \/ status[i] \in S} /\ IsFiniteSet(K)
  BY Candidate DEF JobsInv
<1>2. L = {i \in jobResults' : S = {} \/ status'[i] \in S} /\ IsFiniteSet(L)
  <2>1. /\ \A s \in Statuses : statusIndex'[s] = {i \in jobResults' : status'[i] = s}
        /\ IsFiniteSet(jobResults') /\ expired' = {} /\ jobResults' \subseteq Jobs
        /\ status' \in [Jobs -> Statuses]
    BY DEF WholeInv, IInv, FieldsOK, TypeInv, Counted, JobsInv
  <2>2. ASSUME NEW i \in jobResults'
        PROVE  i \in UNION {statusIndex'[s] : s \in S} <=> status'[i] \in S
    <3>1. ASSUME i \in UNION {statusIndex'[s] : s \in S} PROVE status'[i] \in S
      BY <2>1, <3>1
    <3>2. ASSUME status'[i] \in S PROVE i \in UNION {statusIndex'[s] : s \in S}
      <4>1. i \in statusIndex'[status'[i]]
        BY <2>1, <3>2
      <4>2. QED BY <3>2, <4>1
    <3>3. QED BY <3>1, <3>2
  <2>3. L = {i \in jobResults' : S = {} \/ status'[i] \in S}
    BY <2>1, <2>2 DEF Candidates
  <2>4. L \in SUBSET jobResults'
    BY <2>3
  <2> HIDE DEF L
  <2>5. IsFiniteSet(L)
    BY <2>1, <2>4, FS_Subset
  <2>6. QED BY <2>3, <2>5
<1>3. K \subseteq L
  <2>1. jobResults \subseteq jobResults' /\ status' = status
    BY StoredLater DEF Later
  <2>2. QED BY <1>1, <1>2, <2>1
<1>4. Newer \subseteq Newer'
  <2>1. DOMAIN stored \subseteq DOMAIN stored' /\ \A i \in DOMAIN stored : stored'[i] = stored[i]
    BY StoredLater
  <2> SUFFICES ASSUME NEW p \in Newer PROVE p \in Newer'
    OBVIOUS
  <2>2. PICK a \in DOMAIN stored, b \in DOMAIN stored :
            /\ stored[a] = p[1] /\ stored[b] = p[2]
            /\ \/ TimeOf[p[1]] > TimeOf[p[2]]
               \/ TimeOf[p[1]] = TimeOf[p[2]] /\ a < b
    BY DEF Newer
  <2>3. p \in Jobs \X Jobs /\ a \in DOMAIN stored' /\ b \in DOMAIN stored'
    BY <2>1 DEF Newer
  <2>4. stored'[a] = p[1] /\ stored'[b] = p[2]
    BY <2>1, <2>2
  <2>5. QED BY <2>2, <2>3, <2>4 DEF Newer
<1> DEFINE A == {h \in K : <<h, j>> \in Newer}
           B == {h \in L : <<h, j>> \in Newer'}
<1>5. Place(S, j) = Cardinality(A) /\ Place(S, j)' = Cardinality(B)
  BY DEF Place, Before
<1>6. A \in SUBSET B /\ B \in SUBSET L
  BY <1>3, <1>4
<1>7. j \in L
  BY <1>3
<1> HIDE DEF K, L, A, B
<1>8. IsFiniteSet(B) /\ IsFiniteSet(A) /\ Cardinality(A) <= Cardinality(B)
  BY <1>2, <1>6, FS_Subset
<1>9. Cardinality(A) \in Nat /\ Cardinality(B) \in Nat
  BY <1>8, FS_CardinalityType
<1>10. QED BY <1>5, <1>7, <1>8, <1>9 DEF L

\* So what is true of a client stays true under the steps of the others.
LEMMA RecordKept ==
  ASSUME WholeInv, JobsInv, WholeInv', JobsInv', Later, NEW r \in Conversations, Talks(r)
  PROVE  Talks(r)'
<1>1. StartOK(r) /\ JobOK(r) /\ ReadOK(r) /\ ListOK(r)
  BY DEF Talks
<1>2. StartOK(r)'
  BY <1>1 DEF StartOK
<1>3. JobOK(r)'
  <2>1. ToSet(stored) \subseteq ToSet(stored')
    BY StoredLater
  <2>2. r.at \in Told => r.job \in Jobs /\ jobs'[r.job] # "none" /\ KeyOf[r.job] = r.key
    BY <1>1 DEF JobOK, Later
  <2>3. r.at \in Over => r.job \in ToSet(stored')
    BY <1>1, <2>1 DEF JobOK
  <2>4. r.at = "gone" => r.job \notin jobResults'
    <3>1. "gone" \in Over
      BY DEF Over, Told
    <3>2. QED BY <1>1, <3>1 DEF JobOK, Later
  <2>5. QED BY <2>2, <2>3, <2>4 DEF JobOK
<1>4. ReadOK(r)'
  <2>1. /\ Breakdown(r.job)' = Breakdown(r.job) /\ RulesOf(r.job)' = RulesOf(r.job)
        /\ Matching(r.job, r.filter)' = Matching(r.job, r.filter)
        /\ Mine(r.job, r.filter)' = Mine(r.job, r.filter)
    BY SameAnswers DEF Later
  <2>2. QED BY <1>1, <2>1 DEF ReadOK
<1>5. ListOK(r)'
  <2>1. Removed \subseteq Removed'
    BY StoredLater
  <2>2. r.at = "listing" => r.page = <<>>
    BY <1>1 DEF ListOK
  <2>3. r.at = "whole" => r.due \subseteq ToSet(r.got)
    BY <1>1 DEF ListOK
  <2>4. ASSUME r.at \in {"listing", "enriching"} PROVE r.gone \subseteq Removed'
    BY <1>1, <2>1, <2>4 DEF ListOK
  <2>5. ASSUME r.at \in {"listing", "enriching"}, r.gone = Removed'
        PROVE  r.gone = Removed /\ Removed' = Removed
    BY <1>1, <2>1, <2>5 DEF ListOK
  <2>6. ASSUME r.at = "enriching", r.gone = Removed', Len(r.page) # r.total
        PROVE  r.due \subseteq ToSet(r.got) \cup ToSet(r.page)
    BY <1>1, <2>5, <2>6 DEF ListOK
  <2>7. ASSUME r.at \in {"listing", "enriching"}, r.gone = Removed'
        PROVE  /\ r.due \subseteq Candidates(r.by, {}, {})'
               /\ \A j \in r.due : \/ j \in ToSet(r.got) \cup ToSet(r.page)
                                   \/ Place(r.by, j)' >= Len(r.got) + Len(r.page)
    <3>1. /\ r.due \subseteq Candidates(r.by, {}, {})
          /\ \A j \in r.due : \/ j \in ToSet(r.got) \cup ToSet(r.page)
                              \/ Place(r.by, j) >= Len(r.got) + Len(r.page)
      BY <1>1, <2>5, <2>7 DEF ListOK
    <3>2. r.by \in SUBSET Statuses /\ Len(r.got) \in Nat /\ Len(r.page) \in Nat
      <4>1. r.by \in SUBSET Statuses /\ r.page \in Seq(Jobs) /\ r.got \in Seq(Nat) \cup Seq(Jobs)
        BY DEF Conversations
      <4>2. QED BY <4>1, LenProperties
    <3>3. \A j \in Candidates(r.by, {}, {}) :
              /\ j \in Candidates(r.by, {}, {})' /\ Place(r.by, j) <= Place(r.by, j)'
              /\ Place(r.by, j) \in Nat /\ Place(r.by, j)' \in Nat
      BY <2>5, <2>7, <3>2, PlaceGrows
    <3>4. ASSUME NEW j \in r.due
          PROVE  \/ j \in ToSet(r.got) \cup ToSet(r.page)
                 \/ Place(r.by, j)' >= Len(r.got) + Len(r.page)
      <4>1. /\ Place(r.by, j) <= Place(r.by, j)'
            /\ Place(r.by, j) \in Nat /\ Place(r.by, j)' \in Nat
        BY <3>1, <3>3
      <4>2. CASE j \in ToSet(r.got) \cup ToSet(r.page)
        BY <4>2
      <4>3. CASE Place(r.by, j) >= Len(r.got) + Len(r.page)
        <5> DEFINE a == Place(r.by, j)
                   b == Place(r.by, j)'
                   m == Len(r.got)
                   n == Len(r.page)
        <5>1. a <= b /\ a \in Nat /\ b \in Nat /\ m \in Nat /\ n \in Nat /\ a >= m + n
          BY <3>2, <4>1, <4>3
        <5> HIDE DEF a, b, m, n
        <5>2. b >= m + n
          BY <5>1
        <5>3. QED BY <5>2 DEF b, m, n
      <4>4. QED BY <3>1, <4>2, <4>3
    <3>5. QED BY <3>1, <3>3, <3>4
  <2>8. QED BY <2>2, <2>3, <2>4, <2>6, <2>7 DEF ListOK
<1>6. QED BY <1>2, <1>3, <1>4, <1>5 DEF Talks
-----------------------------------------------------------------------------
(* The requests of a client                                                  *)

\* A client goes on to n, and the others are left as they are.
LEMMA Update ==
  ASSUME ApiInv, [ApiNext]_apiVars, NEW c \in Clients, NEW n \in Conversations, Talks(n)',
         client' = [client EXCEPT ![c] = n]
  PROVE  ApiInv'
<1>1. WholeInv /\ JobsInv /\ client \in [Clients -> Conversations]
  BY DEF ApiInv
<1>2. WholeInv' /\ JobsInv' /\ Later
  BY <1>1, StorageStep, WholeStep, JobsStep
<1>3. client' \in [Clients -> Conversations]
  BY <1>1
<1>4. ASSUME NEW d \in Clients PROVE \E r \in Conversations : r = client'[d] /\ Talks(r)'
  <2>1. CASE d = c
    BY <1>1, <2>1
  <2>2. CASE d # c
    <3>1. PICK r \in Conversations : r = client[d] /\ Talks(r)
      BY DEF ApiInv
    <3>2. Talks(r)'
      BY <1>1, <1>2, <3>1, RecordKept
    <3>3. QED BY <1>1, <2>2, <3>1, <3>2
  <2>3. QED BY <2>1, <2>2
<1>5. QED BY <1>2, <1>3, <1>4 DEF ApiInv

\* What is to be shown of a client without a job, with one, reading and listing.
LEMMA WithoutJob ==
  ASSUME NEW n \in Conversations, n.at \in {"submitting", "refused"}, n.got = <<>>,
         n.at = "submitting" => n.key \in Keys
  PROVE  Talks(n)
BY DEF Talks, StartOK, JobOK, ReadOK, ListOK, Fresh, Told, Over, Listings

LEMMA WithJob ==
  ASSUME NEW n \in Conversations, n.at \in {"waiting", "finished", "reproducing", "answered", "gone"},
         JobOK(n), n.got \in Seq(Nat), n.at # "gone" => n.got = <<>>
  PROVE  Talks(n)
BY DEF Talks, StartOK, ReadOK, ListOK, Fresh, Told, Listings

LEMMA Reading ==
  ASSUME NEW n \in Conversations, n.at \in {"reading", "done", "reported"},
         JobOK(n), ReadOK(n), n.got \in Seq(Nat)
  PROVE  Talks(n)
BY DEF Talks, StartOK, ListOK, Fresh, Told, Listings

LEMMA ListsJobs ==
  ASSUME NEW n \in Conversations, n.at \in Listings, ListOK(n), n.got \in Seq(Jobs)
  PROVE  Talks(n)
BY DEF Talks, StartOK, JobOK, ReadOK, Fresh, Told, Over, Listings

\* The client c goes on to what holds of the jobs and results as they are.
GoesOn(c) == \E n \in Conversations : Talks(n) /\ client' = [client EXCEPT ![c] = n]

LEMMA SubmitSteps ==
  ASSUME ApiInv, NEW c \in Clients
  PROVE  /\ Reject(c) \/ NoDocument(c) => GoesOn(c)
         /\ \A k \in Keys : Hit(c, k) \/ Miss(c, k) => GoesOn(c)
<1>1. PICK r \in Conversations : r = client[c] /\ Talks(r)
  BY DEF ApiInv
<1>2. client \in [Clients -> Conversations]
  BY DEF ApiInv
<1>3. r.at \in {"idle", "submitting"} => r.got = <<>>
  BY <1>1 DEF Talks, StartOK, Fresh
<1>4. ASSUME Reject(c) \/ NoDocument(c) PROVE GoesOn(c)
  <2> DEFINE n == [r EXCEPT !.at = "refused"]
  <2>1. r.at \in {"idle", "submitting"} /\ client' = [client EXCEPT ![c] = n]
    BY <1>1, <1>2, <1>4 DEF Reject, NoDocument
  <2>2. n \in Conversations /\ n.at = "refused" /\ n.got = r.got
    BY DEF Conversations, Fresh
  <2> HIDE DEF n
  <2>3. Talks(n)
    BY <1>3, <2>1, <2>2, WithoutJob
  <2>4. QED BY <2>1, <2>2, <2>3 DEF GoesOn
<1>5. ASSUME NEW k \in Keys, Miss(c, k) PROVE GoesOn(c)
  <2> DEFINE n == [r EXCEPT !.at = "submitting", !.key = k]
  <2>1. r.at = "idle" /\ client' = [client EXCEPT ![c] = n]
    BY <1>1, <1>2, <1>5 DEF Miss
  <2>2. n \in Conversations /\ n.at = "submitting" /\ n.got = r.got /\ n.key = k
    BY DEF Conversations, Fresh
  <2> HIDE DEF n
  <2>3. Talks(n)
    BY <1>3, <2>1, <2>2, WithoutJob
  <2>4. QED BY <2>1, <2>2, <2>3 DEF GoesOn
<1>6. ASSUME NEW k \in Keys, Hit(c, k) PROVE GoesOn(c)
  <2> DEFINE j == compositeIndex[k]
             n == [r EXCEPT !.at = "waiting", !.key = k, !.job = j]
  <2>1. r.at = "idle" /\ client' = [client EXCEPT ![c] = n] /\ j # NoJob
    BY <1>1, <1>2, <1>6 DEF Hit
  <2>2. j \in jobResults /\ KeyOf[j] = k /\ j \in Jobs /\ j \in ToSet(stored)
    BY <2>1 DEF ApiInv, WholeInv, IInv, LookupIsLatest, TypeInv, NamesOK
  <2>3. jobs[j] # "none"
    BY <2>2, HttpApiAssumption DEF ApiInv, JobsInv
  <2> HIDE DEF j
  <2>4. n \in Conversations /\ n.at = "waiting" /\ n.got = r.got /\ n.key = k /\ n.job = j
    BY <2>2 DEF Conversations, Fresh
  <2> HIDE DEF n
  <2>5. JobOK(n)
    BY <2>2, <2>3, <2>4 DEF JobOK, Over
  <2>6. Talks(n)
    <3>1. n.got = <<>> /\ <<>> \in Seq(Nat)
      BY <1>3, <2>1, <2>4, EmptySeq
    <3>2. QED BY <2>4, <2>5, <3>1, WithJob
  <2>7. QED BY <2>1, <2>4, <2>6 DEF GoesOn
<1>7. QED BY <1>4, <1>5, <1>6

LEMMA AcceptStep == ASSUME ApiInv, NEW c \in Clients, NEW j \in Jobs, Accept(c, j) PROVE ApiInv'
<1>1. PICK r \in Conversations : r = client[c] /\ Talks(r)
  BY DEF ApiInv
<1>2. client \in [Clients -> Conversations] /\ jobs \in [Jobs -> {"none", "running"} \cup Statuses]
  BY DEF ApiInv, JobsInv
<1> DEFINE n == [r EXCEPT !.at = "waiting", !.job = j]
<1>3. /\ r.at = "submitting" /\ r.key = KeyOf[j] /\ jobs' = [jobs EXCEPT ![j] = "running"]
      /\ client' = [client EXCEPT ![c] = n]
  BY <1>1, <1>2 DEF Accept
<1>4. r.got = <<>>
  BY <1>1, <1>3 DEF Talks, StartOK, Fresh
<1>5. n \in Conversations /\ n.at = "waiting" /\ n.got = r.got /\ n.key = r.key /\ n.job = j
  BY DEF Conversations, Fresh
<1> HIDE DEF n
<1>6. jobs'[n.job] # "none"
  BY <1>2, <1>3, <1>5
<1>7. n.got \in Seq(Nat)
  BY <1>4, <1>5
<1>8. StartOK(n)' /\ JobOK(n)' /\ ReadOK(n)' /\ ListOK(n)'
  <2>1. StartOK(n)'
    BY <1>4, <1>5, <1>7 DEF StartOK, Fresh, Told, Listings
  <2>2. JobOK(n)'
    BY <1>3, <1>5, <1>6 DEF JobOK, Over, Told
  <2>3. ReadOK(n)' /\ ListOK(n)'
    BY <1>5 DEF ReadOK, ListOK
  <2>4. QED BY <2>1, <2>2, <2>3
<1>9. Talks(n)'
  BY <1>8 DEF Talks
<1>10. ApiNext
  BY DEF ApiNext, Request
<1>11. QED BY <1>3, <1>5, <1>9, <1>10, Update

LEMMA PollSteps ==
  ASSUME ApiInv, NEW c \in Clients
  PROVE  /\ Poll(c) \/ NotFound(c) \/ Reproduce(c) => GoesOn(c)
         /\ \A source \in GetSourceMetadata : Reproduced(c, source) => GoesOn(c)
<1>1. PICK r \in Conversations : r = client[c] /\ Talks(r)
  BY DEF ApiInv
<1>2. client \in [Clients -> Conversations]
  BY DEF ApiInv
<1>3. /\ r.at \in {"waiting", "finished", "reproducing"} => r.got = <<>> /\ r.got \in Seq(Nat)
      /\ r.at \in Told => r.got \in Seq(Nat)
  <2>1. /\ r.at \in Fresh => r.got = <<>>
        /\ r.at \in Told => r.got \in Seq(Nat)
    BY <1>1 DEF Talks, StartOK
  <2>2. QED BY <2>1, EmptySeq DEF Fresh
<1>4. JobOK(r)
  BY <1>1 DEF Talks
<1>5. ASSUME Poll(c) PROVE GoesOn(c)
  <2> DEFINE n == [r EXCEPT !.at = "finished"]
  <2>1. r.at = "waiting" /\ client' = [client EXCEPT ![c] = n] /\ jobs[r.job] \in Statuses
    BY <1>1, <1>2, <1>5 DEF Poll
  <2>2. n \in Conversations /\ n.at = "finished" /\ n.got = r.got /\ n.key = r.key /\ n.job = r.job
    BY DEF Conversations, Fresh
  <2> HIDE DEF n
  <2>3. r.job \in Jobs /\ jobs[r.job] # "none" /\ KeyOf[r.job] = r.key
    BY <1>4, <2>1 DEF JobOK, Told
  <2>4. r.job \in ToSet(stored)
    BY <2>1, <2>3 DEF ApiInv, JobsInv
  <2>5. JobOK(n)
    BY <2>2, <2>3, <2>4 DEF JobOK
  <2>6. Talks(n)
    BY <1>3, <2>1, <2>2, <2>5, WithJob
  <2>7. QED BY <2>1, <2>2, <2>6 DEF GoesOn
<1>6. ASSUME Reproduce(c) PROVE GoesOn(c)
  <2> DEFINE n == [r EXCEPT !.at = "reproducing"]
  <2>1. r.at = "finished" /\ client' = [client EXCEPT ![c] = n]
    BY <1>1, <1>2, <1>6 DEF Reproduce
  <2>2. n \in Conversations /\ n.at = "reproducing" /\ n.got = r.got /\ n.key = r.key /\ n.job = r.job
    BY DEF Conversations, Fresh
  <2> HIDE DEF n
  <2>3. JobOK(n)
    BY <1>4, <2>1, <2>2 DEF JobOK, Told, Over
  <2>4. Talks(n)
    BY <1>3, <2>1, <2>2, <2>3, WithJob
  <2>5. QED BY <2>1, <2>2, <2>4 DEF GoesOn
<1>7. ASSUME NotFound(c) PROVE GoesOn(c)
  <2> DEFINE n == [r EXCEPT !.at = "gone"]
  <2>1. /\ r.at \in {"finished", "reading"} /\ client' = [client EXCEPT ![c] = n]
        /\ r.job \notin jobResults
    BY <1>1, <1>2, <1>7 DEF NotFound
  <2>2. n \in Conversations /\ n.at = "gone" /\ n.got = r.got /\ n.key = r.key /\ n.job = r.job
    BY DEF Conversations, Over, Told
  <2> HIDE DEF n
  <2>3. JobOK(n)
    BY <1>4, <2>1, <2>2 DEF JobOK, Told, Over
  <2>4. n.got \in Seq(Nat)
    BY <1>3, <2>1, <2>2 DEF Told
  <2>5. Talks(n)
    BY <2>2, <2>3, <2>4, WithJob
  <2>6. QED BY <2>1, <2>2, <2>5 DEF GoesOn
<1>8. ASSUME NEW source \in GetSourceMetadata, Reproduced(c, source) PROVE GoesOn(c)
  <2> DEFINE a == IF source THEN "answered" ELSE "refused"
             n == [r EXCEPT !.at = a]
  <2>1. r.at = "reproducing" /\ client' = [client EXCEPT ![c] = n]
    BY <1>1, <1>2, <1>8 DEF Reproduced
  <2>2. a \in {"answered", "refused"}
    OBVIOUS
  <2> HIDE DEF a
  <2>3. n \in Conversations /\ n.at = a /\ n.got = r.got /\ n.key = r.key /\ n.job = r.job
    BY <2>2 DEF Conversations, Fresh
  <2> HIDE DEF n
  <2>4. Talks(n)
    <3>1. CASE a = "answered"
      <4>1. JobOK(n)
        BY <1>4, <2>1, <2>3, <3>1 DEF JobOK, Told, Over
      <4>2. QED BY <1>3, <2>1, <2>3, <3>1, <4>1, WithJob
    <3>2. CASE a = "refused"
      BY <1>3, <2>1, <2>3, <3>2, WithoutJob
    <3>3. QED BY <2>2, <3>1, <3>2
  <2>5. QED BY <2>1, <2>3, <2>4 DEF GoesOn
<1>9. QED BY <1>5, <1>6, <1>7, <1>8
\* Two sequences one after the other.
LEMMA Joined ==
  ASSUME NEW S, NEW a \in Seq(S), NEW b \in Seq(S)
  PROVE  /\ a \o b \in Seq(S) /\ Len(a \o b) = Len(a) + Len(b)
         /\ Len(a) \in Nat /\ Len(b) \in Nat
         /\ \A i \in 1..Len(a) : (a \o b)[i] = a[i]
         /\ \A i \in 1..Len(b) : (a \o b)[Len(a) + i] = b[i]
         /\ ToSet(a \o b) = ToSet(a) \cup ToSet(b)
<1>1. /\ a \o b \in Seq(S) /\ Len(a \o b) = Len(a) + Len(b)
      /\ Len(a) \in Nat /\ Len(b) \in Nat
      /\ \A i \in 1..(Len(a) + Len(b)) : (a \o b)[i] = IF i <= Len(a) THEN a[i] ELSE b[i - Len(a)]
  BY ConcatProperties, LenProperties
<1>2. \A i \in 1..Len(a) : (a \o b)[i] = a[i]
  BY <1>1
<1>3. ASSUME NEW i \in 1..Len(b) PROVE (a \o b)[Len(a) + i] = b[i]
  <2>1. Len(a) + i \in 1..(Len(a) + Len(b)) /\ ~(Len(a) + i <= Len(a)) /\ (Len(a) + i) - Len(a) = i
    BY <1>1
  <2>2. QED BY <1>1, <2>1
<1>4. /\ DOMAIN a = 1..Len(a) /\ DOMAIN b = 1..Len(b)
      /\ DOMAIN (a \o b) = 1..(Len(a) + Len(b))
  BY <1>1, LenProperties
<1>5. ToSet(a \o b) \subseteq ToSet(a) \cup ToSet(b)
  <2> SUFFICES ASSUME NEW i \in 1..(Len(a) + Len(b))
               PROVE  (a \o b)[i] \in ToSet(a) \cup ToSet(b)
    BY <1>4 DEF ToSet
  <2>1. CASE i <= Len(a)
    <3>1. i \in 1..Len(a) /\ (a \o b)[i] = a[i]
      BY <1>1, <2>1
    <3>2. QED BY <1>4, <3>1 DEF ToSet
  <2>2. CASE i > Len(a)
    <3>1. i - Len(a) \in 1..Len(b) /\ (a \o b)[i] = b[i - Len(a)]
      BY <1>1, <2>2
    <3>2. QED BY <1>4, <3>1 DEF ToSet
  <2>3. QED BY <1>1, <2>1, <2>2
<1>6. ToSet(a) \cup ToSet(b) \subseteq ToSet(a \o b)
  <2>1. ASSUME NEW i \in 1..Len(a) PROVE a[i] \in ToSet(a \o b)
    <3>1. i \in 1..(Len(a) + Len(b)) /\ (a \o b)[i] = a[i]
      BY <1>1, <1>2
    <3>2. QED BY <1>4, <3>1 DEF ToSet
  <2>2. ASSUME NEW i \in 1..Len(b) PROVE b[i] \in ToSet(a \o b)
    <3>1. Len(a) + i \in 1..(Len(a) + Len(b)) /\ (a \o b)[Len(a) + i] = b[i]
      BY <1>1, <1>3
    <3>2. QED BY <1>4, <3>1 DEF ToSet
  <2>3. QED BY <1>4, <2>1, <2>2 DEF ToSet
<1>7. QED BY <1>1, <1>2, <1>3, <1>5, <1>6

\* The issues that pass, as a list of their places.
LEMMA MatchingType ==
  ASSUME NEW j \in Jobs, NEW f \in Filters
  PROVE  Matching(j, f) \in Seq(Nat) /\ Len(Matching(j, f)) \in Nat
<1>1. Passing(j, f) \in SUBSET (DOMAIN IssuesOf(j)) /\ Matching(j, f) = Ascending(Passing(j, f))
  BY PassCount
<1>2. QED BY <1>1, Chosen, LenProperties

LEMMA StatsStep ==
  ASSUME ApiInv, NEW c \in Clients, NEW f \in Filters, Stats(c, f) PROVE GoesOn(c)
<1>1. PICK r \in Conversations : r = client[c] /\ Talks(r)
  BY DEF ApiInv
<1> DEFINE t == Breakdown(r.job)[f.by][f.is]
           n == [r EXCEPT !.at = "reading", !.filter = f, !.total = t]
<1>2. r.at = "finished" /\ client' = [client EXCEPT ![c] = n]
  BY <1>1 DEF Stats, ApiInv
<1>3. r.got = <<>> /\ JobOK(r)
  BY <1>1, <1>2 DEF Talks, StartOK, Fresh
<1>4. r.job \in Jobs
  BY <1>2, <1>3 DEF JobOK, Told
<1>5. t \in Nat
  BY <1>4, StatsCount
<1>6. /\ n.at = "reading" /\ n.got = <<>> /\ n.key = r.key /\ n.job = r.job /\ n.filter = f
      /\ n.total = Breakdown(n.job)[f.by][f.is] /\ n \in Conversations
  <2> HIDE DEF t
  <2>1. n \in Conversations
    BY <1>5 DEF Conversations, Over, Told
  <2>2. n.at = "reading" /\ n.got = <<>> /\ n.key = r.key /\ n.job = r.job /\ n.filter = f /\ n.total = t
    BY <1>3 DEF Conversations
  <2>3. QED BY <2>1, <2>2 DEF t
<1> HIDE DEF n, t
<1>7. JobOK(n)
  BY <1>2, <1>3, <1>6 DEF JobOK, Told, Over
<1>8. ReadOK(n)
  <2>1. Len(n.got) = 0 /\ Len(Matching(n.job, n.filter)) \in Nat
    BY <1>4, <1>6, MatchingType, EmptySeq
  <2>2. QED BY <1>6, <2>1 DEF ReadOK
<1>9. Talks(n)
  BY <1>6, <1>7, <1>8, Reading, EmptySeq
<1>10. QED BY <1>2, <1>6, <1>9 DEF GoesOn

\* Pages put together are a beginning of what is paged through.
LEMMA PageGoesOn ==
  ASSUME NEW q \in Seq(Nat), NEW got \in Seq(Nat), NEW limit \in Nat, Len(got) <= Len(q),
         \A i \in 1..Len(got) : got[i] = q[i]
  PROVE  LET page == Slice(q, Len(got), limit)
         IN  /\ page \in Seq(Nat) /\ Len(page) \in Nat
             /\ got \o page \in Seq(Nat) /\ Len(got \o page) = Len(got) + Len(page)
             /\ Len(got \o page) <= Len(q) /\ Len(got \o page) \in Nat
             /\ \A i \in 1..Len(got \o page) : (got \o page)[i] = q[i]
<1> DEFINE page == Slice(q, Len(got), limit)
           o == Len(got)
<1>1. o \in Nat /\ Len(q) \in Nat
  BY LenProperties
<1>2. page \in Seq(Nat)
  BY <1>1, Sliced
<1>3. \A i \in 1..Len(page) : o + i \in 1..Len(q) /\ page[i] = q[o + i]
  <2>1. ASSUME NEW p \in Nat
        PROVE  \A i \in 1..Len(Slice(q, p, limit)) :
                   p + i \in 1..Len(q) /\ Slice(q, p, limit)[i] = q[p + i]
    BY Sliced
  <2>2. QED BY <1>1, <2>1
<1> HIDE DEF page
<1>4. /\ got \o page \in Seq(Nat) /\ Len(got \o page) = o + Len(page) /\ Len(page) \in Nat
      /\ \A i \in 1..o : (got \o page)[i] = got[i]
      /\ \A i \in 1..Len(page) : (got \o page)[o + i] = page[i]
  BY <1>2, Joined
<1>5. ASSUME NEW i \in 1..Len(got \o page) PROVE (got \o page)[i] = q[i] /\ i <= Len(q)
  <2>1. CASE i <= o
    <3>1. i \in 1..o
      BY <1>1, <1>4, <2>1
    <3>2. QED BY <1>1, <1>4, <2>1, <3>1
  <2>2. CASE i > o
    <3>1. i - o \in 1..Len(page) /\ o + (i - o) = i
      BY <1>1, <1>4, <2>2
    <3>2. (got \o page)[o + (i - o)] = page[i - o] /\ page[i - o] = q[o + (i - o)]
      BY <1>3, <1>4, <3>1
    <3>3. o + (i - o) \in 1..Len(q)
      BY <1>3, <3>1
    <3>4. QED BY <1>1, <3>1, <3>2, <3>3
  <2>3. QED BY <1>1, <1>4, <2>1, <2>2
<1>6. Len(got \o page) <= Len(q)
  <2>1. CASE Len(page) = 0
    BY <1>1, <1>4, <2>1
  <2>2. CASE Len(page) # 0
    <3>1. Len(got \o page) \in 1..Len(got \o page)
      BY <1>1, <1>4, <2>2
    <3>2. QED BY <1>5, <3>1
  <2>3. QED BY <2>1, <2>2
<1>7. Len(got \o page) \in Nat
  BY <1>1, <1>4
<1>8. QED BY <1>2, <1>4, <1>5, <1>6, <1>7 DEF page

LEMMA ResultsStep ==
  ASSUME ApiInv, NEW c \in Clients, NEW limit \in PageSizes, Results(c, limit) PROVE GoesOn(c)
<1>1. PICK r \in Conversations : r = client[c] /\ Talks(r)
  BY DEF ApiInv
<1> DEFINE q == Matching(r.job, r.filter)
           page == Slice(q, Len(r.got), limit)
           more == Len(r.got) + Len(page) < Len(q)
           a == IF more THEN "reading" ELSE "done"
           n == [r EXCEPT !.got = r.got \o page, !.at = a]
<1>2. r.at = "reading" /\ client' = [client EXCEPT ![c] = n]
  BY <1>1 DEF Results, QueryJobResults, ApiInv
<1>3. r.got \in Seq(Nat) /\ JobOK(r) /\ ReadOK(r)
  BY <1>1, <1>2 DEF Talks, StartOK, Told
<1>4. r.job \in Jobs /\ r.filter \in Filters /\ r.total = Breakdown(r.job)[r.filter.by][r.filter.is]
  BY <1>2, <1>3 DEF JobOK, ReadOK, Told
<1>5. q \in Seq(Nat) /\ Len(q) \in Nat /\ limit \in Nat
  BY <1>4, MatchingType, HttpApiAssumption
<1>6. Len(r.got) <= Len(q) /\ \A i \in 1..Len(r.got) : r.got[i] = q[i]
  BY <1>2, <1>3 DEF ReadOK
<1> HIDE DEF q
<1>7. /\ Len(page) \in Nat /\ r.got \o page \in Seq(Nat)
      /\ Len(r.got \o page) = Len(r.got) + Len(page) /\ Len(r.got \o page) <= Len(q)
      /\ \A i \in 1..Len(r.got \o page) : (r.got \o page)[i] = q[i]
  <2>1. r.got \in Seq(Nat)
    BY <1>3
  <2>2. QED BY <1>5, <1>6, <2>1, PageGoesOn
<1> HIDE DEF page
<1>8. /\ n \in Conversations /\ n.at \in {"reading", "done"} /\ n.got = r.got \o page
      /\ n.key = r.key /\ n.job = r.job /\ n.filter = r.filter /\ n.total = r.total
      /\ n.at = "done" => ~more
  <2>1. a \in {"reading", "done"} /\ (a = "done" => ~more)
    OBVIOUS
  <2> HIDE DEF a, more
  <2>2. n \in Conversations
    BY <1>7, <2>1 DEF Conversations, Over, Told
  <2>3. n.at = a /\ n.got = r.got \o page
    BY DEF Conversations
  <2>4. n.key = r.key /\ n.job = r.job /\ n.filter = r.filter /\ n.total = r.total
    BY DEF Conversations
  <2>5. QED BY <2>1, <2>2, <2>3, <2>4
<1> HIDE DEF n, a
<1>9. JobOK(n)
  BY <1>2, <1>3, <1>8 DEF JobOK, Told, Over
<1>10. ReadOK(n)
  <2>1. ~more => Len(n.got) = Len(q)
    <3>1. Len(r.got) \in Nat
      BY <1>3, LenProperties
    <3>2. QED BY <1>5, <1>7, <1>8, <3>1
  <2>2. Matching(n.job, n.filter) = q
    BY <1>8 DEF q
  <2>3. n.at # "reported"
    BY <1>8
  <2>4. /\ n.filter \in Filters /\ n.total = Breakdown(n.job)[n.filter.by][n.filter.is]
        /\ Len(n.got) <= Len(q) /\ \A i \in 1..Len(n.got) : n.got[i] = q[i]
    BY <1>4, <1>7, <1>8
  <2>5. QED BY <1>8, <2>1, <2>2, <2>3, <2>4 DEF ReadOK
<1>11. Talks(n)
  BY <1>7, <1>8, <1>9, <1>10, Reading
<1>12. QED BY <1>2, <1>8, <1>11 DEF GoesOn

LEMMA ReportStep == ASSUME ApiInv, NEW c \in Clients, Report(c) PROVE GoesOn(c)
<1>1. PICK r \in Conversations : r = client[c] /\ Talks(r)
  BY DEF ApiInv
<1> DEFINE mine == Mine(r.job, r.filter)
           rules == RulesOf(r.job)
           refused == [r EXCEPT !.at = "refused"]
           n == [r EXCEPT !.at = "reported", !.got = mine, !.rules = rules]
<1>2. /\ r.at = "reading" /\ r.got = <<>>
      /\ client' = [client EXCEPT ![c] = refused] \/ client' = [client EXCEPT ![c] = n]
  <2>1. BuildSarif(r.job).rules = rules
    BY DEF BuildSarif
  <2>2. QED BY <1>1, <2>1 DEF Report, Mine, ApiInv
<1>3. JobOK(r) /\ ReadOK(r)
  BY <1>1 DEF Talks
<1>4. r.job \in Jobs /\ r.filter \in Filters /\ r.total = Breakdown(r.job)[r.filter.by][r.filter.is]
  BY <1>2, <1>3 DEF JobOK, ReadOK, Told
<1>5. mine \in Seq(Nat) /\ rules \in Seq(Catalogued)
  <2>1. /\ Showing(r.job, r.filter) \in SUBSET (DOMAIN IssuesOf(r.job))
        /\ mine = Ascending(Showing(r.job, r.filter))
    BY <1>4, ShowCount
  <2> HIDE DEF mine
  <2>2. mine \in Seq(Nat)
    BY <1>4, <2>1, Chosen
  <2>3. rules \in Seq(Catalogued)
    BY <1>4, RulesOnce
  <2>4. QED BY <2>2, <2>3
<1>6. CASE client' = [client EXCEPT ![c] = refused]
  <2>1. refused \in Conversations /\ refused.at = "refused" /\ refused.got = <<>>
    BY <1>2 DEF Conversations, Fresh
  <2> HIDE DEF refused
  <2>2. Talks(refused)
    BY <2>1, WithoutJob
  <2>3. QED BY <1>6, <2>1, <2>2 DEF GoesOn
<1>7. CASE client' = [client EXCEPT ![c] = n]
  <2>1. /\ n.at = "reported" /\ n.got = Mine(n.job, n.filter) /\ n.rules = RulesOf(n.job)
        /\ n.key = r.key /\ n.job = r.job /\ n.filter = r.filter /\ n.total = r.total
        /\ n \in Conversations /\ n.got \in Seq(Nat)
    <3> HIDE DEF mine, rules
    <3>1. n \in Conversations
      BY <1>5 DEF Conversations, Over, Told
    <3>2. n.at = "reported" /\ n.got = mine /\ n.rules = rules
      BY DEF Conversations
    <3>3. n.key = r.key /\ n.job = r.job /\ n.filter = r.filter /\ n.total = r.total
      BY DEF Conversations
    <3>4. QED BY <1>5, <3>1, <3>2, <3>3 DEF mine, rules
  <2> HIDE DEF n, mine, rules
  <2>2. JobOK(n)
    BY <1>2, <1>3, <2>1 DEF JobOK, Told, Over
  <2>3. ReadOK(n)
    BY <1>4, <2>1 DEF ReadOK
  <2>4. Talks(n)
    BY <2>1, <2>2, <2>3, Reading
  <2>5. QED BY <1>7, <2>1, <2>4 DEF GoesOn
<1>8. QED BY <1>2, <1>6, <1>7

\* A client that has not begun.
LEMMA AtFirst == Waits \in Conversations /\ Talks(Waits)
<1>1. \A S : <<>> \in Seq(S)
  OBVIOUS
<1>2. Waits \in Conversations
  BY <1>1 DEF Waits, Conversations, Fresh
<1>3. Waits.at = "idle" /\ Waits.got = <<>>
  BY DEF Waits
<1>4. StartOK(Waits)
  BY <1>3 DEF StartOK, Told, Listings
<1>5. JobOK(Waits) /\ ReadOK(Waits) /\ ListOK(Waits)
  BY <1>3 DEF JobOK, ReadOK, ListOK, Told, Over
<1>6. QED BY <1>2, <1>4, <1>5 DEF Talks

LEMMA AgainStep == ASSUME NEW c \in Clients, Again(c) PROVE GoesOn(c)
<1>1. client' = [client EXCEPT ![c] = Waits]
  BY DEF Again
<1>2. QED BY <1>1, AtFirst DEF GoesOn
LEMMA ListStep ==
  ASSUME ApiInv, NEW c \in Clients, NEW S \in SUBSET Statuses, List(c, S) PROVE GoesOn(c)
<1>1. PICK r \in Conversations : r = client[c] /\ Talks(r)
  BY DEF ApiInv
<1> DEFINE due == Candidates(S, {}, {})
           n == [r EXCEPT !.at = "listing", !.by = S, !.due = due, !.gone = Removed]
<1>2. r.at = "idle" /\ client' = [client EXCEPT ![c] = n]
  BY <1>1 DEF List, ApiInv
<1>3. r.got = <<>> /\ r.page = <<>>
  BY <1>1, <1>2 DEF Talks, StartOK, Waits
<1>4. due \subseteq Jobs /\ Removed \subseteq Jobs
  <2>1. WholeInv /\ expired = {} /\ stored \in Seq(Jobs)
    BY DEF ApiInv, JobsInv, WholeInv, IInv, TypeInv
  <2>2. due \subseteq Jobs
    BY <2>1, Candidate
  <2>3. Removed \subseteq Jobs
    BY <2>1, LenProperties DEF Removed, ToSet
  <2>4. QED BY <2>2, <2>3
<1>5. \A j \in due : Place(S, j) \in Nat
  BY ListPlaces DEF ApiInv
<1> HIDE DEF due
<1>6. /\ n \in Conversations /\ n.at = "listing" /\ n.by = S /\ n.due = due /\ n.gone = Removed
      /\ n.got = <<>> /\ n.page = <<>>
  <2>1. n \in Conversations
    BY <1>4 DEF Conversations, Listings
  <2>2. n.at = "listing" /\ n.by = S /\ n.due = due /\ n.gone = Removed
    BY DEF Conversations
  <2>3. n.got = <<>> /\ n.page = <<>>
    BY <1>3 DEF Conversations
  <2>4. QED BY <2>1, <2>2, <2>3
<1> HIDE DEF n
<1>7. ListOK(n)
  <2>1. Len(n.got) = 0 /\ Len(n.page) = 0
    BY <1>6
  <2>2. \A j \in n.due : Place(n.by, j) >= Len(n.got) + Len(n.page)
    BY <1>5, <1>6, <2>1
  <2>3. n.due \subseteq Candidates(n.by, {}, {}) /\ n.gone \subseteq Removed
    BY <1>6 DEF due
  <2>4. QED BY <1>6, <2>2, <2>3 DEF ListOK
<1>8. n.got \in Seq(Jobs) /\ n.at \in Listings
  BY <1>6, EmptySeq DEF Listings
<1>9. Talks(n)
  BY <1>6, <1>7, <1>8, ListsJobs
<1>10. QED BY <1>2, <1>6, <1>9 DEF GoesOn

\* A page is added to what a client has, when the jobs it is to find are there, in
\* the page, or on a later page.
LEMMA Added ==
  ASSUME NEW c \in Clients, client \in [Clients -> Conversations],
         NEW r \in Conversations, r = client[c], r.at \in Listings, r.got \in Seq(Jobs),
         NEW page \in Seq(Jobs), NEW limit \in Nat, Listed(c, page, limit),
         r.gone \subseteq Removed,
         r.gone = Removed =>
             /\ r.due \subseteq Candidates(r.by, {}, {})
             /\ \A j \in r.due : \/ j \in ToSet(r.got) \cup ToSet(page)
                                 \/ /\ Len(page) = limit
                                    /\ Place(r.by, j) >= Len(r.got) + Len(page)
  PROVE  GoesOn(c)
<1> DEFINE ends == IF r.gone = Removed THEN "whole" ELSE "disturbed"
           a == IF Len(page) = limit THEN "listing" ELSE ends
           n == [r EXCEPT !.got = r.got \o page, !.page = <<>>, !.at = a]
<1>1. client' = [client EXCEPT ![c] = n]
  BY DEF Listed
<1>2. /\ r.got \o page \in Seq(Jobs) /\ Len(r.got \o page) = Len(r.got) + Len(page)
      /\ ToSet(r.got \o page) = ToSet(r.got) \cup ToSet(page)
      /\ Len(r.got) \in Nat /\ Len(page) \in Nat
  BY Joined
<1>3. /\ a \in {"listing", "whole", "disturbed"}
      /\ a = "listing" => Len(page) = limit
      /\ a = "whole" => r.gone = Removed /\ Len(page) # limit
  OBVIOUS
<1> HIDE DEF a
<1>4. /\ n \in Conversations /\ n.at = a /\ n.got = r.got \o page /\ n.page = <<>>
      /\ n.by = r.by /\ n.due = r.due /\ n.gone = r.gone
  <2>1. n \in Conversations
    <3>1. <<>> \in Seq(Jobs)
      BY EmptySeq
    <3>2. QED BY <1>2, <1>3, <3>1 DEF Conversations, Listings
  <2>2. n.at = a /\ n.got = r.got \o page /\ n.page = <<>>
    BY DEF Conversations
  <2>3. n.by = r.by /\ n.due = r.due /\ n.gone = r.gone
    BY DEF Conversations
  <2>4. QED BY <2>1, <2>2, <2>3
<1> HIDE DEF n
<1>5. Len(n.got) + Len(n.page) = Len(r.got) + Len(page) /\ ToSet(n.page) = {}
  <2>1. Len(n.page) = 0 /\ ToSet(n.page) = {}
    BY <1>4 DEF ToSet
  <2>2. Len(n.got) = Len(r.got) + Len(page)
    BY <1>2, <1>4
  <2>3. QED BY <1>2, <2>1, <2>2
<1>6. ASSUME n.gone = Removed
      PROVE  /\ n.due \subseteq Candidates(n.by, {}, {})
             /\ \A j \in n.due : \/ j \in ToSet(n.got) \cup ToSet(n.page)
                                 \/ Place(n.by, j) >= Len(n.got) + Len(n.page)
  <2>1. n.due \subseteq Candidates(n.by, {}, {})
    BY <1>4, <1>6
  <2>2. ASSUME NEW j \in n.due
        PROVE  \/ j \in ToSet(n.got) \cup ToSet(n.page)
               \/ Place(n.by, j) >= Len(n.got) + Len(n.page)
    <3>1. \/ j \in ToSet(r.got) \cup ToSet(page)
          \/ Place(r.by, j) >= Len(r.got) + Len(page)
      BY <1>4, <1>6, <2>2
    <3>2. CASE j \in ToSet(r.got) \cup ToSet(page)
      BY <1>2, <1>4, <3>2
    <3>3. CASE Place(r.by, j) >= Len(r.got) + Len(page)
      <4>1. Place(n.by, j) = Place(r.by, j)
        BY <1>4
      <4>2. QED BY <1>5, <3>3, <4>1
    <3>4. QED BY <3>1, <3>2, <3>3
  <2>3. QED BY <2>1, <2>2
<1>7. n.at = "whole" => n.due \subseteq ToSet(n.got)
  BY <1>2, <1>3, <1>4
<1>8. ListOK(n)
  <2>1. n.at # "enriching" /\ n.page = <<>> /\ n.gone \subseteq Removed
    BY <1>3, <1>4
  <2>2. QED BY <1>6, <1>7, <2>1 DEF ListOK
<1>9. n.at \in Listings /\ n.got \in Seq(Jobs)
  BY <1>2, <1>3, <1>4 DEF Listings
<1>10. Talks(n)
  BY <1>4, <1>8, <1>9, ListsJobs
<1>11. QED BY <1>1, <1>4, <1>10 DEF GoesOn

\* What the next page has, for a client that lists.
LEMMA NextPage ==
  ASSUME ApiInv, NEW r \in Conversations, Talks(r), r.at = "listing", NEW limit \in Nat
  PROVE  LET page == Slice(Listing(r.by), Len(r.got), limit)
         IN  /\ r.got \in Seq(Jobs) /\ page \in Seq(Jobs) /\ r.page = <<>>
             /\ r.gone \subseteq Removed
             /\ r.gone = Removed =>
                    /\ r.due \subseteq Candidates(r.by, {}, {})
                    /\ \A j \in r.due : \/ j \in ToSet(r.got) \cup ToSet(page)
                                        \/ /\ Len(page) = limit
                                           /\ Place(r.by, j) >= Len(r.got) + Len(page)
<1> DEFINE page == Slice(Listing(r.by), Len(r.got), limit)
<1>1. StartOK(r) /\ ListOK(r) /\ WholeInv /\ JobsInv
  BY DEF Talks, ApiInv
<1>2. r.got \in Seq(Jobs) /\ r.page = <<>> /\ r.gone \subseteq Removed /\ r.by \in SUBSET Statuses
  BY <1>1 DEF StartOK, ListOK, Listings, Conversations
<1>3. Len(r.got) \in Nat /\ Len(r.page) = 0 /\ ToSet(r.page) = {}
  BY <1>2, LenProperties DEF ToSet
<1>4. /\ page \in Seq(Jobs) /\ Len(page) \in Nat
      /\ \A j \in Candidates(r.by, {}, {}) :
             Place(r.by, j) >= Len(r.got) =>
                 j \in ToSet(page) \/ (Len(page) = limit /\ Place(r.by, j) >= Len(r.got) + Len(page))
  <2>1. ASSUME NEW p \in Nat
        PROVE  /\ Slice(Listing(r.by), p, limit) \in Seq(Jobs)
               /\ Len(Slice(Listing(r.by), p, limit)) \in Nat
               /\ \A j \in Candidates(r.by, {}, {}) :
                      Place(r.by, j) >= p =>
                          \/ j \in ToSet(Slice(Listing(r.by), p, limit))
                          \/ /\ Len(Slice(Listing(r.by), p, limit)) = limit
                             /\ Place(r.by, j) >= p + Len(Slice(Listing(r.by), p, limit))
    BY <1>1, <1>2, PageReads
  <2>2. QED BY <1>3, <2>1
<1> HIDE DEF page
<1>5. ASSUME r.gone = Removed
      PROVE  /\ r.due \subseteq Candidates(r.by, {}, {})
             /\ \A j \in r.due : \/ j \in ToSet(r.got) \cup ToSet(page)
                                 \/ /\ Len(page) = limit
                                    /\ Place(r.by, j) >= Len(r.got) + Len(page)
  <2>1. /\ r.due \subseteq Candidates(r.by, {}, {})
        /\ \A j \in r.due : \/ j \in ToSet(r.got) \cup ToSet(r.page)
                            \/ Place(r.by, j) >= Len(r.got) + Len(r.page)
    BY <1>1, <1>5 DEF ListOK
  <2>2. Len(r.got) + Len(r.page) = Len(r.got)
    BY <1>3
  <2>3. \A j \in r.due : j \in ToSet(r.got) \/ Place(r.by, j) >= Len(r.got)
    BY <1>3, <2>1, <2>2
  <2>4. QED BY <1>4, <2>1, <2>3
<1>6. QED BY <1>2, <1>4, <1>5 DEF page

LEMMA ListJobsStep ==
  ASSUME ApiInv, NEW c \in Clients, NEW limit \in PageSizes, ListJobs(c, limit) PROVE GoesOn(c)
<1>1. PICK r \in Conversations : r = client[c] /\ Talks(r)
  BY DEF ApiInv
<1> DEFINE page == Slice(Listing(r.by), Len(r.got), limit)
<1>2. /\ r.at = "listing" /\ Listed(c, page, limit) /\ limit \in Nat
      /\ client \in [Clients -> Conversations]
  BY <1>1, HttpApiAssumption DEF ListJobs, ApiInv
<1>3. /\ r.got \in Seq(Jobs) /\ page \in Seq(Jobs)
      /\ r.gone \subseteq Removed
      /\ r.gone = Removed =>
             /\ r.due \subseteq Candidates(r.by, {}, {})
             /\ \A j \in r.due : \/ j \in ToSet(r.got) \cup ToSet(page)
                                 \/ /\ Len(page) = limit
                                    /\ Place(r.by, j) >= Len(r.got) + Len(page)
  BY <1>1, <1>2, NextPage
<1> HIDE DEF page
<1>4. r.at \in Listings
  BY <1>2 DEF Listings
<1>5. QED BY <1>1, <1>2, <1>3, <1>4, Added

LEMMA EnrichedStep ==
  ASSUME ApiInv, NEW c \in Clients, NEW limit \in PageSizes, Enriched(c, limit) PROVE GoesOn(c)
<1>1. PICK r \in Conversations : r = client[c] /\ Talks(r)
  BY DEF ApiInv
<1>2. /\ r.at = "enriching" /\ limit = r.total /\ Listed(c, r.page, limit) /\ limit \in Nat
      /\ client \in [Clients -> Conversations]
  BY <1>1, HttpApiAssumption DEF Enriched, ApiInv
<1>3. StartOK(r) /\ ListOK(r) /\ r.page \in Seq(Jobs)
  BY <1>1 DEF Talks, Conversations
<1>4. r.at \in Listings /\ r.got \in Seq(Jobs)
  BY <1>2, <1>3 DEF Listings, StartOK
<1>5. r.gone \subseteq Removed
  BY <1>2, <1>3 DEF ListOK
<1>6. ASSUME r.gone = Removed
      PROVE  /\ r.due \subseteq Candidates(r.by, {}, {})
             /\ \A j \in r.due : \/ j \in ToSet(r.got) \cup ToSet(r.page)
                                 \/ /\ Len(r.page) = limit
                                    /\ Place(r.by, j) >= Len(r.got) + Len(r.page)
  <2>1. /\ r.due \subseteq Candidates(r.by, {}, {})
        /\ \A j \in r.due : \/ j \in ToSet(r.got) \cup ToSet(r.page)
                            \/ Place(r.by, j) >= Len(r.got) + Len(r.page)
    BY <1>2, <1>3, <1>6 DEF ListOK
  <2>2. Len(r.page) # limit => r.due \subseteq ToSet(r.got) \cup ToSet(r.page)
    BY <1>2, <1>3, <1>6 DEF ListOK
  <2>3. QED BY <2>1, <2>2
<1>7. QED BY <1>1, <1>2, <1>3, <1>4, <1>5, <1>6, Added

LEMMA DetailsStep ==
  ASSUME ApiInv, NEW c \in Clients, NEW limit \in PageSizes, ListJobsDetailed(c, limit)
  PROVE  GoesOn(c)
<1>1. PICK r \in Conversations : r = client[c] /\ Talks(r)
  BY DEF ApiInv
<1> DEFINE page == Slice(Listing(r.by), Len(r.got), limit)
           n == [r EXCEPT !.at = "enriching", !.total = limit, !.page = page]
<1>2. r.at = "listing" /\ client' = [client EXCEPT ![c] = n] /\ limit \in Nat
  BY <1>1, HttpApiAssumption DEF ListJobsDetailed, ApiInv
<1>3. /\ r.got \in Seq(Jobs) /\ page \in Seq(Jobs)
      /\ r.gone \subseteq Removed
      /\ r.gone = Removed =>
             /\ r.due \subseteq Candidates(r.by, {}, {})
             /\ \A j \in r.due : \/ j \in ToSet(r.got) \cup ToSet(page)
                                 \/ /\ Len(page) = limit
                                    /\ Place(r.by, j) >= Len(r.got) + Len(page)
  BY <1>1, <1>2, NextPage
<1> HIDE DEF page
<1>4. /\ n \in Conversations /\ n.at = "enriching" /\ n.total = limit /\ n.page = page
      /\ n.got = r.got /\ n.by = r.by /\ n.due = r.due /\ n.gone = r.gone
  <2>1. n \in Conversations
    BY <1>2, <1>3 DEF Conversations, Listings
  <2>2. n.at = "enriching" /\ n.total = limit /\ n.page = page
    BY DEF Conversations
  <2>3. n.got = r.got /\ n.by = r.by /\ n.due = r.due /\ n.gone = r.gone
    BY DEF Conversations
  <2>4. QED BY <2>1, <2>2, <2>3
<1> HIDE DEF n
<1>5. ListOK(n)
  <2>1. n.at # "listing" /\ n.at # "whole"
    BY <1>4
  <2>2. n.gone \subseteq Removed
    BY <1>3, <1>4
  <2>3. ASSUME n.gone = Removed
        PROVE  /\ n.due \subseteq Candidates(n.by, {}, {})
               /\ \A j \in n.due : \/ j \in ToSet(n.got) \cup ToSet(n.page)
                                   \/ Place(n.by, j) >= Len(n.got) + Len(n.page)
    BY <1>3, <1>4, <2>3
  <2>4. ASSUME n.gone = Removed, Len(n.page) # n.total
        PROVE  n.due \subseteq ToSet(n.got) \cup ToSet(n.page)
    BY <1>3, <1>4, <2>4
  <2>5. QED BY <2>1, <2>2, <2>3, <2>4 DEF ListOK
<1>6. n.at \in Listings /\ n.got \in Seq(Jobs)
  BY <1>3, <1>4 DEF Listings
<1>7. Talks(n)
  BY <1>4, <1>5, <1>6, ListsJobs
<1>8. QED BY <1>2, <1>4, <1>7 DEF GoesOn

-----------------------------------------------------------------------------
(* The theorems                                                              *)

LEMMA ApiInitial == ApiInit => ApiInv
<1> SUFFICES ASSUME ApiInit PROVE ApiInv
  OBVIOUS
<1>1. WholeInv
  <2>1. raced \subseteq Jobs
    BY DEF ApiInit, Init
  <2>2. QED BY <2>1, InvInit, TimesInit, CountedInit DEF ApiInit, WholeInv
<1>2. /\ jobs = [j \in Jobs |-> "none"] /\ client = [c \in Clients |-> Waits]
      /\ stored = <<>> /\ expired = {} /\ DOMAIN <<>> = {}
  BY DEF ApiInit, Init
<1>3. JobsInv
  <2>1. ToSet(stored) = {} /\ IsInjective(stored)
    BY <1>2 DEF ToSet, IsInjective
  <2>2. {j \in Jobs : jobs[j] # "none"} = {} /\ IsFiniteSet({})
    BY <1>2, FS_EmptySet
  <2>3. "none" \notin Statuses
    BY HttpApiAssumption
  <2>4. QED BY <1>2, <2>1, <2>2, <2>3 DEF JobsInv
<1>4. client \in [Clients -> Conversations]
  BY <1>2, AtFirst
<1>5. \A c \in Clients : \E r \in Conversations : r = client[c] /\ Talks(r)
  BY <1>2, AtFirst
<1>6. QED BY <1>1, <1>3, <1>4, <1>5 DEF ApiInv

LEMMA ApiStep == ApiInv /\ [ApiNext]_apiVars => ApiInv'
<1> SUFFICES ASSUME ApiInv, [ApiNext]_apiVars PROVE ApiInv'
  OBVIOUS
<1>1. WholeInv /\ JobsInv /\ WholeInv' /\ JobsInv' /\ Later
  BY StorageStep, WholeStep, JobsStep DEF ApiInv
<1>2. ASSUME NEW c \in Clients, GoesOn(c) PROVE ApiInv'
  <2>1. PICK n \in Conversations : Talks(n) /\ client' = [client EXCEPT ![c] = n]
    BY <1>2 DEF GoesOn
  <2>2. Talks(n)'
    BY <1>1, <2>1, RecordKept
  <2>3. QED BY <2>1, <2>2, Update
<1>3. ASSUME NEW c \in Clients, Request(c) PROVE ApiInv'
  <2>1. CASE \/ Reject(c) \/ NoDocument(c) \/ \E k \in Keys : Hit(c, k) \/ Miss(c, k)
    BY <1>2, <2>1, SubmitSteps
  <2>2. CASE \E j \in Jobs : Accept(c, j)
    BY <2>2, AcceptStep
  <2>3. CASE \/ Poll(c) \/ NotFound(c) \/ Reproduce(c)
             \/ \E source \in GetSourceMetadata : Reproduced(c, source)
    BY <1>2, <2>3, PollSteps
  <2>4. CASE Report(c) \/ Again(c) \/ \E f \in Filters : Stats(c, f)
    BY <1>2, <2>4, ReportStep, AgainStep, StatsStep
  <2>5. CASE \E S \in SUBSET Statuses : List(c, S)
    BY <1>2, <2>5, ListStep
  <2>6. CASE \E limit \in PageSizes : Results(c, limit) \/ ListJobs(c, limit)
    BY <1>2, <2>6, ResultsStep, ListJobsStep
  <2>7. CASE \E limit \in PageSizes : ListJobsDetailed(c, limit) \/ Enriched(c, limit)
    BY <1>2, <2>7, DetailsStep, EnrichedStep
  <2>8. QED BY <1>3, <2>1, <2>2, <2>3, <2>4, <2>5, <2>6, <2>7 DEF Request
<1>4. ASSUME UNCHANGED client PROVE ApiInv'
  <2>1. client' \in [Clients -> Conversations]
    BY <1>4 DEF ApiInv
  <2>2. ASSUME NEW c \in Clients PROVE \E r \in Conversations : r = client'[c] /\ Talks(r)'
    <3>1. PICK r \in Conversations : r = client[c] /\ Talks(r)
      BY DEF ApiInv
    <3>2. Talks(r)'
      BY <1>1, <3>1, RecordKept
    <3>3. QED BY <1>4, <3>1, <3>2
  <2>3. QED BY <1>1, <2>1, <2>2 DEF ApiInv
<1>5. ASSUME NEW j \in Jobs, Elsewhere(j) \/ JobEnds(j) PROVE UNCHANGED client
  BY <1>5 DEF Elsewhere, JobEnds
<1>6. ASSUME NEW v \in Invalidations, DeleteCache(v) PROVE UNCHANGED client
  BY <1>6 DEF DeleteCache
<1>7. UNCHANGED apiVars => UNCHANGED client
  BY DEF apiVars
<1>8. QED BY <1>3, <1>4, <1>5, <1>6, <1>7 DEF ApiNext

LEMMA ApiInvariance == ApiSpec => []ApiInv
BY ApiInitial, ApiStep, PTL DEF ApiSpec

\* What a client was told of its job is so, however its requests interleave with
\* those of others, with the jobs that end and with what is deleted.
THEOREM ToldCorrect == ApiSpec => []ToldIsSo
<1>1. ApiInv => ToldIsSo
  BY ToldHolds
<1>2. QED BY <1>1, ApiInvariance, PTL

\* A client that has paged through issues has each that passes its filter, once and
\* in order, and as many as the statistics it read first had counted.
THEOREM PagesCorrect == ApiSpec => []PagesMatchStats
<1>1. ApiInv => PagesMatchStats
  BY PagesHold
<1>2. QED BY <1>1, ApiInvariance, PTL

\* A report agrees with the statistics that were read before it.
THEOREM ReportCorrect == ApiSpec => []ReportMatchesStats
<1>1. ApiInv => ReportMatchesStats
  BY ReportsHold
<1>2. QED BY <1>1, ApiInvariance, PTL

\* The statistics of the orchestrator and of the storage agree at any time.
THEOREM StatsCorrect == ApiSpec => []StatsAgree
<1>1. ApiInv => StatsAgree
  BY StatsHold
<1>2. QED BY <1>1, ApiInvariance, PTL

\* A listing page by page misses no job of those that matched when it began, unless
\* some were removed.
THEOREM ListCorrect == ApiSpec => []ListMissesNothing
<1>1. ApiInv => ListMissesNothing
  BY ListsHold
<1>2. QED BY <1>1, ApiInvariance, PTL
=============================================================================
