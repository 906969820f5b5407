------------------------- MODULE ReportServerProofs -------------------------
(***************************************************************************)
(* Theorems about ReportServer, for any number of jobs, documents, readers   *)
(* and cleanups, any page size and any options.                             *)
(***************************************************************************)
EXTENDS ReportServer, TLAPS, FiniteSetTheorems

Docs == Range(DocOf)

\* The types, those of the readers and cleanups included.
TypeInv ==
    /\ phase \in {"up", "closing", "closed", "down"}
    /\ now \in 0..MaxNow
    /\ jobs \subseteq Jobs
    /\ lints \in [Docs -> Nat] /\ gone \in [Docs -> Nat] /\ cut \in [Readers -> Nat]
    /\ pc \in [Readers -> {"idle", "counted", "paging", "done", "viewing", "viewed", "waiting"}]
    /\ want \in [Readers -> Statuses \cup {None}]
    /\ offset \in [Readers -> Nat] /\ total \in [Readers -> Nat]
    /\ seen \in [Readers -> SUBSET Jobs] /\ there \in [Readers -> SUBSET Jobs]
    /\ clean \in [Cleaners -> {"idle", "listed", "asking", "done"}]
    /\ option \in [Cleaners -> Options] /\ cutoff \in [Cleaners -> Int]
    /\ listed \in [Cleaners -> SUBSET Jobs]
    /\ \A r \in Readers : pc[r] = "viewing" => \E j \in Jobs : there[r] = {j}

BusyOK == \A r \in Readers : (busy = r) <=> pc[r] \in {"counted", "viewing"}

\* The jobs a cleanup has listed are as its options ask.
CleanOK(c) ==
    clean[c] \in {"listed", "asking"} =>
        \A j \in listed[c] : /\ option[c].status \in {None, StatusOf[j]}
                             /\ option[c].days # 0 => At[j] < cutoff[c]

\* A document counts the jobs it has and those it had.
LintsOK == \A d \in Docs : lints[d] = Cardinality(OfDoc(d) \cap jobs) + gone[d]

\* A job being viewed is there, and was shown with all its results, unless a cleanup
\* came in between.
ViewOK(r) ==
    /\ pc[r] = "viewing" /\ cut[r] = 0 => there[r] \subseteq jobs
    /\ pc[r] = "viewed" => \A j \in there[r] : total[r] = Results[j] \/ (cut[r] > 0 /\ total[r] = 0)

\* What a reader began with and will not find: deleted, or behind it.
Missing(r) ==
    {j \in there[r] \ seen[r] :
        j \notin Matching(want[r]) \/ Newer(Matching(want[r]), j) < offset[r]}

\* A reader on its way has what it began with on the pages it got, or ahead of it, but
\* for as many jobs as were deleted.
WalkOK(r) ==
    /\ pc[r] = "counted" => Cardinality(Matching(want[r])) <= total[r]
    /\ pc[r] \in {"counted", "paging"} =>
          /\ \A j \in there[r] : want[r] \in {None, StatusOf[j]}
          /\ Cardinality(Missing(r)) <= cut[r]
    /\ pc[r] = "done" => Cardinality(there[r] \ seen[r]) <= cut[r]

\* A reader begins at the first page.
StartOK == phase = "up" => \A r \in Readers : pc[r] \in {"idle", "waiting"} => offset[r] = 0

IInv ==
    /\ TypeInv /\ StartOK /\ BusyOK /\ ResultsFollowJobs /\ LintsOK
    /\ \A c \in Cleaners : CleanOK(c)
    /\ \A r \in Readers : ViewOK(r) /\ WalkOK(r)

-----------------------------------------------------------------------------
(* Counting                                                                  *)

\* Any set of jobs is finite and has a natural number of members.
LEMMA JobsCount ==
  ASSUME NEW J, J \subseteq Jobs PROVE IsFiniteSet(J) /\ Cardinality(J) \in Nat
BY ReportServerAssumption, FS_Subset, FS_CardinalityType

\* The jobs before one are fewer than all, and no fewer among more jobs.
LEMMA NewerBounds ==
  ASSUME NEW J, J \subseteq Jobs, NEW j \in J
  PROVE  /\ Newer(J, j) \in Nat /\ Newer(J, j) < Cardinality(J)
         /\ \A K : J \subseteq K /\ K \subseteq Jobs => Newer(J, j) <= Newer(K, j)
<1> DEFINE Before(K) == {i \in K : At[i] > At[j]}
<1>1. At[j] \in Nat
  BY ReportServerAssumption
<1>2. j \notin Before(J) /\ Before(J) \subseteq J
  BY <1>1
<1>3. IsFiniteSet(J) /\ Cardinality(J) \in Nat /\ Cardinality(Before(J)) \in Nat
  BY JobsCount
<1>4. Cardinality(Before(J)) <= Cardinality(J) /\ Cardinality(Before(J)) # Cardinality(J)
  BY <1>2, <1>3, FS_Subset
<1>5. ASSUME NEW K, J \subseteq K, K \subseteq Jobs
      PROVE  Cardinality(Before(J)) <= Cardinality(Before(K))
  <2>1. Before(J) \subseteq Before(K) /\ IsFiniteSet(Before(K))
    BY <1>5, JobsCount
  <2>2. QED BY <2>1, FS_Subset
<1>6. QED BY <1>3, <1>4, <1>5 DEF Newer

\* Jobs have places of their own in the order.
LEMMA NewerDistinct ==
  ASSUME NEW J, J \subseteq Jobs, NEW i \in J, NEW j \in J, i # j
  PROVE  Newer(J, i) # Newer(J, j)
<1>1. ASSUME NEW k \in J, NEW l \in J, At[k] > At[l] PROVE Newer(J, k) < Newer(J, l)
  <2> DEFINE K == {m \in J : At[m] > At[k]}
             L == {m \in J : At[m] > At[l]}
  <2>1. \A m \in J : At[m] \in Nat
    BY ReportServerAssumption
  <2>2. K \subseteq L /\ k \in L /\ k \notin K
    BY <1>1, <2>1
  <2>3. IsFiniteSet(L) /\ Cardinality(L) \in Nat /\ Cardinality(K) \in Nat
    BY JobsCount
  <2>4. Cardinality(K) <= Cardinality(L) /\ Cardinality(K) # Cardinality(L)
    BY <2>2, <2>3, FS_Subset
  <2>5. Cardinality(K) < Cardinality(L)
    <3> HIDE DEF K, L
    <3>1. QED BY <2>3, <2>4
  <2>6. QED BY <2>5 DEF Newer
<1>2. At[i] \in Nat /\ At[j] \in Nat /\ At[i] # At[j]
  BY ReportServerAssumption
<1>3. Newer(J, i) \in Nat /\ Newer(J, j) \in Nat
  BY NewerBounds
<1>4. CASE At[i] > At[j]
  BY <1>1, <1>3, <1>4
<1>5. CASE At[j] > At[i]
  BY <1>1, <1>3, <1>5
<1>6. QED BY <1>2, <1>4, <1>5

\* So no more jobs than places have a place between two others.
LEMMA PlacesCount ==
  ASSUME NEW J, J \subseteq Jobs, NEW a \in Nat, NEW b \in Nat, a <= b,
         NEW K, K \subseteq J, \A j \in K : a <= Newer(J, j) /\ Newer(J, j) < b
  PROVE  Cardinality(K) <= b - a
<1> DEFINE f == [j \in K |-> Newer(J, j)]
           T == a..(b - 1)
<1>1. ASSUME NEW j \in K PROVE Newer(J, j) \in T
  <2>1. Newer(J, j) \in Nat /\ a <= Newer(J, j) /\ Newer(J, j) < b
    BY NewerBounds
  <2>2. QED BY <2>1
<1>2. f \in [K -> T]
  BY <1>1
<1>3. \A i, j \in K : f[i] = f[j] => i = j
  BY NewerDistinct
<1>4. f \in Injection(K, T)
  <2> HIDE DEF f, T
  <2>1. QED BY <1>2, <1>3 DEF Injection, IsInjective
<1>5. b - 1 \in Int /\ a \in Int
  OBVIOUS
<1>6. IsFiniteSet(T) /\ Cardinality(T) = IF a > b - 1 THEN 0 ELSE (b - 1) - a + 1
  BY <1>5, FS_Interval
<1>7. Cardinality(K) <= Cardinality(T)
  <2> HIDE DEF f, T
  <2>1. QED BY <1>4, <1>6, FS_Injection
<1>8. Cardinality(K) \in Nat
  BY JobsCount
<1>9. Cardinality(T) = b - a
  <2> HIDE DEF T
  <2>1. QED BY <1>6
<1>10. QED BY <1>7, <1>8, <1>9

\* The jobs at the first n places.
First(J, n) == {j \in J : Newer(J, j) < n}

\* They are n, or all when there are not as many.
LEMMA FirstCount ==
  ASSUME NEW J, J \subseteq Jobs, NEW n \in Nat
  PROVE  /\ Cardinality(First(J, n)) <= n
         /\ n <= Cardinality(First(J, n)) \/ First(J, n) = J
<1>1. \A j \in J : Newer(J, j) \in Nat /\ Newer(J, j) < Cardinality(J)
  BY NewerBounds
<1>2. IsFiniteSet(J) /\ Cardinality(J) \in Nat
  BY JobsCount
<1>3. Cardinality(First(J, n)) <= n - 0
  <2>1. First(J, n) \subseteq J /\ \A j \in First(J, n) : 0 <= Newer(J, j) /\ Newer(J, j) < n
    BY <1>1 DEF First
  <2> HIDE DEF First
  <2>2. QED BY <2>1, PlacesCount
<1>4. CASE Cardinality(J) <= n
  <2>1. First(J, n) = J
    BY <1>1, <1>2, <1>4 DEF First
  <2>2. QED BY <1>3, <2>1
<1>5. CASE n <= Cardinality(J)
  <2> DEFINE R == J \ First(J, n)
  <2>1. R \subseteq J /\ \A j \in R : n <= Newer(J, j) /\ Newer(J, j) < Cardinality(J)
    BY <1>1 DEF First
  <2>2. Cardinality(R) <= Cardinality(J) - n
    <3> HIDE DEF R
    <3>1. QED BY <1>2, <1>5, <2>1, PlacesCount
  <2>3. Cardinality(R) = Cardinality(J) - Cardinality(J \cap First(J, n))
    BY <1>2, FS_Difference
  <2>4. J \cap First(J, n) = First(J, n)
    BY DEF First
  <2>5. Cardinality(R) \in Nat /\ Cardinality(First(J, n)) \in Nat
    BY JobsCount DEF First
  <2>6. Cardinality(R) = Cardinality(J) - Cardinality(First(J, n))
    BY <2>3, <2>4
  <2>7. n <= Cardinality(First(J, n))
    <3> HIDE DEF R
    <3>1. QED BY <1>2, <2>2, <2>5, <2>6
  <2>8. QED BY <1>3, <2>7
<1>6. QED BY <1>2, <1>4, <1>5

\* A deletion of k jobs takes no more than k of those from the n-th place on: those it
\* deletes, and those that move up as others before them go.
LEMMA DeletionShifts ==
  ASSUME NEW J, J \subseteq Jobs, NEW L, NEW n \in Nat
  PROVE  Cardinality({j \in J : ~(Newer(J, j) < n) /\ (j \in L \/ Newer(J \ L, j) < n)})
            <= Cardinality(J \cap L)
<1> DEFINE P == First(J, n)
           Q == First(J \ L, n)
           S == Q \ P
           D == (J \cap L) \ P
<1>1. J \ L \subseteq Jobs /\ P \subseteq J /\ Q \subseteq J \ L
  BY DEF First
<1>2. /\ IsFiniteSet(P) /\ IsFiniteSet(Q) /\ IsFiniteSet(S) /\ IsFiniteSet(D) /\ IsFiniteSet(J \cap L)
      /\ Cardinality(P) \in Nat /\ Cardinality(Q) \in Nat /\ Cardinality(S) \in Nat
      /\ Cardinality(D) \in Nat /\ Cardinality(J \cap L) \in Nat
      /\ Cardinality(P \cap L) \in Nat /\ Cardinality(P \ L) \in Nat
  BY <1>1, JobsCount
<1>3. P \ L \subseteq Q
  <2> SUFFICES ASSUME NEW j \in P, j \notin L PROVE j \in Q
    OBVIOUS
  <2>1. j \in J \ L /\ Newer(J, j) < n
    BY DEF First
  <2>2. /\ Newer(J \ L, j) \in Nat /\ Newer(J, j) \in Nat
        /\ Newer(J \ L, j) <= Newer(J, j)
    BY <1>1, <2>1, NewerBounds
  <2>3. Newer(J \ L, j) < n
    BY <2>1, <2>2
  <2>4. QED BY <2>1, <2>3 DEF First
<1>4. Cardinality(S) <= Cardinality(P \cap L)
  <2>1. CASE P = J
    <3>1. S = {}
      BY <1>1, <2>1
    <3>2. Cardinality(S) = 0
      BY <3>1, FS_EmptySet
    <3> HIDE DEF P, Q, S
    <3>3. QED BY <1>2, <3>2
  <2>2. CASE n <= Cardinality(P)
    <3>1. Cardinality(Q) <= n
      BY <1>1, FirstCount
    <3>2. Q \cap P = P \ L
      BY <1>1, <1>3
    <3>3. Cardinality(S) = Cardinality(Q) - Cardinality(P \ L)
      <4> HIDE DEF P, Q
      <4>1. QED BY <1>2, <3>2, FS_Difference
    <3>4. Cardinality(P \ L) = Cardinality(P) - Cardinality(P \cap L)
      <4> HIDE DEF P, Q
      <4>1. QED BY <1>2, FS_Difference
    <3> HIDE DEF P, Q, S
    <3>5. QED BY <1>2, <2>2, <3>1, <3>3, <3>4
  <2>3. QED BY <2>1, <2>2, FirstCount
<1>5. {j \in J : ~(Newer(J, j) < n) /\ (j \in L \/ Newer(J \ L, j) < n)} \subseteq S \cup D
  BY DEF First
<1>6. Cardinality(D) = Cardinality(J \cap L) - Cardinality(P \cap L)
  <2>1. (J \cap L) \cap P = P \cap L
    BY <1>1
  <2>2. Cardinality(D) = Cardinality(J \cap L) - Cardinality((J \cap L) \cap P)
    <3> HIDE DEF P
    <3>1. QED BY <1>2, FS_Difference
  <2>3. QED BY <2>1, <2>2
<1>7. Cardinality(S \cup D) <= Cardinality(S) + Cardinality(D)
  <2>1. S \cap D \subseteq Jobs
    BY <1>1
  <2>2. Cardinality(S \cap D) \in Nat
    BY <2>1, JobsCount
  <2> HIDE DEF S, D
  <2>3. Cardinality(S \cup D) = Cardinality(S) + Cardinality(D) - Cardinality(S \cap D)
    BY <1>2, FS_Union
  <2>4. QED BY <1>2, <2>2, <2>3
<1> DEFINE N == {j \in J : ~(Newer(J, j) < n) /\ (j \in L \/ Newer(J \ L, j) < n)}
<1>8. IsFiniteSet(S \cup D) /\ Cardinality(S \cup D) \in Nat /\ Cardinality(N) \in Nat
  <2>1. S \cup D \subseteq Jobs /\ N \subseteq Jobs
    BY <1>1
  <2>2. QED BY <2>1, JobsCount
<1>9. Cardinality(N) <= Cardinality(S \cup D)
  BY <1>5, <1>8, FS_Subset
<1> HIDE DEF N, S, D
<1>10. Cardinality(N) <= Cardinality(J \cap L)
  <2> HIDE DEF P
  <2>1. QED BY <1>2, <1>4, <1>6, <1>7, <1>8, <1>9
<1>11. QED BY <1>10 DEF N

\* The rows of one job are its results, or none when it is not there.
LEMMA RowsCount ==
  ASSUME ResultsFollowJobs, NEW j \in Jobs
  PROVE  /\ Cardinality(RowsOf({j})) \in Nat
         /\ j \in jobs => Cardinality(RowsOf({j})) = Results[j]
         /\ j \notin jobs => Cardinality(RowsOf({j})) = 0
<1>1. Results[j] \in Nat
  BY ReportServerAssumption
<1>2. IsFiniteSet(1..Results[j]) /\ Cardinality(1..Results[j]) = Results[j]
  BY <1>1, FS_Interval
<1>3. IsFiniteSet({j}) /\ Cardinality({j}) = 1
  BY FS_Singleton
<1> DEFINE P == {j} \X (1..Results[j])
<1>4. Cardinality(P) = 1 * Results[j]
  BY <1>2, <1>3, FS_Product
<1>5. CASE j \in jobs
  <2>1. RowsOf({j}) = P
    BY <1>5 DEF RowsOf, ResultsFollowJobs
  <2> HIDE DEF P
  <2>2. Cardinality(RowsOf({j})) = Results[j]
    BY <1>1, <1>4, <2>1
  <2>3. QED BY <1>1, <1>5, <2>2
<1>6. CASE j \notin jobs
  <2>1. RowsOf({j}) = {}
    BY <1>6 DEF RowsOf, ResultsFollowJobs
  <2>2. QED BY <1>6, <2>1, FS_EmptySet
<1>7. QED BY <1>5, <1>6

-----------------------------------------------------------------------------
(* The parts of the invariant                                                *)

\* The initial states satisfy the invariant.
LEMMA InvInit == Init => IInv
<1> SUFFICES ASSUME Init PROVE IInv
  OBVIOUS
<1> USE ReportServerAssumption
<1>1. TypeInv /\ BusyOK /\ StartOK
  BY DEF Init, TypeInv, BusyOK, StartOK, Docs
<1>3. ResultsFollowJobs
  BY DEF Init, ResultsFollowJobs
<1>4. LintsOK
  BY FS_EmptySet DEF Init, LintsOK, OfDoc, Docs
<1>5. \A c \in Cleaners : CleanOK(c)
  BY DEF Init, CleanOK
<1>6. \A r \in Readers : ViewOK(r) /\ WalkOK(r)
  BY DEF Init, ViewOK, WalkOK
<1>7. QED BY <1>1, <1>3, <1>4, <1>5, <1>6 DEF IInv

\* The steps of the pages.
Browse(r) == Open(r) \/ Turn(r) \/ Page(r)

\* The steps that show a job, or the health of the server.
Look(r) == Health(r) \/ HealthAnswers(r) \/ ViewRows(r) \/ \E j \in Jobs : View(r, j)

\* The steps of a cleanup that delete nothing.
Consider(c) == List(c) \/ Stop(c) \/ Ask(c)

\* Every step is one of these.
LEMMA Steps ==
  ASSUME Next
  PROVE  \/ \E j \in Jobs : Post(j)
         \/ \E r \in Readers : Browse(r) \/ Look(r)
         \/ \E c \in Cleaners : Consider(c) \/ Delete(c)
         \/ Signal \/ Close \/ Exit \/ Tick
BY DEF Next, Read, Browse, Look, Consider

\* A set of jobs that match a status are jobs.
LEMMA MatchingJobs ==
  ASSUME TypeInv, NEW status
  PROVE  /\ Matching(status) \subseteq jobs /\ Matching(status) \subseteq Jobs
         /\ Cardinality(Matching(status)) \in Nat
BY JobsCount DEF TypeInv, Matching

\* Steps keep the types.
LEMMA TypeStep == ASSUME TypeInv, ResultsFollowJobs, [Next]_vars PROVE TypeInv'
<1> USE ReportServerAssumption
<1>1. CASE \E j \in Jobs : Post(j)
  <2>1. PICK j \in Jobs : Post(j)
    BY <1>1
  <2>2. DocOf[j] \in Docs
    BY DEF Docs
  <2>3. jobs' \subseteq Jobs /\ lints' \in [Docs -> Nat]
    BY <2>1, <2>2 DEF Post, Store, TypeInv
  <2>4. QED BY <2>1, <2>3 DEF Post, TypeInv, readVars, cleanVars
<1>2. ASSUME NEW r \in Readers, Browse(r) PROVE TypeInv'
  <2>1. CASE Open(r)
    <3>1. PICK status \in {None} \cup Range(StatusOf) :
            /\ want' = [want EXCEPT ![r] = status]
            /\ there' = [there EXCEPT ![r] = Matching(status)]
            /\ total' = [total EXCEPT ![r] = Cardinality(Matching(status))]
      BY <2>1 DEF Open
    <3>2. status \in Statuses \cup {None}
      BY DEF Range
    <3>3. QED
      BY <2>1, <3>1, <3>2, MatchingJobs DEF Open, TypeInv, tables, cleanVars
  <2>2. CASE Turn(r)
    BY <2>2, MatchingJobs DEF Turn, TypeInv, tables, cleanVars
  <2>3. CASE Page(r)
    <3>1. Window(Matching(want[r]), offset[r]) \subseteq Jobs
      BY MatchingJobs DEF Window
    <3>2. seen' \in [Readers -> SUBSET Jobs]
      BY <2>3, <3>1 DEF Page, TypeInv
    <3>3. offset[r] + Limit \in Nat
      BY DEF TypeInv
    <3>4. /\ offset' \in [Readers -> Nat]
          /\ pc' = [pc EXCEPT ![r] = "paging"] \/ pc' = [pc EXCEPT ![r] = "done"]
      BY <2>3, <3>3 DEF Page, TypeInv
    <3>5. QED BY <2>3, <3>2, <3>4 DEF Page, TypeInv, tables, cleanVars
  <2>4. QED BY <1>2, <2>1, <2>2, <2>3 DEF Browse
<1>3. ASSUME NEW r \in Readers, Look(r) PROVE TypeInv'
  <2>1. CASE Health(r) \/ HealthAnswers(r)
    BY <2>1 DEF Health, HealthAnswers, Timestamped, TypeInv, tables, cleanVars
  <2>2. CASE ViewRows(r)
    <3>1. Cardinality(RowsOf(there[r])) \in Nat
      BY <2>2, RowsCount DEF ViewRows, TypeInv
    <3>2. QED BY <2>2, <3>1 DEF ViewRows, TypeInv, tables, cleanVars
  <2>3. CASE \E j \in Jobs : View(r, j)
    <3>1. PICK j \in Jobs : View(r, j)
      BY <2>3
    <3>2. pc' = [pc EXCEPT ![r] = "viewing"] /\ there' = [there EXCEPT ![r] = {j}]
      BY <3>1 DEF View
    <3>3. \A x \in Readers : pc'[x] = "viewing" => \E i \in Jobs : there'[x] = {i}
      BY <3>2 DEF TypeInv
    <3>4. QED BY <3>1, <3>2, <3>3 DEF View, TypeInv, tables, cleanVars
  <2>4. QED BY <1>3, <2>1, <2>2, <2>3 DEF Look
<1>4. ASSUME NEW c \in Cleaners, Consider(c) PROVE TypeInv'
  <2>1. CASE List(c)
    <3>1. option[c].days \in Nat /\ now \in Int
      BY DEF TypeInv
    <3>2. cutoff' \in [Cleaners -> Int]
      BY <2>1, <3>1 DEF List, TypeInv
    <3>3. listed' \in [Cleaners -> SUBSET Jobs]
      BY <2>1, MatchingJobs DEF List, TypeInv
    <3>4. QED BY <2>1, <3>2, <3>3 DEF List, TypeInv, tables, readVars
  <2>2. CASE Stop(c) \/ Ask(c)
    BY <2>2 DEF Stop, Ask, TypeInv, tables, readVars
  <2>3. QED BY <1>4, <2>1, <2>2 DEF Consider
<1>5. ASSUME NEW c \in Cleaners, Delete(c) PROVE TypeInv'
  <2>1. \A d \in Docs : Cardinality(OfDoc(d) \cap jobs \cap listed[c]) \in Nat
    BY JobsCount DEF OfDoc
  <2>2. gone' = [d \in Docs |-> gone[d] + Cardinality(OfDoc(d) \cap jobs \cap listed[c])]
    BY <1>5 DEF Delete, Docs
  <2>3. gone' \in [Docs -> Nat]
    <3>1. \A d \in Docs : gone[d] + Cardinality(OfDoc(d) \cap jobs \cap listed[c]) \in Nat
      <4> TAKE d \in Docs
      <4>1. gone[d] \in Nat
        BY DEF TypeInv
      <4>2. Cardinality(OfDoc(d) \cap jobs \cap listed[c]) \in Nat
        BY <2>1
      <4>3. QED BY <4>1, <4>2
    <3>2. QED BY <2>2, <3>1
  <2>4. cut' \in [Readers -> Nat]
    <3>1. cut' = [r \in Readers |-> cut[r] + Cardinality(Watched(r) \cap listed[c])]
      BY <1>5 DEF Delete
    <3>2. \A r \in Readers : cut[r] + Cardinality(Watched(r) \cap listed[c]) \in Nat
      <4> TAKE r \in Readers
      <4>1. cut[r] \in Nat
        BY DEF TypeInv
      <4>2. Cardinality(Watched(r) \cap listed[c]) \in Nat
        BY JobsCount DEF TypeInv, Watched
      <4>3. QED BY <4>1, <4>2
    <3>3. QED BY <3>1, <3>2
  <2>5. QED BY <1>5, <2>3, <2>4 DEF Delete, DeleteJobs, TypeInv, readVars
<1>6. CASE Signal \/ Close \/ Exit \/ Tick \/ UNCHANGED vars
  BY <1>6 DEF Signal, Close, Exit, Tick, TypeInv, tables, readVars, cleanVars, vars
<1>7. QED BY <1>1, <1>2, <1>3, <1>4, <1>5, <1>6, Steps

\* Between two statements of a handler no other handler of the process runs.
LEMMA BusyStep == ASSUME TypeInv, BusyOK, [Next]_vars PROVE BusyOK'
<1>1. CASE \E j \in Jobs : Post(j)
  BY <1>1 DEF Post, BusyOK, readVars
<1>2. ASSUME NEW r \in Readers, Browse(r) \/ Look(r) PROVE BusyOK'
  <2> USE ReportServerAssumption
  <2>1. CASE Open(r) \/ Turn(r) \/ \E j \in Jobs : View(r, j)
    BY <2>1 DEF Open, Turn, View, Serving, BusyOK, TypeInv
  <2>2. CASE Page(r) \/ ViewRows(r)
    BY <2>2 DEF Page, ViewRows, BusyOK, TypeInv
  <2>3. CASE Health(r) \/ HealthAnswers(r)
    BY <2>3 DEF Health, HealthAnswers, Serving, BusyOK, TypeInv
  <2>4. QED BY <1>2, <2>1, <2>2, <2>3 DEF Browse, Look
<1>3. ASSUME NEW c \in Cleaners, Consider(c) \/ Delete(c) PROVE BusyOK'
  BY <1>3 DEF Consider, List, Stop, Ask, Delete, BusyOK, readVars
<1>4. CASE Signal \/ Close \/ Tick \/ UNCHANGED vars
  BY <1>4 DEF Signal, Close, Tick, BusyOK, readVars, vars
<1>5. CASE Exit
  BY <1>5, ReportServerAssumption DEF Exit, BusyOK
<1>6. QED BY <1>1, <1>2, <1>3, <1>4, <1>5, Steps

\* Only a store and a deletion change the tables, each of them both.
LEMMA RowsStep == ASSUME TypeInv, ResultsFollowJobs, [Next]_vars PROVE ResultsFollowJobs'
<1>1. ASSUME NEW j \in Jobs, Post(j) PROVE ResultsFollowJobs'
  BY <1>1 DEF Post, Store, ResultsFollowJobs
<1>2. ASSUME NEW c \in Cleaners, Delete(c) PROVE ResultsFollowJobs'
  <2>1. jobs' = jobs \ listed[c] /\ rows' = {row \in rows : row[1] \notin listed[c]}
    BY <1>2 DEF Delete, DeleteJobs, RowsOf
  <2>2. QED BY <2>1 DEF ResultsFollowJobs
<1>3. ASSUME UNCHANGED <<jobs, rows>> PROVE ResultsFollowJobs'
  BY <1>3 DEF ResultsFollowJobs
<1>4. QED
  BY <1>1, <1>2, <1>3, Steps
     DEF Browse, Look, Consider, Open, Turn, Page, Health, HealthAnswers, View, ViewRows, List, Stop,
         Ask, Signal, Close, Exit, Tick, tables, vars

\* A document counts one more with each job stored; what is deleted moves from the
\* jobs that are there to those that are gone.
LEMMA LintsStep == ASSUME TypeInv, LintsOK, [Next]_vars PROVE LintsOK'
<1>1. ASSUME NEW j \in Jobs, Post(j), NEW d \in Docs
      PROVE  lints'[d] = Cardinality(OfDoc(d) \cap jobs') + gone'[d]
  <2> DEFINE J == OfDoc(d) \cap jobs
  <2>1. IsFiniteSet(J) /\ Cardinality(J) \in Nat /\ lints[d] \in Nat /\ gone[d] \in Nat
    BY JobsCount DEF TypeInv
  <2>2. lints[d] = Cardinality(J) + gone[d] /\ gone' = gone /\ jobs' = jobs \cup {j} /\ j \notin J
    BY <1>1 DEF LintsOK, Post, Store
  <2>3. lints' = [lints EXCEPT ![DocOf[j]] = @ + 1]
    BY <1>1 DEF Post, Store
  <2>4. CASE DocOf[j] = d
    <3>1. OfDoc(d) \cap jobs' = J \cup {j}
      BY <2>2, <2>4 DEF OfDoc
    <3>2. Cardinality(J \cup {j}) = Cardinality(J) + 1
      BY <2>1, <2>2, FS_AddElement
    <3>3. lints'[d] = lints[d] + 1
      BY <2>3, <2>4 DEF TypeInv
    <3>4. Cardinality(OfDoc(d) \cap jobs') = Cardinality(J) + 1 /\ gone'[d] = gone[d]
      BY <2>2, <3>1, <3>2
    <3>5. lints[d] = Cardinality(J) + gone[d]
      BY <2>2
    <3> HIDE DEF J
    <3>6. QED BY <2>1, <3>3, <3>4, <3>5
  <2>5. CASE DocOf[j] # d
    <3>1. OfDoc(d) \cap jobs' = J
      BY <2>2, <2>5 DEF OfDoc
    <3>2. lints'[d] = lints[d]
      BY <2>3, <2>5 DEF TypeInv
    <3> HIDE DEF J
    <3>3. QED BY <2>1, <2>2, <3>1, <3>2
  <2>6. QED BY <2>4, <2>5
<1>2. ASSUME NEW c \in Cleaners, Delete(c), NEW d \in Docs
      PROVE  lints'[d] = Cardinality(OfDoc(d) \cap jobs') + gone'[d]
  <2> DEFINE J == OfDoc(d) \cap jobs
             K == OfDoc(d) \cap jobs'
             D == OfDoc(d) \cap jobs \cap listed[c]
  <2>1. /\ IsFiniteSet(J) /\ Cardinality(J) \in Nat
        /\ IsFiniteSet(K) /\ Cardinality(K) \in Nat
        /\ IsFiniteSet(D) /\ Cardinality(D) \in Nat
        /\ gone[d] \in Nat
    BY <1>2, JobsCount DEF TypeInv, OfDoc
  <2>2. /\ lints' = lints /\ lints[d] = Cardinality(J) + gone[d]
        /\ jobs' = jobs \ listed[c] /\ gone'[d] = gone[d] + Cardinality(D)
    BY <1>2 DEF LintsOK, Delete, DeleteJobs, Docs
  <2>3. J = K \cup D /\ K \cap D = {}
    BY <2>2
  <2>4. Cardinality(J) = Cardinality(K) + Cardinality(D)
    <3> HIDE DEF J, K, D
    <3>1. Cardinality(K \cup D) = Cardinality(K) + Cardinality(D) - Cardinality(K \cap D)
      BY <2>1, FS_Union
    <3>2. Cardinality(K \cap D) = 0
      BY <2>3, FS_EmptySet
    <3>3. QED BY <2>1, <2>3, <3>1, <3>2
  <2>5. QED BY <2>1, <2>2, <2>4
<1>3. ASSUME UNCHANGED <<jobs, lints, gone>> PROVE LintsOK'
  BY <1>3 DEF LintsOK
<1>4. (\E j \in Jobs : Post(j)) => LintsOK'
  BY <1>1 DEF LintsOK
<1>5. (\E c \in Cleaners : Delete(c)) => LintsOK'
  BY <1>2 DEF LintsOK
<1>6. QED
  BY <1>3, <1>4, <1>5, Steps
     DEF Browse, Look, Consider, Open, Turn, Page, Health, HealthAnswers, View, ViewRows, List, Stop,
         Ask, Signal, Close, Exit, Tick, tables, vars

\* While the server is up only a reader that has turned a page is past the first.
LEMMA StartStep == ASSUME TypeInv, StartOK, [Next]_vars PROVE StartOK'
<1>1. CASE \E j \in Jobs : Post(j)
  BY <1>1 DEF Post, StartOK, readVars
<1>2. ASSUME NEW r \in Readers, Browse(r) \/ Look(r) PROVE StartOK'
  <2>1. CASE Open(r) \/ Turn(r) \/ ViewRows(r) \/ \E j \in Jobs : View(r, j)
    BY <2>1 DEF Open, Turn, View, ViewRows, StartOK, TypeInv
  <2>2. CASE Page(r)
    <3>1. /\ pc' = [pc EXCEPT ![r] = "paging"] \/ pc' = [pc EXCEPT ![r] = "done"]
          /\ \A x \in Readers \ {r} : offset'[x] = offset[x]
          /\ phase' = phase
      BY <2>2 DEF Page, TypeInv
    <3>2. QED BY <3>1 DEF StartOK, TypeInv
  <2>3. CASE Health(r) \/ HealthAnswers(r)
    BY <2>3 DEF Health, HealthAnswers, StartOK, TypeInv
  <2>4. QED BY <1>2, <2>1, <2>2, <2>3 DEF Browse, Look
<1>3. ASSUME NEW c \in Cleaners, Consider(c) \/ Delete(c) PROVE StartOK'
  BY <1>3 DEF Consider, List, Stop, Ask, Delete, StartOK, readVars
<1>4. CASE Signal \/ Close \/ Exit \/ Tick \/ UNCHANGED vars
  BY <1>4 DEF Signal, Close, Exit, Tick, StartOK, readVars, vars
<1>5. QED BY <1>1, <1>2, <1>3, <1>4, Steps

\* What a cleanup has listed, and its cutoff, stay until it is over; a job that is
\* older as the texts compare is older.
LEMMA CleanStep ==
  ASSUME TypeInv, \A x \in Cleaners : CleanOK(x), [Next]_vars, NEW c \in Cleaners
  PROVE  CleanOK(c)'
<1> USE ReportServerAssumption
<1>1. ASSUME NEW x \in Cleaners, List(x) PROVE CleanOK(c)'
  <2>1. CASE x = c
    <3> DEFINE time == now - 2 * option[c].days
    <3>1. /\ option' = option /\ cutoff'[c] = time
          /\ listed'[c] = {j \in Matching(option[c].status) : option[c].days # 0 => Older(j, time)}
      BY <1>1, <2>1 DEF List, TypeInv
    <3>2. time \in Int
      BY DEF TypeInv
    <3>3. ASSUME NEW j \in Jobs, Older(j, time) PROVE At[j] < time
      <4>1. At[j] \in Int
        OBVIOUS
      <4> HIDE DEF time
      <4>2. QED BY <3>2, <3>3, <4>1 DEF Older
    <3>4. \A j \in Matching(option[c].status) :
              j \in Jobs /\ option[c].status \in {None, StatusOf[j]}
      BY DEF Matching, TypeInv
    <3> HIDE DEF time
    <3>5. QED BY <3>1, <3>3, <3>4 DEF CleanOK
  <2>2. CASE x # c
    BY <1>1, <2>2 DEF List, CleanOK, TypeInv
  <2>3. QED BY <2>1, <2>2
<1>2. ASSUME NEW x \in Cleaners, Stop(x) \/ Ask(x) \/ Delete(x) PROVE CleanOK(c)'
  BY <1>2 DEF Stop, Ask, Delete, CleanOK, TypeInv
<1>3. ASSUME UNCHANGED cleanVars PROVE CleanOK(c)'
  BY <1>3 DEF CleanOK, cleanVars
<1>4. QED
  BY <1>1, <1>2, <1>3, Steps
     DEF Browse, Look, Consider, Open, Turn, Page, Health, HealthAnswers, View, ViewRows, Post, Signal,
         Close, Exit, Tick, vars

\* A job that is being viewed goes only with a deletion, which is counted.
LEMMA ViewStep ==
  ASSUME TypeInv, ResultsFollowJobs, \A x \in Readers : ViewOK(x), [Next]_vars, NEW r \in Readers
  PROVE  ViewOK(r)'
<1>1. ASSUME NEW j \in Jobs, Post(j) PROVE ViewOK(r)'
  BY <1>1 DEF Post, Store, ViewOK, readVars
<1>2. ASSUME NEW x \in Readers, Browse(x) \/ Look(x) PROVE ViewOK(r)'
  <2>1. jobs' = jobs /\ cut' = cut
    BY <1>2 DEF Browse, Look, Open, Turn, Page, Health, HealthAnswers, View, ViewRows, tables
  <2>2. CASE Browse(x) \/ Health(x) \/ HealthAnswers(x)
    <3>1. /\ x # r => pc'[r] = pc[r] /\ there'[r] = there[r] /\ total'[r] = total[r]
          /\ x = r => pc'[r] \notin {"viewing", "viewed"}
      BY <2>2 DEF Browse, Open, Turn, Page, Health, HealthAnswers, TypeInv
    <3>2. QED BY <2>1, <3>1 DEF ViewOK
  <2>3. CASE \E j \in Jobs : View(x, j)
    BY <2>1, <2>3 DEF View, ViewOK, TypeInv
  <2>4. CASE ViewRows(x)
    <3>1. CASE x # r
      BY <2>1, <2>4, <3>1 DEF ViewRows, ViewOK, TypeInv
    <3>2. CASE x = r
      <4>1. PICK j \in Jobs : there[r] = {j}
        BY <2>4, <3>2 DEF ViewRows, TypeInv
      <4>2. \/ Cardinality(RowsOf({j})) = Results[j]
            \/ cut[r] > 0 /\ Cardinality(RowsOf({j})) = 0
        <5>1. cut[r] = 0 => j \in jobs
          BY <2>4, <3>2, <4>1 DEF ViewRows, ViewOK
        <5>2. cut[r] \in Nat
          BY DEF TypeInv
        <5>3. CASE j \in jobs
          BY <5>3, RowsCount
        <5>4. CASE j \notin jobs
          BY <5>1, <5>2, <5>4, RowsCount
        <5>5. QED BY <5>3, <5>4
      <4>3. pc'[r] = "viewed" /\ total'[r] = Cardinality(RowsOf({j})) /\ there'[r] = {j}
        BY <2>4, <3>2, <4>1 DEF ViewRows, TypeInv
      <4>4. QED BY <2>1, <4>2, <4>3 DEF ViewOK
    <3>3. QED BY <3>1, <3>2
  <2>5. QED BY <1>2, <2>2, <2>3, <2>4 DEF Look
<1>3. ASSUME NEW c \in Cleaners, Delete(c) PROVE ViewOK(r)'
  <2> DEFINE D == Watched(r) \cap listed[c]
  <2>1. /\ cut[r] \in Nat /\ IsFiniteSet(D) /\ Cardinality(D) \in Nat
    BY JobsCount DEF TypeInv, Watched
  <2>2. /\ cut'[r] = cut[r] + Cardinality(D) /\ jobs' = jobs \ listed[c]
        /\ pc' = pc /\ there' = there /\ total' = total
    BY <1>3 DEF Delete, DeleteJobs, readVars
  <2>3. ASSUME pc[r] = "viewing", cut'[r] = 0 PROVE there[r] \subseteq jobs'
    <3>1. cut[r] = 0 /\ Cardinality(D) = 0
      <4> HIDE DEF D
      <4>1. QED BY <2>1, <2>2, <2>3
    <3>2. D = {}
      <4> HIDE DEF D
      <4>1. QED BY <2>1, <3>1, FS_EmptySet
    <3>3. there[r] \subseteq jobs
      BY <2>3, <3>1 DEF ViewOK
    <3>4. QED BY <2>2, <2>3, <3>2, <3>3 DEF Watched
  <2>4. cut[r] > 0 => cut'[r] > 0
    <3> HIDE DEF D
    <3>1. QED BY <2>1, <2>2
  <2>5. QED BY <2>2, <2>3, <2>4 DEF ViewOK
<1>4. CASE Exit
  BY <1>4 DEF Exit, ViewOK
<1>5. ASSUME UNCHANGED <<jobs, readVars, cut>> PROVE ViewOK(r)'
  BY <1>5 DEF ViewOK, readVars
<1>6. QED
  BY <1>1, <1>2, <1>3, <1>4, <1>5, Steps
     DEF Consider, List, Stop, Ask, Signal, Close, Tick, tables, vars

\* A set of jobs within another is no larger.
LEMMA FewerJobs ==
  ASSUME NEW J, NEW K, J \subseteq K, K \subseteq Jobs
  PROVE  /\ Cardinality(J) <= Cardinality(K)
         /\ Cardinality(J) \in Nat /\ Cardinality(K) \in Nat
BY JobsCount, FS_Subset

\* What a reader misses are jobs.
LEMMA MissingJobs ==
  ASSUME TypeInv, NEW r \in Readers
  PROVE  /\ Missing(r) \subseteq there[r] /\ Missing(r) \subseteq Jobs
         /\ Cardinality(Missing(r)) \in Nat
BY JobsCount DEF TypeInv, Missing

\* What a reader began with is behind it or ahead: a job stored moves the others
\* ahead, a page leaves none behind that it does not show, and a deletion takes away or
\* moves behind as many as it deletes.
LEMMA WalkStep ==
  ASSUME TypeInv, BusyOK, StartOK, \A x \in Readers : WalkOK(x), [Next]_vars, NEW r \in Readers
  PROVE  WalkOK(r)'
<1> USE ReportServerAssumption
<1> DEFINE M == Matching(want[r])
<1>0. /\ offset[r] \in Nat /\ total[r] \in Nat /\ cut[r] \in Nat
      /\ M \subseteq Jobs /\ Cardinality(M) \in Nat /\ there[r] \subseteq Jobs /\ seen[r] \subseteq Jobs
      /\ IsFiniteSet(M)
  BY MatchingJobs, JobsCount DEF TypeInv
<1>1. ASSUME NEW j \in Jobs, Post(j) PROVE WalkOK(r)'
  <2>1. /\ pc' = pc /\ there' = there /\ seen' = seen /\ offset' = offset /\ want' = want
        /\ cut' = cut /\ jobs' = jobs \cup {j} /\ pc[r] # "counted"
    BY <1>1 DEF Post, Store, Serving, BusyOK, readVars
  <2>2. M \subseteq M' /\ M' \subseteq Jobs
    BY <2>1 DEF Matching, TypeInv
  <2>3. Missing(r)' \subseteq Missing(r)
    <3> SUFFICES ASSUME NEW i \in there[r] \ seen[r], i \in M, ~(Newer(M, i) < offset[r])
                 PROVE  i \in M' /\ ~(Newer(M', i) < offset[r])
      BY <2>1 DEF Missing, Newer
    <3>1. /\ Newer(M, i) \in Nat /\ Newer(M', i) \in Nat /\ Newer(M, i) <= Newer(M', i)
      BY <2>2, NewerBounds
    <3> HIDE DEF M
    <3>2. QED BY <1>0, <2>2, <3>1
  <2>4. Cardinality(Missing(r)') <= Cardinality(Missing(r))
    BY <2>3, MissingJobs, FewerJobs
  <2>5. Cardinality(Missing(r)') \in Nat /\ Cardinality(Missing(r)) \in Nat
    BY <2>3, MissingJobs, FewerJobs
  <2>6. ASSUME pc[r] = "paging"
        PROVE  /\ \A i \in there[r] : want[r] \in {None, StatusOf[i]}
               /\ Cardinality(Missing(r)') <= cut[r]
    <3>1. /\ \A i \in there[r] : want[r] \in {None, StatusOf[i]}
          /\ Cardinality(Missing(r)) <= cut[r]
      BY <2>6 DEF WalkOK
    <3>2. QED BY <1>0, <2>4, <2>5, <3>1
  <2>7. pc[r] = "done" => Cardinality(there[r] \ seen[r]) <= cut[r]
    BY DEF WalkOK
  <2>8. QED BY <2>1, <2>6, <2>7 DEF WalkOK
<1>2. ASSUME NEW x \in Readers, Open(x) \/ Turn(x) PROVE WalkOK(r)'
  <2>1. jobs' = jobs /\ cut' = cut /\ offset' = offset /\ seen' = seen
    BY <1>2 DEF Open, Turn, tables
  <2>2. CASE x # r
    <3>1. /\ pc'[r] = pc[r] /\ there'[r] = there[r] /\ total'[r] = total[r] /\ want'[r] = want[r]
      BY <1>2, <2>2 DEF Open, Turn, TypeInv
    <3>2. Missing(r)' = Missing(r) /\ M' = M
      BY <2>1, <3>1 DEF Missing, Matching, Newer
    <3>3. QED BY <2>1, <3>1, <3>2 DEF WalkOK
  <2>3. CASE x = r /\ Open(r)
    <3>1. /\ pc'[r] = "counted" /\ there'[r] = Matching(want'[r])
          /\ total'[r] = Cardinality(Matching(want'[r])) /\ offset[r] = 0
      BY <2>3 DEF Open, TypeInv, StartOK, Serving
    <3>2. M' = Matching(want'[r])
      BY <2>1 DEF Matching
    <3>3. M' \subseteq Jobs /\ Cardinality(M') \in Nat
      BY <3>2, MatchingJobs
    <3>4. \A j \in M' : Newer(M', j) \in Nat
      BY <3>3, NewerBounds
    <3>5. Missing(r)' = {}
      BY <2>1, <3>1, <3>2, <3>4 DEF Missing, Newer
    <3>6. Cardinality(Missing(r)') = 0
      BY <3>5, FS_EmptySet
    <3>7. \A j \in there'[r] : want'[r] \in {None, StatusOf[j]}
      BY <3>1 DEF Matching
    <3>8. cut'[r] = cut[r] /\ total'[r] = Cardinality(M')
      BY <2>1, <3>1, <3>2
    <3> HIDE DEF M
    <3>9. Cardinality(Missing(r)') <= cut'[r]
      BY <1>0, <3>6, <3>8
    <3>10. Cardinality(Matching(want[r])') <= total'[r]
      BY <3>3, <3>8 DEF M
    <3>11. QED BY <3>1, <3>7, <3>9, <3>10 DEF WalkOK
  <2>4. CASE x = r /\ Turn(r)
    <3>1. /\ pc[r] = "paging" /\ pc'[r] = "counted" /\ total'[r] = Cardinality(M)
          /\ want' = want /\ there' = there
      BY <2>4 DEF Turn, TypeInv
    <3>2. Missing(r)' = Missing(r) /\ M' = M
      BY <2>1, <3>1 DEF Missing, Matching, Newer
    <3>3. /\ \A j \in there[r] : want[r] \in {None, StatusOf[j]}
          /\ Cardinality(Missing(r)) <= cut[r]
      BY <3>1 DEF WalkOK
    <3>4. total'[r] = Cardinality(M') /\ Cardinality(M') \in Nat
      BY <1>0, <3>1, <3>2
    <3>5. Cardinality(M') <= total'[r] /\ Cardinality(Missing(r)') <= cut'[r]
      <4> HIDE DEF M
      <4>1. QED BY <2>1, <3>2, <3>3, <3>4
    <3>6. QED BY <3>1, <3>3, <3>5 DEF WalkOK
  <2>5. QED BY <1>2, <2>2, <2>3, <2>4
<1>3. ASSUME NEW x \in Readers, Page(x) PROVE WalkOK(r)'
  <2>1. jobs' = jobs /\ cut' = cut /\ want' = want /\ there' = there /\ total' = total
    BY <1>3 DEF Page, tables
  <2>2. CASE x # r
    <3>1. pc'[r] = pc[r] /\ seen'[r] = seen[r] /\ offset'[r] = offset[r]
      BY <1>3, <2>2 DEF Page, TypeInv
    <3>2. Missing(r)' = Missing(r) /\ M' = M
      BY <2>1, <3>1 DEF Missing, Matching, Newer
    <3>3. QED BY <2>1, <3>1, <3>2 DEF WalkOK
  <2>3. CASE x = r
    <3>1. pc[r] = "counted" /\ seen'[r] = seen[r] \cup Window(M, offset[r])
      BY <1>3, <2>3 DEF Page, TypeInv
    <3>2. /\ \A i \in there[r] : want[r] \in {None, StatusOf[i]}
          /\ Cardinality(Missing(r)) <= cut[r] /\ Cardinality(M) <= total[r]
      BY <3>1 DEF WalkOK
    <3>3. ASSUME NEW j \in there[r], j \notin seen'[r], j \notin Missing(r)
          PROVE  j \in M /\ offset[r] + Limit <= Newer(M, j) /\ HasNext(r)
      <4>1. j \in M /\ ~(Newer(M, j) < offset[r])
        BY <3>1, <3>3 DEF Missing
      <4>2. Newer(M, j) \in Nat /\ Newer(M, j) < Cardinality(M)
        BY <1>0, <4>1, NewerBounds
      <4>3. ~(offset[r] <= Newer(M, j) /\ Newer(M, j) < offset[r] + Limit)
        BY <3>1, <3>3, <4>1 DEF Window
      <4> HIDE DEF M
      <4>4. offset[r] + Limit <= Newer(M, j)
        BY <1>0, <4>1, <4>2, <4>3
      <4>5. offset[r] + Limit < total[r]
        BY <1>0, <3>2, <4>2, <4>4
      <4>6. QED BY <4>1, <4>4, <4>5 DEF HasNext
    <3>4. M' = M /\ \A j : Newer(M, j)' = Newer(M, j)
      BY <2>1 DEF Matching, Newer
    <3>5. Cardinality(Missing(r)) \in Nat /\ Missing(r) \subseteq Jobs
      BY MissingJobs
    <3>6. CASE HasNext(r)
      <4>1. pc'[r] = "paging" /\ offset'[r] = offset[r] + Limit
        BY <1>3, <2>3, <3>6 DEF Page, TypeInv
      <4>2. Missing(r)' \subseteq Missing(r)
        <5> SUFFICES ASSUME NEW j \in there[r], j \notin seen'[r], j \notin Missing(r)
                     PROVE  j \in M /\ ~(Newer(M, j) < offset[r] + Limit)
          BY <2>1, <3>4, <4>1 DEF Missing
        <5>1. j \in M /\ offset[r] + Limit <= Newer(M, j)
          BY <3>3
        <5>2. Newer(M, j) \in Nat
          BY <1>0, <5>1, NewerBounds
        <5> HIDE DEF M
        <5>3. QED BY <1>0, <5>1, <5>2
      <4>3. Cardinality(Missing(r)') <= Cardinality(Missing(r)) /\ Cardinality(Missing(r)') \in Nat
        BY <3>5, <4>2, FewerJobs
      <4>4. Cardinality(Missing(r)') <= cut'[r]
        BY <1>0, <2>1, <3>2, <3>5, <4>3
      <4>5. QED BY <2>1, <3>2, <4>1, <4>4 DEF WalkOK
    <3>7. CASE ~HasNext(r)
      <4>1. pc'[r] = "done"
        BY <1>3, <2>3, <3>7 DEF Page, TypeInv
      <4>2. there[r] \ seen'[r] \subseteq Missing(r)
        BY <3>3, <3>7
      <4>3. /\ Cardinality(there[r] \ seen'[r]) <= Cardinality(Missing(r))
            /\ Cardinality(there[r] \ seen'[r]) \in Nat
        BY <3>5, <4>2, FewerJobs
      <4>4. Cardinality(there'[r] \ seen'[r]) <= cut'[r]
        BY <1>0, <2>1, <3>2, <3>5, <4>3
      <4>5. QED BY <4>1, <4>4 DEF WalkOK
    <3>8. QED BY <3>6, <3>7
  <2>4. QED BY <2>2, <2>3
<1>4. ASSUME NEW x \in Readers, Look(x) PROVE WalkOK(r)'
  <2>1. jobs' = jobs /\ cut' = cut /\ want' = want /\ seen' = seen /\ offset' = offset
    BY <1>4 DEF Look, Health, HealthAnswers, View, ViewRows, tables
  <2>2. CASE x # r
    <3>1. pc'[r] = pc[r] /\ there'[r] = there[r] /\ total'[r] = total[r]
      BY <1>4, <2>2 DEF Look, Health, HealthAnswers, View, ViewRows, TypeInv
    <3>2. Missing(r)' = Missing(r) /\ M' = M
      BY <2>1, <3>1 DEF Missing, Matching, Newer
    <3>3. QED BY <2>1, <3>1, <3>2 DEF WalkOK
  <2>3. CASE x = r
    <3>1. pc'[r] \in {"idle", "viewing", "viewed", "waiting"}
      BY <1>4, <2>3 DEF Look, Health, HealthAnswers, View, ViewRows, TypeInv
    <3>2. QED BY <3>1 DEF WalkOK
  <2>4. QED BY <2>2, <2>3
<1>5. ASSUME NEW c \in Cleaners, Delete(c) PROVE WalkOK(r)'
  <2> DEFINE L == listed[c]
             W == Watched(r) \cap L
             S == {j \in M : ~(Newer(M, j) < offset[r]) /\ (j \in L \/ Newer(M \ L, j) < offset[r])}
  <2>1. /\ pc' = pc /\ there' = there /\ seen' = seen /\ offset' = offset /\ want' = want
        /\ total' = total /\ jobs' = jobs \ L /\ cut'[r] = cut[r] + Cardinality(W)
    BY <1>5 DEF Delete, DeleteJobs, readVars
  <2>2. M' = M \ L /\ \A j : Newer(M, j)' = Newer(M \ L, j)
    BY <2>1 DEF Matching, Newer
  <2>3. W \subseteq Jobs /\ Cardinality(W) \in Nat
    <3>1. W \subseteq Jobs
      BY DEF Watched, TypeInv
    <3>2. QED BY <3>1, JobsCount
  <2>4. Cardinality(M') <= Cardinality(M) /\ Cardinality(M') \in Nat
    BY <1>0, <2>2, FewerJobs
  <2>5. CASE pc[r] \in {"counted", "paging"}
    <3>1. W = M \cap L
      BY <2>5 DEF Watched, Matching
    <3>2. Missing(r)' \subseteq Missing(r) \cup S
      BY <2>1, <2>2 DEF Missing
    <3>3. Cardinality(S) <= Cardinality(W)
      BY <1>0, <3>1, DeletionShifts
    <3>4. S \subseteq Jobs /\ Missing(r) \subseteq Jobs
      BY <1>0, MissingJobs
    <3>5. /\ Cardinality(Missing(r)') <= Cardinality(Missing(r) \cup S)
          /\ Cardinality(Missing(r)') \in Nat /\ Cardinality(Missing(r) \cup S) \in Nat
      BY <3>2, <3>4, FewerJobs
    <3>6. /\ IsFiniteSet(Missing(r)) /\ IsFiniteSet(S) /\ Cardinality(Missing(r)) \in Nat
          /\ Cardinality(S) \in Nat /\ Cardinality(Missing(r) \cap S) \in Nat
      BY <3>4, JobsCount
    <3>7. Cardinality(Missing(r) \cup S)
             = Cardinality(Missing(r)) + Cardinality(S) - Cardinality(Missing(r) \cap S)
      BY <3>6, FS_Union
    <3>8. /\ \A i \in there[r] : want[r] \in {None, StatusOf[i]}
          /\ Cardinality(Missing(r)) <= cut[r]
          /\ pc[r] = "counted" => Cardinality(M) <= total[r]
      BY <2>5 DEF WalkOK
    <3>9. Cardinality(Missing(r)') <= cut'[r]
      <4> HIDE DEF S, W, M, L
      <4>1. QED BY <1>0, <2>1, <2>3, <3>3, <3>5, <3>6, <3>7, <3>8
    <3>10. pc[r] = "counted" => Cardinality(M') <= total[r]
      BY <1>0, <2>4, <3>8
    <3>11. QED BY <2>1, <2>5, <3>8, <3>9, <3>10 DEF WalkOK
  <2>6. CASE pc[r] \notin {"counted", "paging"}
    <3>1. pc[r] = "done" => Cardinality(there[r] \ seen[r]) <= cut[r]
      BY DEF WalkOK
    <3>2. Cardinality(there[r] \ seen[r]) \in Nat
      BY <1>0, JobsCount
    <3>3. pc[r] = "done" => Cardinality(there[r] \ seen[r]) <= cut'[r]
      <4> HIDE DEF W
      <4>1. QED BY <1>0, <2>1, <2>3, <3>1, <3>2
    <3>4. QED BY <2>1, <2>6, <3>3 DEF WalkOK
  <2>7. QED BY <2>5, <2>6
<1>6. CASE Exit
  BY <1>6 DEF Exit, WalkOK
<1>7. ASSUME UNCHANGED <<jobs, readVars, cut>> PROVE WalkOK(r)'
  <2>1. /\ pc' = pc /\ there' = there /\ seen' = seen /\ offset' = offset /\ want' = want
        /\ total' = total /\ cut' = cut /\ jobs' = jobs
    BY <1>7 DEF readVars
  <2>2. Missing(r)' = Missing(r) /\ M' = M
    BY <2>1 DEF Missing, Matching, Newer
  <2>3. QED BY <2>1, <2>2 DEF WalkOK
<1>8. QED
  BY <1>1, <1>2, <1>3, <1>4, <1>5, <1>6, <1>7, Steps
     DEF Browse, Consider, List, Stop, Ask, Signal, Close, Tick, tables, vars

-----------------------------------------------------------------------------
(* Theorems                                                                  *)

\* The invariant holds of every reachable state.
LEMMA Invariance == Spec => []IInv
<1>1. Init => IInv
  BY InvInit
<1>2. IInv /\ [Next]_vars => IInv'
  <2> SUFFICES ASSUME IInv, [Next]_vars PROVE IInv'
    OBVIOUS
  <2>1. TypeInv' /\ StartOK' /\ BusyOK'
    BY TypeStep, StartStep, BusyStep DEF IInv
  <2>2. ResultsFollowJobs' /\ LintsOK'
    BY RowsStep, LintsStep DEF IInv
  <2>3. ASSUME NEW c \in Cleaners PROVE CleanOK(c)'
    BY CleanStep DEF IInv
  <2>4. ASSUME NEW r \in Readers PROVE ViewOK(r)' /\ WalkOK(r)'
    BY ViewStep, WalkStep DEF IInv
  <2>5. QED BY <2>1, <2>2, <2>3, <2>4 DEF IInv
<1>3. QED BY <1>1, <1>2, PTL DEF Spec

\* Each variable holds values of its type, and at most the reader whose handler is
\* between two statements keeps the others out.
THEOREM TypeCorrect == Spec => []TypeOK
<1>1. IInv => TypeOK
  BY DEF IInv, TypeInv, BusyOK, TypeOK, Docs
<1>2. QED BY <1>1, Invariance, PTL

\* The results in the database are those of the jobs in it, whatever the server
\* stores and the cleanup command deletes.
THEOREM ResultsCorrect == Spec => []ResultsFollowJobs
<1>1. IInv => ResultsFollowJobs
  BY DEF IInv
<1>2. QED BY <1>1, Invariance, PTL

\* A document's total_lints counts each stored job once, however often it was sent.
THEOREM LintsCorrect == Spec => []LintsAreCounted
<1>1. IInv => LintsAreCounted
  <2> SUFFICES ASSUME IInv, NEW d \in Docs
               PROVE  /\ Cardinality(OfDoc(d) \cap jobs) <= lints[d]
                      /\ lints[d] <= Cardinality(OfDoc(d) \cap jobs) + gone[d]
    BY DEF LintsAreCounted, Docs
  <2>1. Cardinality(OfDoc(d) \cap jobs) \in Nat /\ gone[d] \in Nat
    BY JobsCount DEF IInv, TypeInv, OfDoc
  <2>2. lints[d] = Cardinality(OfDoc(d) \cap jobs) + gone[d]
    BY DEF IInv, LintsOK
  <2>3. QED BY <2>1, <2>2
<1>2. QED BY <1>1, Invariance, PTL

\* The page of a job shows all its results, or none when a cleanup came in between.
THEOREM ViewCorrect == Spec => []ViewIsWhole
<1>1. IInv => ViewIsWhole
  BY DEF IInv, ViewOK, ViewIsWhole
<1>2. QED BY <1>1, Invariance, PTL

\* Following the pages to the end shows every job that was there at the start, but for
\* as many as cleanups deleted meanwhile.
THEOREM WalkCorrect == Spec => []MissesAreBounded
<1>1. IInv => MissesAreBounded
  BY DEF IInv, WalkOK, MissesAreBounded
<1>2. QED BY <1>1, Invariance, PTL

\* A cleanup deletes what its options asked for when it listed the jobs, however
\* long it then waited for an answer.
THEOREM DeletionsCorrect == Spec => OnlyOldAreDeleted
<1> DEFINE Deleted ==
      \A j \in jobs \ jobs' : \E c \in Cleaners :
            /\ clean[c] \in {"listed", "asking"} /\ clean'[c] = "done"
            /\ option[c].status \in {None, StatusOf[j]}
            /\ option[c].days # 0 => At[j] < cutoff[c]
<1>1. ASSUME IInv, [Next]_vars PROVE [Deleted]_vars
  <2>1. ASSUME NEW c \in Cleaners, Delete(c) PROVE Deleted
    <3>1. clean[c] \in {"listed", "asking"} /\ clean'[c] = "done" /\ jobs \ jobs' \subseteq listed[c]
      BY <1>1, <2>1 DEF Delete, DeleteJobs, IInv, TypeInv
    <3>2. CleanOK(c)
      BY <1>1 DEF IInv
    <3>3. QED BY <3>1, <3>2 DEF CleanOK
  <2>2. ASSUME jobs \subseteq jobs' PROVE Deleted
    BY <2>2
  <2> HIDE DEF Deleted
  <2>3. QED
    BY <1>1, <2>1, <2>2, Steps
       DEF Browse, Look, Consider, Open, Turn, Page, Health, HealthAnswers, View, ViewRows, List, Stop,
           Ask, Post, Store, Signal, Close, Exit, Tick, tables, vars
<1>2. QED BY <1>1, Invariance, PTL DEF Spec, OnlyOldAreDeleted

\* The tables agree with each other and with what was notified, whatever the cleanup,
\* in a process of its own, deletes between two statements of the server.
THEOREM TablesCorrect == Spec => []TablesAreConsistent
<1>1. TypeOK /\ ResultsFollowJobs /\ LintsAreCounted => TablesAreConsistent
  BY DEF TablesAreConsistent
<1>2. QED
  BY <1>1, TypeCorrect, ResultsCorrect, LintsCorrect, PTL

\* A reader sees a job whole, and every job when the pages are followed to the end,
\* but for what deletions in between take from either.
THEOREM ReadersCorrect == Spec => []ReadersSeeAll
<1>1. ViewIsWhole /\ MissesAreBounded => ReadersSeeAll
  BY DEF ReadersSeeAll
<1>2. QED
  BY <1>1, ViewCorrect, WalkCorrect, PTL
=============================================================================
