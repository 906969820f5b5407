------------------------ MODULE ReportDeliveryProofs ------------------------
(***************************************************************************)
(* The safety of ReportDelivery for any number of notifications, retry      *)
(* runs, retries and ends of the process.                                   *)
(***************************************************************************)
EXTENDS ReportDelivery, FiniteSetTheorems, TLAPS

\* A notify call backs off only while it has attempts left.
TypeInv ==
    /\ TypeOK
    /\ \A n \in Notes : pc[n] = "backoff" => attempt[n] <= MaxRetries

\* An answer is waited for by who asked, and says what the server has done.
AnswersAreTrue ==
    \A x \in Workers :
        /\ pc[x] # "sending" => sent[x] = "none"
        /\ sent[x] = "ok" => Subject(x) \in stored
        /\ sent[x] = "fatal" => Subject(x) \in Rejected \cup Oversized

\* Where a worker is about to write, or writes, a dead letter.
Condemning == {"move", "bury", "burying", "storeDead", "storingDead"}

\* Who condemns a notification as rejected has the answer that says so.
CondemnsForAReason ==
    \A x \in Workers :
        pc[x] \in Condemning /\ Reason(x) = "rejected" => Subject(x) \in Rejected \cup Oversized

Buried(n) == dead[n] \in {"rejected", "exhausted"}

BuriedBy(x, n) == pc[x] = "burying" /\ Subject(x) = n

\* Before it removes a file, a worker has seen the notification delivered or
\* set aside - which another may be repeating.
UnlinksWhatIsSafe ==
    \A x \in Workers :
        pc[x] = "unlink" =>
            \/ Subject(x) \in stored
            \/ Buried(Subject(x))
            \/ \E y \in Workers : BuriedBy(y, Subject(x))

\* Where a first delivery has written no complete file yet.
Early == {"new", "sending", "backoff", "store", "storeDead", "storing", "storingDead"}

\* A run neither has the notification in hand nor will have it.
Unseen(r, n) ==
    /\ \A item \in todo[r] : item[1] # n
    /\ on[r] = n => pc[r] \in {"idle", "listing", "next"}

\* No run knows of a notification before its first delivery has given up, so
\* store() truncates nothing that is already safe.
EarlyIsUnseen ==
    \A n \in Notes :
        pc[n] \in Early =>
            /\ file[n] \in {Absent, Torn}
            /\ dead[n] = "none"
            /\ \A r \in Runs : Unseen(r, n)

IInv ==
    /\ TypeInv
    /\ LintsAreJobs
    /\ AnswersAreTrue
    /\ CondemnsForAReason
    /\ DeadForAReason
    /\ UnlinksWhatIsSafe
    /\ EarlyIsUnseen


\* The initial states satisfy the invariant.
LEMMA InitIInv == Init => IInv
<1> USE DeliveryAssumption
<1> SUFFICES ASSUME Init PROVE IInv
  OBVIOUS
<1>1. TypeInv
  BY DEF Init, TypeInv, TypeOK, Places, Idle, Writing, Workers, Absent, Torn
<1>2. LintsAreJobs
  BY FS_EmptySet DEF Init, LintsAreJobs
<1>3. AnswersAreTrue /\ CondemnsForAReason /\ UnlinksWhatIsSafe
  BY DEF Init, AnswersAreTrue, CondemnsForAReason, Condemning, UnlinksWhatIsSafe, Workers
<1>4. DeadForAReason /\ EarlyIsUnseen
  BY DEF Init, DeadForAReason, EarlyIsUnseen, Unseen, Workers
<1> QED
  BY <1>1, <1>2, <1>3, <1>4 DEF IInv

-----------------------------------------------------------------------------

\* The count and the table change together.
LEMMA StoresCounts ==
    ASSUME IInv, NEW n \in Notes, Stores(n) PROVE LintsAreJobs'
<1>1. IsFiniteSet(stored)
  BY DeliveryAssumption, FS_Subset DEF IInv, TypeInv, TypeOK
<1> QED
  BY <1>1, FS_AddElement DEF IInv, LintsAreJobs, Stores, TypeInv, TypeOK

\* A worker's notification is one of them.
LEMMA SubjectIsNote ==
    ASSUME TypeOK, NEW x \in Workers PROVE Subject(x) \in Notes
  BY DEF TypeOK, Subject, Workers

\* What is given up is the notification of a worker.
LEMMA AbandonsNotes ==
    ASSUME TypeOK, NEW xs \in SUBSET Workers, Abandon(xs) PROVE late' \subseteq Notes
  BY SubjectIsNote DEF Abandon, TypeOK

\* The number of ends of the process is within its bound.
LEMMA ExitCounts ==
    ASSUME TypeOK, Exit PROVE exits' \in 0..MaxExits /\ up' \in BOOLEAN
<1>1. exits \in 0..MaxExits
  BY DEF TypeOK
<1>2. exits < MaxExits /\ exits' = exits + 1
  BY DEF Exit
<1>3. exits' \in 0..MaxExits
  BY <1>1, <1>2, DeliveryAssumption
<1>4. up' \in BOOLEAN
  BY Zenon DEF Exit
<1> QED
  BY <1>3, <1>4

\* Every step keeps the types.
LEMMA TypeStep ==
    ASSUME IInv, [Next]_vars PROVE TypeInv'
<1> USE DeliveryAssumption DEF IInv, TypeInv, TypeOK, Places, Idle, Writing, Workers,
        Absent, Torn, workerVars, serverVars
<1>1. ASSUME NEW n \in Notes, Notify(n) PROVE TypeInv'
  BY <1>1 DEF Notify, Step, Post
<1>2. ASSUME NEW n \in Notes, NotifySucceeds(n) PROVE TypeInv'
  BY <1>2 DEF NotifySucceeds, Step, Answered
<1>3. ASSUME NEW n \in Notes, NotifyRefused(n) PROVE TypeInv'
  BY <1>3 DEF NotifyRefused, Step, Answered
<1>4. ASSUME NEW n \in Notes, NotifyFails(n) PROVE TypeInv'
  <2>1. late' \subseteq Notes
    BY <1>4, AbandonsNotes DEF NotifyFails, Fail
  <2> QED
    BY <1>4, <2>1 DEF NotifyFails, Step, Fail
<1>5. ASSUME NEW n \in Notes, NotifyAgain(n) PROVE TypeInv'
  BY <1>5 DEF NotifyAgain, Step, Post
<1>6. ASSUME NEW n \in Notes, StoreBegin(n) PROVE TypeInv'
  BY <1>6 DEF StoreBegin, Step
<1>7. ASSUME NEW n \in Notes, StoreEnd(n) PROVE TypeInv'
  BY <1>7 DEF StoreEnd, Step
<1>8. ASSUME NEW n \in Notes, LateArrival(n) PROVE TypeInv'
  BY <1>8 DEF LateArrival, Stores
<1>9. ASSUME NEW x \in Workers, MoveRead(x) PROVE TypeInv'
  BY <1>9 DEF MoveRead, Step, Finish
<1>10. ASSUME NEW x \in Workers, BuryBegin(x) PROVE TypeInv'
  BY <1>10 DEF BuryBegin, Step
<1>11. ASSUME NEW x \in Workers, BuryEnd(x) PROVE TypeInv'
  BY <1>11 DEF BuryEnd, Step, Reason
<1>12. ASSUME NEW x \in Workers, Unlink(x) PROVE TypeInv'
  BY <1>12 DEF Unlink, Step, Finish
<1>13. ASSUME NEW x \in Workers, ServerStores(x) PROVE TypeInv'
  BY <1>13, SubjectIsNote DEF ServerStores, Stores
<1>14. ASSUME NEW x \in Workers, ServerRefuses(x) PROVE TypeInv'
  BY <1>14 DEF ServerRefuses
<1>15. ASSUME NEW r \in Runs, RunStart(r) PROVE TypeInv'
  BY <1>15 DEF RunStart, Step
<1>16. ASSUME NEW r \in Runs, ListRead(r) PROVE TypeInv'
  BY <1>16 DEF ListRead, Step
<1>17. ASSUME NEW r \in Runs, ListDone(r) PROVE TypeInv'
  BY <1>17 DEF ListDone, Step
<1>18. ASSUME NEW r \in Runs, Pick(r) PROVE TypeInv'
  BY <1>18 DEF Pick, Step
<1>19. ASSUME NEW r \in Runs, RunEnd(r) PROVE TypeInv'
  BY <1>19 DEF RunEnd, Step
<1>20. ASSUME NEW r \in Runs, UpdateRead(r) PROVE TypeInv'
  BY <1>20 DEF UpdateRead, Step
<1>21. ASSUME NEW r \in Runs, UpdateBegin(r) PROVE TypeInv'
  BY <1>21 DEF UpdateBegin, Step
<1>22. ASSUME NEW r \in Runs, UpdateEnd(r) PROVE TypeInv'
  BY <1>22 DEF UpdateEnd, Step, Post
<1>23. ASSUME NEW r \in Runs, RetrySucceeds(r) PROVE TypeInv'
  BY <1>23 DEF RetrySucceeds, Step, Answered
<1>24. ASSUME NEW r \in Runs, RetryRefused(r) PROVE TypeInv'
  BY <1>24 DEF RetryRefused, Step, Answered
<1>25. ASSUME NEW r \in Runs, RetryFails(r) PROVE TypeInv'
  <2>1. late' \subseteq Notes
    BY <1>25, AbandonsNotes DEF RetryFails, Fail
  <2> QED
    BY <1>25, <2>1 DEF RetryFails, Step, Fail
<1>26. CASE Exit
  <2>1. late' \subseteq Notes
    BY <1>26, AbandonsNotes DEF Exit
  <2>2. pc' \in [Workers -> Places] /\ \A n \in Notes : pc'[n] # "backoff"
    BY <1>26 DEF Exit
  <2>3. exits' \in 0..MaxExits /\ up' \in BOOLEAN
    BY <1>26, ExitCounts
  <2>4. sent' \in [Workers -> {"none", "flying", "ok", "fatal"}]
    BY <1>26 DEF Exit
  <2>5. todo' \in [Runs -> SUBSET (Notes \X Nat)] /\ unread' \in [Runs -> SUBSET Notes]
    BY <1>26 DEF Exit
  <2>6. UNCHANGED <<attempt, on, held, reason, stored, totalLints, file, dead>>
    BY <1>26 DEF Exit
  <2> QED
    BY <2>1, <2>2, <2>3, <2>4, <2>5, <2>6
<1>27. CASE Restart
  BY <1>27 DEF Restart
<1>28. CASE UNCHANGED vars
  BY <1>28 DEF vars, workerVars, serverVars
<1> QED
  BY <1>1, <1>2, <1>3, <1>4, <1>5, <1>6, <1>7, <1>8, <1>9, <1>10, <1>11, <1>12, <1>13,
     <1>14, <1>15, <1>16, <1>17, <1>18, <1>19, <1>20, <1>21, <1>22, <1>23, <1>24, <1>25,
     <1>26, <1>27, <1>28
  DEF Next, NotifyStep, MoveStep, ServerStep, RetryStep

\* Every step keeps the count of the document.
LEMMA LintsStep ==
    ASSUME IInv, [Next]_vars PROVE LintsAreJobs'
<1> USE DeliveryAssumption DEF IInv, LintsAreJobs, workerVars, serverVars
<1>1. ASSUME NEW n \in Notes, Notify(n) PROVE LintsAreJobs'
  BY <1>1 DEF Notify, Step, Post
<1>2. ASSUME NEW n \in Notes, NotifySucceeds(n) PROVE LintsAreJobs'
  BY <1>2 DEF NotifySucceeds, Step, Answered
<1>3. ASSUME NEW n \in Notes, NotifyRefused(n) PROVE LintsAreJobs'
  BY <1>3 DEF NotifyRefused, Step, Answered
<1>4. ASSUME NEW n \in Notes, NotifyFails(n) PROVE LintsAreJobs'
  BY <1>4 DEF NotifyFails, Step, Fail, Abandon
<1>5. ASSUME NEW n \in Notes, NotifyAgain(n) PROVE LintsAreJobs'
  BY <1>5 DEF NotifyAgain, Step, Post
<1>6. ASSUME NEW n \in Notes, StoreBegin(n) PROVE LintsAreJobs'
  BY <1>6 DEF StoreBegin, Step
<1>7. ASSUME NEW n \in Notes, StoreEnd(n) PROVE LintsAreJobs'
  BY <1>7 DEF StoreEnd, Step
<1>8. ASSUME NEW n \in Notes, LateArrival(n) PROVE LintsAreJobs'
  BY <1>8, StoresCounts DEF LateArrival, Stores
<1>9. ASSUME NEW x \in Workers, MoveRead(x) PROVE LintsAreJobs'
  BY <1>9 DEF MoveRead, Step, Finish
<1>10. ASSUME NEW x \in Workers, BuryBegin(x) PROVE LintsAreJobs'
  BY <1>10 DEF BuryBegin, Step
<1>11. ASSUME NEW x \in Workers, BuryEnd(x) PROVE LintsAreJobs'
  BY <1>11 DEF BuryEnd, Step
<1>12. ASSUME NEW x \in Workers, Unlink(x) PROVE LintsAreJobs'
  BY <1>12 DEF Unlink, Step, Finish
<1>13. ASSUME NEW x \in Workers, ServerStores(x) PROVE LintsAreJobs'
  BY <1>13, SubjectIsNote, StoresCounts DEF ServerStores, Stores, TypeInv
<1>14. ASSUME NEW x \in Workers, ServerRefuses(x) PROVE LintsAreJobs'
  BY <1>14 DEF ServerRefuses
<1>15. ASSUME NEW r \in Runs, RunStart(r) PROVE LintsAreJobs'
  BY <1>15 DEF RunStart, Step
<1>16. ASSUME NEW r \in Runs, ListRead(r) PROVE LintsAreJobs'
  BY <1>16 DEF ListRead, Step
<1>17. ASSUME NEW r \in Runs, ListDone(r) PROVE LintsAreJobs'
  BY <1>17 DEF ListDone, Step
<1>18. ASSUME NEW r \in Runs, Pick(r) PROVE LintsAreJobs'
  BY <1>18 DEF Pick, Step
<1>19. ASSUME NEW r \in Runs, RunEnd(r) PROVE LintsAreJobs'
  BY <1>19 DEF RunEnd, Step
<1>20. ASSUME NEW r \in Runs, UpdateRead(r) PROVE LintsAreJobs'
  BY <1>20 DEF UpdateRead, Step
<1>21. ASSUME NEW r \in Runs, UpdateBegin(r) PROVE LintsAreJobs'
  BY <1>21 DEF UpdateBegin, Step
<1>22. ASSUME NEW r \in Runs, UpdateEnd(r) PROVE LintsAreJobs'
  BY <1>22 DEF UpdateEnd, Step, Post
<1>23. ASSUME NEW r \in Runs, RetrySucceeds(r) PROVE LintsAreJobs'
  BY <1>23 DEF RetrySucceeds, Step, Answered
<1>24. ASSUME NEW r \in Runs, RetryRefused(r) PROVE LintsAreJobs'
  BY <1>24 DEF RetryRefused, Step, Answered
<1>25. ASSUME NEW r \in Runs, RetryFails(r) PROVE LintsAreJobs'
  BY <1>25 DEF RetryFails, Step, Fail, Abandon
<1>26. CASE Exit
  BY <1>26 DEF Exit, Abandon
<1>27. CASE Restart
  BY <1>27 DEF Restart
<1>28. CASE UNCHANGED vars
  BY <1>28 DEF vars, workerVars, serverVars
<1> QED
  BY <1>1, <1>2, <1>3, <1>4, <1>5, <1>6, <1>7, <1>8, <1>9, <1>10, <1>11, <1>12, <1>13,
     <1>14, <1>15, <1>16, <1>17, <1>18, <1>19, <1>20, <1>21, <1>22, <1>23, <1>24, <1>25,
     <1>26, <1>27, <1>28
  DEF Next, NotifyStep, MoveStep, ServerStep, RetryStep

\* Every step keeps the answers true.
LEMMA AnswersStep ==
    ASSUME IInv, [Next]_vars PROVE AnswersAreTrue'
<1> USE DeliveryAssumption DEF IInv, AnswersAreTrue, Subject, TypeInv, TypeOK, Workers,
        workerVars, serverVars
<1>1. ASSUME NEW n \in Notes, Notify(n) PROVE AnswersAreTrue'
  BY <1>1 DEF Notify, Step, Post
<1>2. ASSUME NEW n \in Notes, NotifySucceeds(n) PROVE AnswersAreTrue'
  BY <1>2 DEF NotifySucceeds, Step, Answered
<1>3. ASSUME NEW n \in Notes, NotifyRefused(n) PROVE AnswersAreTrue'
  BY <1>3 DEF NotifyRefused, Step, Answered
<1>4. ASSUME NEW n \in Notes, NotifyFails(n) PROVE AnswersAreTrue'
  BY <1>4 DEF NotifyFails, Step, Fail, Abandon
<1>5. ASSUME NEW n \in Notes, NotifyAgain(n) PROVE AnswersAreTrue'
  BY <1>5 DEF NotifyAgain, Step, Post
<1>6. ASSUME NEW n \in Notes, StoreBegin(n) PROVE AnswersAreTrue'
  BY <1>6 DEF StoreBegin, Step
<1>7. ASSUME NEW n \in Notes, StoreEnd(n) PROVE AnswersAreTrue'
  BY <1>7 DEF StoreEnd, Step
<1>8. ASSUME NEW n \in Notes, LateArrival(n) PROVE AnswersAreTrue'
  BY <1>8 DEF LateArrival, Stores
<1>9. ASSUME NEW x \in Workers, MoveRead(x) PROVE AnswersAreTrue'
  BY <1>9 DEF MoveRead, Step, Finish
<1>10. ASSUME NEW x \in Workers, BuryBegin(x) PROVE AnswersAreTrue'
  BY <1>10 DEF BuryBegin, Step
<1>11. ASSUME NEW x \in Workers, BuryEnd(x) PROVE AnswersAreTrue'
  BY <1>11 DEF BuryEnd, Step
<1>12. ASSUME NEW x \in Workers, Unlink(x) PROVE AnswersAreTrue'
  BY <1>12 DEF Unlink, Step, Finish
<1>13. ASSUME NEW x \in Workers, ServerStores(x) PROVE AnswersAreTrue'
  BY <1>13 DEF ServerStores, Stores
<1>14. ASSUME NEW x \in Workers, ServerRefuses(x) PROVE AnswersAreTrue'
  BY <1>14 DEF ServerRefuses, Refuses
<1>15. ASSUME NEW r \in Runs, RunStart(r) PROVE AnswersAreTrue'
  BY <1>15 DEF RunStart, Step
<1>16. ASSUME NEW r \in Runs, ListRead(r) PROVE AnswersAreTrue'
  BY <1>16 DEF ListRead, Step
<1>17. ASSUME NEW r \in Runs, ListDone(r) PROVE AnswersAreTrue'
  BY <1>17 DEF ListDone, Step
<1>18. ASSUME NEW r \in Runs, Pick(r) PROVE AnswersAreTrue'
  BY <1>18 DEF Pick, Step
<1>19. ASSUME NEW r \in Runs, RunEnd(r) PROVE AnswersAreTrue'
  BY <1>19 DEF RunEnd, Step
<1>20. ASSUME NEW r \in Runs, UpdateRead(r) PROVE AnswersAreTrue'
  BY <1>20 DEF UpdateRead, Step
<1>21. ASSUME NEW r \in Runs, UpdateBegin(r) PROVE AnswersAreTrue'
  BY <1>21 DEF UpdateBegin, Step
<1>22. ASSUME NEW r \in Runs, UpdateEnd(r) PROVE AnswersAreTrue'
  BY <1>22 DEF UpdateEnd, Step, Post
<1>23. ASSUME NEW r \in Runs, RetrySucceeds(r) PROVE AnswersAreTrue'
  BY <1>23 DEF RetrySucceeds, Step, Answered
<1>24. ASSUME NEW r \in Runs, RetryRefused(r) PROVE AnswersAreTrue'
  BY <1>24 DEF RetryRefused, Step, Answered
<1>25. ASSUME NEW r \in Runs, RetryFails(r) PROVE AnswersAreTrue'
  BY <1>25 DEF RetryFails, Step, Fail, Abandon
<1>26. CASE Exit
  BY <1>26 DEF Exit, Abandon
<1>27. CASE Restart
  BY <1>27 DEF Restart
<1>28. CASE UNCHANGED vars
  BY <1>28 DEF vars, workerVars, serverVars
<1> QED
  BY <1>1, <1>2, <1>3, <1>4, <1>5, <1>6, <1>7, <1>8, <1>9, <1>10, <1>11, <1>12, <1>13,
     <1>14, <1>15, <1>16, <1>17, <1>18, <1>19, <1>20, <1>21, <1>22, <1>23, <1>24, <1>25,
     <1>26, <1>27, <1>28
  DEF Next, NotifyStep, MoveStep, ServerStep, RetryStep

\* Every step keeps the reasons of who condemns.
LEMMA CondemnsStep ==
    ASSUME IInv, [Next]_vars PROVE CondemnsForAReason'
<1> USE DeliveryAssumption DEF IInv, CondemnsForAReason, Condemning, Reason, Subject,
        TypeInv, TypeOK, Workers, workerVars, serverVars
<1>1. ASSUME NEW n \in Notes, Notify(n) PROVE CondemnsForAReason'
  BY <1>1 DEF Notify, Step, Post
<1>2. ASSUME NEW n \in Notes, NotifySucceeds(n) PROVE CondemnsForAReason'
  BY <1>2 DEF NotifySucceeds, Step, Answered
<1>3. ASSUME NEW n \in Notes, NotifyRefused(n) PROVE CondemnsForAReason'
  BY <1>3 DEF NotifyRefused, Step, Answered, AnswersAreTrue
<1>4. ASSUME NEW n \in Notes, NotifyFails(n) PROVE CondemnsForAReason'
  BY <1>4 DEF NotifyFails, Step, Fail, Abandon
<1>5. ASSUME NEW n \in Notes, NotifyAgain(n) PROVE CondemnsForAReason'
  BY <1>5 DEF NotifyAgain, Step, Post
<1>6. ASSUME NEW n \in Notes, StoreBegin(n) PROVE CondemnsForAReason'
  BY <1>6 DEF StoreBegin, Step
<1>7. ASSUME NEW n \in Notes, StoreEnd(n) PROVE CondemnsForAReason'
  BY <1>7 DEF StoreEnd, Step
<1>8. ASSUME NEW n \in Notes, LateArrival(n) PROVE CondemnsForAReason'
  BY <1>8 DEF LateArrival, Stores
<1>9. ASSUME NEW x \in Workers, MoveRead(x) PROVE CondemnsForAReason'
  BY <1>9 DEF MoveRead, Step, Finish
<1>10. ASSUME NEW x \in Workers, BuryBegin(x) PROVE CondemnsForAReason'
  BY <1>10 DEF BuryBegin, Step
<1>11. ASSUME NEW x \in Workers, BuryEnd(x) PROVE CondemnsForAReason'
  BY <1>11 DEF BuryEnd, Step
<1>12. ASSUME NEW x \in Workers, Unlink(x) PROVE CondemnsForAReason'
  BY <1>12 DEF Unlink, Step, Finish
<1>13. ASSUME NEW x \in Workers, ServerStores(x) PROVE CondemnsForAReason'
  BY <1>13 DEF ServerStores, Stores
<1>14. ASSUME NEW x \in Workers, ServerRefuses(x) PROVE CondemnsForAReason'
  BY <1>14 DEF ServerRefuses
<1>15. ASSUME NEW r \in Runs, RunStart(r) PROVE CondemnsForAReason'
  BY <1>15 DEF RunStart, Step
<1>16. ASSUME NEW r \in Runs, ListRead(r) PROVE CondemnsForAReason'
  BY <1>16 DEF ListRead, Step
<1>17. ASSUME NEW r \in Runs, ListDone(r) PROVE CondemnsForAReason'
  BY <1>17 DEF ListDone, Step
<1>18. ASSUME NEW r \in Runs, Pick(r) PROVE CondemnsForAReason'
  BY <1>18 DEF Pick, Step
<1>19. ASSUME NEW r \in Runs, RunEnd(r) PROVE CondemnsForAReason'
  BY <1>19 DEF RunEnd, Step
<1>20. ASSUME NEW r \in Runs, UpdateRead(r) PROVE CondemnsForAReason'
  BY <1>20 DEF UpdateRead, Step
<1>21. ASSUME NEW r \in Runs, UpdateBegin(r) PROVE CondemnsForAReason'
  BY <1>21 DEF UpdateBegin, Step
<1>22. ASSUME NEW r \in Runs, UpdateEnd(r) PROVE CondemnsForAReason'
  BY <1>22 DEF UpdateEnd, Step, Post
<1>23. ASSUME NEW r \in Runs, RetrySucceeds(r) PROVE CondemnsForAReason'
  BY <1>23 DEF RetrySucceeds, Step, Answered
<1>24. ASSUME NEW r \in Runs, RetryRefused(r) PROVE CondemnsForAReason'
  BY <1>24 DEF RetryRefused, Step, Answered, AnswersAreTrue
<1>25. ASSUME NEW r \in Runs, RetryFails(r) PROVE CondemnsForAReason'
  BY <1>25 DEF RetryFails, Step, Fail, Abandon
<1>26. CASE Exit
  BY <1>26 DEF Exit, Abandon
<1>27. CASE Restart
  BY <1>27 DEF Restart
<1>28. CASE UNCHANGED vars
  BY <1>28 DEF vars, workerVars, serverVars
<1> QED
  BY <1>1, <1>2, <1>3, <1>4, <1>5, <1>6, <1>7, <1>8, <1>9, <1>10, <1>11, <1>12, <1>13,
     <1>14, <1>15, <1>16, <1>17, <1>18, <1>19, <1>20, <1>21, <1>22, <1>23, <1>24, <1>25,
     <1>26, <1>27, <1>28
  DEF Next, NotifyStep, MoveStep, ServerStep, RetryStep

\* Every step keeps the reasons of the dead letters.
LEMMA DeadStep ==
    ASSUME IInv, [Next]_vars PROVE DeadForAReason'
<1> USE DeliveryAssumption DEF IInv, DeadForAReason, TypeInv, TypeOK, Workers,
        workerVars, serverVars
<1>1. ASSUME NEW n \in Notes, Notify(n) PROVE DeadForAReason'
  BY <1>1 DEF Notify, Step, Post
<1>2. ASSUME NEW n \in Notes, NotifySucceeds(n) PROVE DeadForAReason'
  BY <1>2 DEF NotifySucceeds, Step, Answered
<1>3. ASSUME NEW n \in Notes, NotifyRefused(n) PROVE DeadForAReason'
  BY <1>3 DEF NotifyRefused, Step, Answered
<1>4. ASSUME NEW n \in Notes, NotifyFails(n) PROVE DeadForAReason'
  BY <1>4 DEF NotifyFails, Step, Fail, Abandon
<1>5. ASSUME NEW n \in Notes, NotifyAgain(n) PROVE DeadForAReason'
  BY <1>5 DEF NotifyAgain, Step, Post
<1>6. ASSUME NEW n \in Notes, StoreBegin(n) PROVE DeadForAReason'
  BY <1>6 DEF StoreBegin, Step
<1>7. ASSUME NEW n \in Notes, StoreEnd(n) PROVE DeadForAReason'
  BY <1>7 DEF StoreEnd, Step
<1>8. ASSUME NEW n \in Notes, LateArrival(n) PROVE DeadForAReason'
  BY <1>8 DEF LateArrival, Stores
<1>9. ASSUME NEW x \in Workers, MoveRead(x) PROVE DeadForAReason'
  BY <1>9 DEF MoveRead, Step, Finish
<1>10. ASSUME NEW x \in Workers, BuryBegin(x) PROVE DeadForAReason'
  BY <1>10 DEF BuryBegin, Step
<1>11. ASSUME NEW x \in Workers, BuryEnd(x) PROVE DeadForAReason'
  BY <1>11, SubjectIsNote DEF BuryEnd, Step, CondemnsForAReason, Condemning
<1>12. ASSUME NEW x \in Workers, Unlink(x) PROVE DeadForAReason'
  BY <1>12 DEF Unlink, Step, Finish
<1>13. ASSUME NEW x \in Workers, ServerStores(x) PROVE DeadForAReason'
  BY <1>13 DEF ServerStores, Stores
<1>14. ASSUME NEW x \in Workers, ServerRefuses(x) PROVE DeadForAReason'
  BY <1>14 DEF ServerRefuses
<1>15. ASSUME NEW r \in Runs, RunStart(r) PROVE DeadForAReason'
  BY <1>15 DEF RunStart, Step
<1>16. ASSUME NEW r \in Runs, ListRead(r) PROVE DeadForAReason'
  BY <1>16 DEF ListRead, Step
<1>17. ASSUME NEW r \in Runs, ListDone(r) PROVE DeadForAReason'
  BY <1>17 DEF ListDone, Step
<1>18. ASSUME NEW r \in Runs, Pick(r) PROVE DeadForAReason'
  BY <1>18 DEF Pick, Step
<1>19. ASSUME NEW r \in Runs, RunEnd(r) PROVE DeadForAReason'
  BY <1>19 DEF RunEnd, Step
<1>20. ASSUME NEW r \in Runs, UpdateRead(r) PROVE DeadForAReason'
  BY <1>20 DEF UpdateRead, Step
<1>21. ASSUME NEW r \in Runs, UpdateBegin(r) PROVE DeadForAReason'
  BY <1>21 DEF UpdateBegin, Step
<1>22. ASSUME NEW r \in Runs, UpdateEnd(r) PROVE DeadForAReason'
  BY <1>22 DEF UpdateEnd, Step, Post
<1>23. ASSUME NEW r \in Runs, RetrySucceeds(r) PROVE DeadForAReason'
  BY <1>23 DEF RetrySucceeds, Step, Answered
<1>24. ASSUME NEW r \in Runs, RetryRefused(r) PROVE DeadForAReason'
  BY <1>24 DEF RetryRefused, Step, Answered
<1>25. ASSUME NEW r \in Runs, RetryFails(r) PROVE DeadForAReason'
  BY <1>25 DEF RetryFails, Step, Fail, Abandon
<1>26. CASE Exit
  BY <1>26 DEF Exit, Abandon
<1>27. CASE Restart
  BY <1>27 DEF Restart
<1>28. CASE UNCHANGED vars
  BY <1>28 DEF vars, workerVars, serverVars
<1> QED
  BY <1>1, <1>2, <1>3, <1>4, <1>5, <1>6, <1>7, <1>8, <1>9, <1>10, <1>11, <1>12, <1>13,
     <1>14, <1>15, <1>16, <1>17, <1>18, <1>19, <1>20, <1>21, <1>22, <1>23, <1>24, <1>25,
     <1>26, <1>27, <1>28
  DEF Next, NotifyStep, MoveStep, ServerStep, RetryStep

\* Every step keeps it safe to remove a file where one is about to.
LEMMA UnlinkStep ==
    ASSUME IInv, [Next]_vars PROVE UnlinksWhatIsSafe'
<1> USE DeliveryAssumption DEF IInv, UnlinksWhatIsSafe, Buried, BuriedBy, Subject,
        TypeInv, TypeOK, Workers, workerVars, serverVars
<1>1. ASSUME NEW n \in Notes, Notify(n) PROVE UnlinksWhatIsSafe'
  BY <1>1 DEF Notify, Step, Post
<1>2. ASSUME NEW n \in Notes, NotifySucceeds(n) PROVE UnlinksWhatIsSafe'
  BY <1>2 DEF NotifySucceeds, Step, Answered
<1>3. ASSUME NEW n \in Notes, NotifyRefused(n) PROVE UnlinksWhatIsSafe'
  BY <1>3 DEF NotifyRefused, Step, Answered
<1>4. ASSUME NEW n \in Notes, NotifyFails(n) PROVE UnlinksWhatIsSafe'
  BY <1>4 DEF NotifyFails, Step, Fail, Abandon
<1>5. ASSUME NEW n \in Notes, NotifyAgain(n) PROVE UnlinksWhatIsSafe'
  BY <1>5 DEF NotifyAgain, Step, Post
<1>6. ASSUME NEW n \in Notes, StoreBegin(n) PROVE UnlinksWhatIsSafe'
  BY <1>6 DEF StoreBegin, Step
<1>7. ASSUME NEW n \in Notes, StoreEnd(n) PROVE UnlinksWhatIsSafe'
  BY <1>7 DEF StoreEnd, Step
<1>8. ASSUME NEW n \in Notes, LateArrival(n) PROVE UnlinksWhatIsSafe'
  BY <1>8 DEF LateArrival, Stores
<1>9. ASSUME NEW x \in Workers, MoveRead(x) PROVE UnlinksWhatIsSafe'
  BY <1>9 DEF MoveRead, Step, Finish
<1>10. ASSUME NEW x \in Workers, BuryBegin(x) PROVE UnlinksWhatIsSafe'
  BY <1>10 DEF BuryBegin, Step
<1>11. ASSUME NEW x \in Workers, BuryEnd(x) PROVE UnlinksWhatIsSafe'
  BY <1>11 DEF BuryEnd, Step, Reason
<1>12. ASSUME NEW x \in Workers, Unlink(x) PROVE UnlinksWhatIsSafe'
  BY <1>12 DEF Unlink, Step, Finish
<1>13. ASSUME NEW x \in Workers, ServerStores(x) PROVE UnlinksWhatIsSafe'
  BY <1>13 DEF ServerStores, Stores
<1>14. ASSUME NEW x \in Workers, ServerRefuses(x) PROVE UnlinksWhatIsSafe'
  BY <1>14 DEF ServerRefuses
<1>15. ASSUME NEW r \in Runs, RunStart(r) PROVE UnlinksWhatIsSafe'
  BY <1>15 DEF RunStart, Step
<1>16. ASSUME NEW r \in Runs, ListRead(r) PROVE UnlinksWhatIsSafe'
  BY <1>16 DEF ListRead, Step
<1>17. ASSUME NEW r \in Runs, ListDone(r) PROVE UnlinksWhatIsSafe'
  BY <1>17 DEF ListDone, Step
<1>18. ASSUME NEW r \in Runs, Pick(r) PROVE UnlinksWhatIsSafe'
  BY <1>18 DEF Pick, Step
<1>19. ASSUME NEW r \in Runs, RunEnd(r) PROVE UnlinksWhatIsSafe'
  BY <1>19 DEF RunEnd, Step
<1>20. ASSUME NEW r \in Runs, UpdateRead(r) PROVE UnlinksWhatIsSafe'
  BY <1>20 DEF UpdateRead, Step
<1>21. ASSUME NEW r \in Runs, UpdateBegin(r) PROVE UnlinksWhatIsSafe'
  BY <1>21 DEF UpdateBegin, Step
<1>22. ASSUME NEW r \in Runs, UpdateEnd(r) PROVE UnlinksWhatIsSafe'
  BY <1>22 DEF UpdateEnd, Step, Post
<1>23. ASSUME NEW r \in Runs, RetrySucceeds(r) PROVE UnlinksWhatIsSafe'
  BY <1>23 DEF RetrySucceeds, Step, Answered, AnswersAreTrue
<1>24. ASSUME NEW r \in Runs, RetryRefused(r) PROVE UnlinksWhatIsSafe'
  BY <1>24 DEF RetryRefused, Step, Answered
<1>25. ASSUME NEW r \in Runs, RetryFails(r) PROVE UnlinksWhatIsSafe'
  BY <1>25 DEF RetryFails, Step, Fail, Abandon
<1>26. CASE Exit
  BY <1>26 DEF Exit, Idle
<1>27. CASE Restart
  BY <1>27 DEF Restart
<1>28. CASE UNCHANGED vars
  BY <1>28 DEF vars, workerVars, serverVars
<1> QED
  BY <1>1, <1>2, <1>3, <1>4, <1>5, <1>6, <1>7, <1>8, <1>9, <1>10, <1>11, <1>12, <1>13,
     <1>14, <1>15, <1>16, <1>17, <1>18, <1>19, <1>20, <1>21, <1>22, <1>23, <1>24, <1>25,
     <1>26, <1>27, <1>28
  DEF Next, NotifyStep, MoveStep, ServerStep, RetryStep

\* Every step keeps the runs away from first deliveries.
LEMMA EarlyStep ==
    ASSUME IInv, [Next]_vars PROVE EarlyIsUnseen'
<1> USE DeliveryAssumption DEF IInv, EarlyIsUnseen, Unseen, Early, Absent, Torn, Subject,
        TypeInv, TypeOK, Workers, workerVars, serverVars
<1>1. ASSUME NEW n \in Notes, Notify(n) PROVE EarlyIsUnseen'
  <2>1. UNCHANGED <<file, dead, todo, on>>
    BY <1>1 DEF Notify
  <2>2. \A r \in Runs : pc'[r] = pc[r]
    BY <1>1 DEF Notify, Step
  <2>3. \A m \in Notes : pc'[m] \in Early => pc[m] \in Early
    BY <1>1 DEF Notify, Step
  <2> QED
    BY <2>1, <2>2, <2>3
<1>2. ASSUME NEW n \in Notes, NotifySucceeds(n) PROVE EarlyIsUnseen'
  BY <1>2 DEF NotifySucceeds, Step, Answered
<1>3. ASSUME NEW n \in Notes, NotifyRefused(n) PROVE EarlyIsUnseen'
  BY <1>3 DEF NotifyRefused, Step, Answered
<1>4. ASSUME NEW n \in Notes, NotifyFails(n) PROVE EarlyIsUnseen'
  BY <1>4 DEF NotifyFails, Step, Fail, Abandon
<1>5. ASSUME NEW n \in Notes, NotifyAgain(n) PROVE EarlyIsUnseen'
  BY <1>5 DEF NotifyAgain, Step, Post
<1>6. ASSUME NEW n \in Notes, StoreBegin(n) PROVE EarlyIsUnseen'
  BY <1>6 DEF StoreBegin, Step
<1>7. ASSUME NEW n \in Notes, StoreEnd(n) PROVE EarlyIsUnseen'
  BY <1>7 DEF StoreEnd, Step
<1>8. ASSUME NEW n \in Notes, LateArrival(n) PROVE EarlyIsUnseen'
  BY <1>8 DEF LateArrival, Stores
<1>9. ASSUME NEW x \in Workers, MoveRead(x) PROVE EarlyIsUnseen'
  BY <1>9 DEF MoveRead, Step, Finish
<1>10. ASSUME NEW x \in Workers, BuryBegin(x) PROVE EarlyIsUnseen'
  BY <1>10 DEF BuryBegin, Step
<1>11. ASSUME NEW x \in Workers, BuryEnd(x) PROVE EarlyIsUnseen'
  BY <1>11 DEF BuryEnd, Step
<1>12. ASSUME NEW x \in Workers, Unlink(x) PROVE EarlyIsUnseen'
  BY <1>12 DEF Unlink, Step, Finish
<1>13. ASSUME NEW x \in Workers, ServerStores(x) PROVE EarlyIsUnseen'
  BY <1>13 DEF ServerStores, Stores
<1>14. ASSUME NEW x \in Workers, ServerRefuses(x) PROVE EarlyIsUnseen'
  BY <1>14 DEF ServerRefuses
<1>15. ASSUME NEW r \in Runs, RunStart(r) PROVE EarlyIsUnseen'
  BY <1>15 DEF RunStart, Step
<1>16. ASSUME NEW r \in Runs, ListRead(r) PROVE EarlyIsUnseen'
  BY <1>16 DEF ListRead, Step
<1>17. ASSUME NEW r \in Runs, ListDone(r) PROVE EarlyIsUnseen'
  BY <1>17 DEF ListDone, Step
<1>18. ASSUME NEW r \in Runs, Pick(r) PROVE EarlyIsUnseen'
  BY <1>18 DEF Pick, Step
<1>19. ASSUME NEW r \in Runs, RunEnd(r) PROVE EarlyIsUnseen'
  BY <1>19 DEF RunEnd, Step
<1>20. ASSUME NEW r \in Runs, UpdateRead(r) PROVE EarlyIsUnseen'
  BY <1>20 DEF UpdateRead, Step
<1>21. ASSUME NEW r \in Runs, UpdateBegin(r) PROVE EarlyIsUnseen'
  BY <1>21 DEF UpdateBegin, Step
<1>22. ASSUME NEW r \in Runs, UpdateEnd(r) PROVE EarlyIsUnseen'
  BY <1>22 DEF UpdateEnd, Step, Post
<1>23. ASSUME NEW r \in Runs, RetrySucceeds(r) PROVE EarlyIsUnseen'
  BY <1>23 DEF RetrySucceeds, Step, Answered
<1>24. ASSUME NEW r \in Runs, RetryRefused(r) PROVE EarlyIsUnseen'
  BY <1>24 DEF RetryRefused, Step, Answered
<1>25. ASSUME NEW r \in Runs, RetryFails(r) PROVE EarlyIsUnseen'
  BY <1>25 DEF RetryFails, Step, Fail, Abandon
<1>26. CASE Exit
  BY <1>26 DEF Exit, Abandon
<1>27. CASE Restart
  BY <1>27 DEF Restart
<1>28. CASE UNCHANGED vars
  BY <1>28 DEF vars, workerVars, serverVars
<1> QED
  BY <1>1, <1>2, <1>3, <1>4, <1>5, <1>6, <1>7, <1>8, <1>9, <1>10, <1>11, <1>12, <1>13,
     <1>14, <1>15, <1>16, <1>17, <1>18, <1>19, <1>20, <1>21, <1>22, <1>23, <1>24, <1>25,
     <1>26, <1>27, <1>28
  DEF Next, NotifyStep, MoveStep, ServerStep, RetryStep

\* The invariant is inductive.
LEMMA StepIInv == IInv /\ [Next]_vars => IInv'
  BY TypeStep, LintsStep, AnswersStep, CondemnsStep, DeadStep, UnlinkStep,
      EarlyStep DEF IInv

\* The invariant holds in every state of the specification.
LEMMA SpecIInv == Spec => []IInv
  BY InitIInv, StepIInv, PTL DEF Spec

-----------------------------------------------------------------------------
\* The state is of its types, and the attempts within the limit.
THEOREM TypeCorrect == Spec => []TypeOK
<1>1. IInv => TypeOK
  BY DEF IInv, TypeInv
<1> QED
  BY <1>1, SpecIInv, PTL

\* total_lints of the document is the number of jobs stored, however often a
\* notification is sent and whenever a request given up arrives.
THEOREM LintsCorrect == Spec => []LintsAreJobs
<1>1. IInv => LintsAreJobs
  BY DEF IInv
<1> QED
  BY <1>1, SpecIInv, PTL

\* Only what the server refuses for good is a dead letter for that reason.
THEOREM DeadCorrect == Spec => []DeadForAReason
<1>1. IInv => DeadForAReason
  BY DEF IInv
<1> QED
  BY <1>1, SpecIInv, PTL

-----------------------------------------------------------------------------
\* What a step does to the notifications on disk.
KeepsOnDisk == \A n \in Notes : OnDisk(n) => OnDisk(n)' \/ n \in stored'

\* store() finds nothing on disk that it could spoil.
LEMMA EarlyIsNotOnDisk ==
    ASSUME IInv, NEW n \in Notes, pc[n] \in {"store", "storeDead"} PROVE ~OnDisk(n)
  BY DEF IInv, EarlyIsUnseen, Early, Unseen, OnDisk, Absent, Torn, Writing, Subject,
      Workers

\* A file is removed only when its notification is safe without it.
LEMMA UnlinkKeeps ==
    ASSUME IInv, NEW x \in Workers, Unlink(x) PROVE KeepsOnDisk
<1>1. TypeOK /\ Subject(x) \in Notes
  BY SubjectIsNote DEF IInv, TypeInv
<1>2. \A n \in Notes : n # Subject(x) => file'[n] = file[n]
  BY <1>1 DEF Unlink, TypeOK
<1>3. \A y \in Workers : pc[y] \in Writing => pc'[y] = pc[y]
  BY <1>1 DEF Unlink, Step, Writing, TypeOK
<1>4. UNCHANGED <<on, dead, stored>>
  BY DEF Unlink, workerVars, serverVars
<1>5. ASSUME NEW n \in Notes, n # Subject(x), OnDisk(n) PROVE OnDisk(n)'
  BY <1>2, <1>3, <1>4, <1>5 DEF OnDisk, Subject
<1>6. \/ Subject(x) \in stored \/ Buried(Subject(x))
      \/ \E y \in Workers : BuriedBy(y, Subject(x))
  BY DEF IInv, UnlinksWhatIsSafe, Unlink, Step
<1>7. ASSUME NEW n \in Notes, n = Subject(x), n \notin stored PROVE OnDisk(n)'
  BY <1>3, <1>4, <1>6, <1>7 DEF OnDisk, Subject, Buried, BuriedBy, Writing
<1> QED
  BY <1>4, <1>5, <1>7 DEF KeepsOnDisk

\* While the process does not end within a write, every step keeps what is on disk.
LEMMA KeepStep ==
    ASSUME IInv, ~TornWrites, [Next]_vars PROVE KeepsOnDisk
<1> USE DeliveryAssumption DEF IInv, KeepsOnDisk, OnDisk, Subject, Writing, TypeInv,
        TypeOK, Workers, workerVars, serverVars
<1>1. ASSUME NEW n \in Notes, Notify(n) PROVE KeepsOnDisk
  BY <1>1 DEF Notify, Step, Post
<1>2. ASSUME NEW n \in Notes, NotifySucceeds(n) PROVE KeepsOnDisk
  BY <1>2 DEF NotifySucceeds, Step, Answered
<1>3. ASSUME NEW n \in Notes, NotifyRefused(n) PROVE KeepsOnDisk
  BY <1>3 DEF NotifyRefused, Step, Answered
<1>4. ASSUME NEW n \in Notes, NotifyFails(n) PROVE KeepsOnDisk
  BY <1>4 DEF NotifyFails, Step, Fail, Abandon
<1>5. ASSUME NEW n \in Notes, NotifyAgain(n) PROVE KeepsOnDisk
  BY <1>5 DEF NotifyAgain, Step, Post
<1>6. ASSUME NEW n \in Notes, StoreBegin(n) PROVE KeepsOnDisk
  BY <1>6, EarlyIsNotOnDisk DEF StoreBegin, Step
<1>7. ASSUME NEW n \in Notes, StoreEnd(n) PROVE KeepsOnDisk
  BY <1>7 DEF StoreEnd, Step
<1>8. ASSUME NEW n \in Notes, LateArrival(n) PROVE KeepsOnDisk
  BY <1>8 DEF LateArrival, Stores
<1>9. ASSUME NEW x \in Workers, MoveRead(x) PROVE KeepsOnDisk
  BY <1>9 DEF MoveRead, Step, Finish
<1>10. ASSUME NEW x \in Workers, BuryBegin(x) PROVE KeepsOnDisk
  BY <1>10 DEF BuryBegin, Step
<1>11. ASSUME NEW x \in Workers, BuryEnd(x) PROVE KeepsOnDisk
  BY <1>11 DEF BuryEnd, Step, Reason
<1>12. ASSUME NEW x \in Workers, Unlink(x) PROVE KeepsOnDisk
  BY <1>12, UnlinkKeeps
<1>13. ASSUME NEW x \in Workers, ServerStores(x) PROVE KeepsOnDisk
  BY <1>13 DEF ServerStores, Stores
<1>14. ASSUME NEW x \in Workers, ServerRefuses(x) PROVE KeepsOnDisk
  BY <1>14 DEF ServerRefuses
<1>15. ASSUME NEW r \in Runs, RunStart(r) PROVE KeepsOnDisk
  BY <1>15 DEF RunStart, Step
<1>16. ASSUME NEW r \in Runs, ListRead(r) PROVE KeepsOnDisk
  BY <1>16 DEF ListRead, Step
<1>17. ASSUME NEW r \in Runs, ListDone(r) PROVE KeepsOnDisk
  BY <1>17 DEF ListDone, Step
<1>18. ASSUME NEW r \in Runs, Pick(r) PROVE KeepsOnDisk
  BY <1>18 DEF Pick, Step
<1>19. ASSUME NEW r \in Runs, RunEnd(r) PROVE KeepsOnDisk
  BY <1>19 DEF RunEnd, Step
<1>20. ASSUME NEW r \in Runs, UpdateRead(r) PROVE KeepsOnDisk
  BY <1>20 DEF UpdateRead, Step
<1>21. ASSUME NEW r \in Runs, UpdateBegin(r) PROVE KeepsOnDisk
  BY <1>21 DEF UpdateBegin, Step
<1>22. ASSUME NEW r \in Runs, UpdateEnd(r) PROVE KeepsOnDisk
  BY <1>22 DEF UpdateEnd, Step, Post
<1>23. ASSUME NEW r \in Runs, RetrySucceeds(r) PROVE KeepsOnDisk
  BY <1>23 DEF RetrySucceeds, Step, Answered
<1>24. ASSUME NEW r \in Runs, RetryRefused(r) PROVE KeepsOnDisk
  BY <1>24 DEF RetryRefused, Step, Answered
<1>25. ASSUME NEW r \in Runs, RetryFails(r) PROVE KeepsOnDisk
  BY <1>25 DEF RetryFails, Step, Fail, Abandon
<1>26. CASE Exit
  BY <1>26 DEF Exit, Abandon
<1>27. CASE Restart
  BY <1>27 DEF Restart
<1>28. CASE UNCHANGED vars
  BY <1>28 DEF vars, workerVars, serverVars
<1> QED
  BY <1>1, <1>2, <1>3, <1>4, <1>5, <1>6, <1>7, <1>8, <1>9, <1>10, <1>11, <1>12, <1>13,
     <1>14, <1>15, <1>16, <1>17, <1>18, <1>19, <1>20, <1>21, <1>22, <1>23, <1>24, <1>25,
     <1>26, <1>27, <1>28
  DEF Next, NotifyStep, MoveStep, ServerStep, RetryStep

\* A notification on disk is there until the server has it, whatever runs
\* overlap and wherever between two writes the process ends.
THEOREM DurableCorrect ==
    ASSUME ~TornWrites PROVE Spec => Durable
<1>1. IInv /\ [Next]_vars => [KeepsOnDisk]_vars
  BY KeepStep
<1> QED
  BY <1>1, SpecIInv, PTL DEF Spec, Durable, KeepsOnDisk

\* The server's tables and the dead letters agree with what was sent, for any number
\* of notifications and runs, and wherever the process ends.
THEOREM DeliveryCorrect == Spec => []DeliveryIsConsistent
<1>1. TypeOK /\ LintsAreJobs /\ DeadForAReason => DeliveryIsConsistent
  BY DEF DeliveryIsConsistent
<1>2. QED
  BY <1>1, TypeCorrect, LintsCorrect, DeadCorrect, PTL

-----------------------------------------------------------------------------
(* The refinement of DeliveryService.                                       *)

\* What notify has not taken was sent to nobody and is nowhere.
UntakenIsUnsent ==
    \A n \in Notes :
        pc[n] \in {"new", "refused"} =>
            /\ n \notin stored \cup late
            /\ file[n] = Absent /\ dead[n] = "none"
            /\ \A r \in Runs : Unseen(r, n)

\* Past its first file, or in the hands of a run.
Known(n) ==
    \/ pc[n] \in {"move", "bury", "burying", "unlink", "over"}
    \/ \E r \in Runs : ~Unseen(r, n)

\* Who knows of a notification knows it from the disk or has had its answer.
KnownIsSafe == \A n \in Notes : Known(n) => OnDisk(n) \/ n \in stored

\* A notify call is in one of its own places.
NotesAreNotIdle == \A n \in Notes : pc[n] # "idle"

\* What the invariant of the delivery does not need and its promise does.
RInv == UntakenIsUnsent /\ KnownIsSafe /\ NotesAreNotIdle

\* Nothing is known at first.
LEMMA InitRInv == Init => RInv
  BY DeliveryAssumption
  DEF Init, RInv, UntakenIsUnsent, KnownIsSafe, NotesAreNotIdle, Known, Unseen, Workers

\* A notify call that has not begun stays unsent until it begins.
LEMMA UntakenStep == ASSUME IInv, UntakenIsUnsent, [Next]_vars PROVE UntakenIsUnsent'
<1> USE DeliveryAssumption DEF IInv, UntakenIsUnsent, Unseen, Subject, TypeInv, TypeOK, Workers,
        workerVars, serverVars, Absent
<1>1. ASSUME NEW n \in Notes, Notify(n) PROVE UntakenIsUnsent'
  BY <1>1 DEF Notify, Step, Post
<1>2. ASSUME NEW n \in Notes, NotifySucceeds(n) PROVE UntakenIsUnsent'
  BY <1>2 DEF NotifySucceeds, Step, Answered
<1>3. ASSUME NEW n \in Notes, NotifyRefused(n) PROVE UntakenIsUnsent'
  BY <1>3 DEF NotifyRefused, Step, Answered
<1>4. ASSUME NEW n \in Notes, NotifyFails(n) PROVE UntakenIsUnsent'
  BY <1>4 DEF NotifyFails, Step, Fail, Abandon
<1>5. ASSUME NEW n \in Notes, NotifyAgain(n) PROVE UntakenIsUnsent'
  BY <1>5 DEF NotifyAgain, Step, Post
<1>6. ASSUME NEW n \in Notes, StoreBegin(n) PROVE UntakenIsUnsent'
  BY <1>6 DEF StoreBegin, Step
<1>7. ASSUME NEW n \in Notes, StoreEnd(n) PROVE UntakenIsUnsent'
  BY <1>7 DEF StoreEnd, Step
<1>8. ASSUME NEW n \in Notes, LateArrival(n) PROVE UntakenIsUnsent'
  BY <1>8 DEF LateArrival, Stores
<1>9. ASSUME NEW x \in Workers, MoveRead(x) PROVE UntakenIsUnsent'
  BY <1>9 DEF MoveRead, Step, Finish
<1>10. ASSUME NEW x \in Workers, BuryBegin(x) PROVE UntakenIsUnsent'
  BY <1>10 DEF BuryBegin, Step
<1>11. ASSUME NEW x \in Workers, BuryEnd(x) PROVE UntakenIsUnsent'
  BY <1>11 DEF BuryEnd, Step, Reason
<1>12. ASSUME NEW x \in Workers, Unlink(x) PROVE UntakenIsUnsent'
  BY <1>12 DEF Unlink, Step, Finish
<1>13. ASSUME NEW x \in Workers, ServerStores(x) PROVE UntakenIsUnsent'
  BY <1>13 DEF ServerStores, Stores
<1>14. ASSUME NEW x \in Workers, ServerRefuses(x) PROVE UntakenIsUnsent'
  BY <1>14 DEF ServerRefuses
<1>15. ASSUME NEW r \in Runs, RunStart(r) PROVE UntakenIsUnsent'
  BY <1>15 DEF RunStart, Step
<1>16. ASSUME NEW r \in Runs, ListRead(r) PROVE UntakenIsUnsent'
  BY <1>16 DEF ListRead, Step
<1>17. ASSUME NEW r \in Runs, ListDone(r) PROVE UntakenIsUnsent'
  BY <1>17 DEF ListDone, Step
<1>18. ASSUME NEW r \in Runs, Pick(r) PROVE UntakenIsUnsent'
  BY <1>18 DEF Pick, Step
<1>19. ASSUME NEW r \in Runs, RunEnd(r) PROVE UntakenIsUnsent'
  BY <1>19 DEF RunEnd, Step
<1>20. ASSUME NEW r \in Runs, UpdateRead(r) PROVE UntakenIsUnsent'
  BY <1>20 DEF UpdateRead, Step
<1>21. ASSUME NEW r \in Runs, UpdateBegin(r) PROVE UntakenIsUnsent'
  BY <1>21 DEF UpdateBegin, Step
<1>22. ASSUME NEW r \in Runs, UpdateEnd(r) PROVE UntakenIsUnsent'
  BY <1>22 DEF UpdateEnd, Step, Post
<1>23. ASSUME NEW r \in Runs, RetrySucceeds(r) PROVE UntakenIsUnsent'
  BY <1>23 DEF RetrySucceeds, Step, Answered
<1>24. ASSUME NEW r \in Runs, RetryRefused(r) PROVE UntakenIsUnsent'
  BY <1>24 DEF RetryRefused, Step, Answered
<1>25. ASSUME NEW r \in Runs, RetryFails(r) PROVE UntakenIsUnsent'
  BY <1>25 DEF RetryFails, Step, Fail, Abandon
<1>26. CASE Exit
  <2>1. \A n \in Notes : pc'[n] \in {"new", "refused"} => pc[n] = pc'[n]
    BY <1>26 DEF Exit
  <2>2. \A r \in Runs, n \in Notes : Unseen(r, n)'
    BY <1>26 DEF Exit
  <2>3. ASSUME NEW x \in Workers, sent[x] = "flying"
        PROVE  pc[Subject(x)] \notin {"new", "refused"}
    BY <2>3 DEF AnswersAreTrue
  <2>4. \A n \in late' : n \in late \/ pc[n] \notin {"new", "refused"}
    BY <1>26, <2>3 DEF Exit, Abandon
  <2>5. UNCHANGED <<stored, file, dead>>
    BY <1>26 DEF Exit
  <2> HIDE DEF Unseen
  <2>6. QED BY <2>1, <2>2, <2>4, <2>5
<1>27. CASE Restart
  BY <1>27 DEF Restart
<1>28. CASE UNCHANGED vars
  BY <1>28 DEF vars
<1> QED
  BY <1>1, <1>2, <1>3, <1>4, <1>5, <1>6, <1>7, <1>8, <1>9, <1>10, <1>11, <1>12, <1>13,
     <1>14, <1>15, <1>16, <1>17, <1>18, <1>19, <1>20, <1>21, <1>22, <1>23, <1>24, <1>25, <1>26,
     <1>27, <1>28
  DEF Next, NotifyStep, MoveStep, ServerStep, RetryStep

\* A notify call is never where only a run is.
LEMMA NotIdleStep == ASSUME IInv, NotesAreNotIdle, [Next]_vars PROVE NotesAreNotIdle'
<1> USE DeliveryAssumption DEF IInv, NotesAreNotIdle, TypeInv, TypeOK, Workers
<1>1. ASSUME NEW n \in Notes, Notify(n) PROVE NotesAreNotIdle'
  BY <1>1 DEF Notify, Step, Post
<1>2. ASSUME NEW n \in Notes, NotifySucceeds(n) PROVE NotesAreNotIdle'
  BY <1>2 DEF NotifySucceeds, Step, Answered
<1>3. ASSUME NEW n \in Notes, NotifyRefused(n) PROVE NotesAreNotIdle'
  BY <1>3 DEF NotifyRefused, Step, Answered
<1>4. ASSUME NEW n \in Notes, NotifyFails(n) PROVE NotesAreNotIdle'
  BY <1>4 DEF NotifyFails, Step, Fail, Abandon
<1>5. ASSUME NEW n \in Notes, NotifyAgain(n) PROVE NotesAreNotIdle'
  BY <1>5 DEF NotifyAgain, Step, Post
<1>6. ASSUME NEW n \in Notes, StoreBegin(n) PROVE NotesAreNotIdle'
  BY <1>6 DEF StoreBegin, Step
<1>7. ASSUME NEW n \in Notes, StoreEnd(n) PROVE NotesAreNotIdle'
  BY <1>7 DEF StoreEnd, Step
<1>8. ASSUME NEW n \in Notes, LateArrival(n) PROVE NotesAreNotIdle'
  BY <1>8 DEF LateArrival, Stores
<1>9. ASSUME NEW x \in Workers, MoveRead(x) PROVE NotesAreNotIdle'
  BY <1>9 DEF MoveRead, Step, Finish
<1>10. ASSUME NEW x \in Workers, BuryBegin(x) PROVE NotesAreNotIdle'
  BY <1>10 DEF BuryBegin, Step
<1>11. ASSUME NEW x \in Workers, BuryEnd(x) PROVE NotesAreNotIdle'
  BY <1>11 DEF BuryEnd, Step, Reason
<1>12. ASSUME NEW x \in Workers, Unlink(x) PROVE NotesAreNotIdle'
  BY <1>12 DEF Unlink, Step, Finish
<1>13. ASSUME NEW x \in Workers, ServerStores(x) PROVE NotesAreNotIdle'
  BY <1>13 DEF ServerStores, Stores
<1>14. ASSUME NEW x \in Workers, ServerRefuses(x) PROVE NotesAreNotIdle'
  BY <1>14 DEF ServerRefuses
<1>15. ASSUME NEW r \in Runs, RunStart(r) PROVE NotesAreNotIdle'
  BY <1>15 DEF RunStart, Step
<1>16. ASSUME NEW r \in Runs, ListRead(r) PROVE NotesAreNotIdle'
  BY <1>16 DEF ListRead, Step
<1>17. ASSUME NEW r \in Runs, ListDone(r) PROVE NotesAreNotIdle'
  BY <1>17 DEF ListDone, Step
<1>18. ASSUME NEW r \in Runs, Pick(r) PROVE NotesAreNotIdle'
  BY <1>18 DEF Pick, Step
<1>19. ASSUME NEW r \in Runs, RunEnd(r) PROVE NotesAreNotIdle'
  BY <1>19 DEF RunEnd, Step
<1>20. ASSUME NEW r \in Runs, UpdateRead(r) PROVE NotesAreNotIdle'
  BY <1>20 DEF UpdateRead, Step
<1>21. ASSUME NEW r \in Runs, UpdateBegin(r) PROVE NotesAreNotIdle'
  BY <1>21 DEF UpdateBegin, Step
<1>22. ASSUME NEW r \in Runs, UpdateEnd(r) PROVE NotesAreNotIdle'
  BY <1>22 DEF UpdateEnd, Step, Post
<1>23. ASSUME NEW r \in Runs, RetrySucceeds(r) PROVE NotesAreNotIdle'
  BY <1>23 DEF RetrySucceeds, Step, Answered
<1>24. ASSUME NEW r \in Runs, RetryRefused(r) PROVE NotesAreNotIdle'
  BY <1>24 DEF RetryRefused, Step, Answered
<1>25. ASSUME NEW r \in Runs, RetryFails(r) PROVE NotesAreNotIdle'
  BY <1>25 DEF RetryFails, Step, Fail, Abandon
<1>26. CASE Exit
  BY <1>26 DEF Exit, Abandon
<1>27. CASE Restart
  BY <1>27 DEF Restart
<1>28. CASE UNCHANGED vars
  BY <1>28 DEF vars
<1> QED
  BY <1>1, <1>2, <1>3, <1>4, <1>5, <1>6, <1>7, <1>8, <1>9, <1>10, <1>11, <1>12, <1>13,
     <1>14, <1>15, <1>16, <1>17, <1>18, <1>19, <1>20, <1>21, <1>22, <1>23, <1>24, <1>25, <1>26,
     <1>27, <1>28
  DEF Next, NotifyStep, MoveStep, ServerStep, RetryStep

\* A worker learns of a notification from its file, or has its answer.
Learns == \A m \in Notes : Known(m)' => Known(m) \/ OnDisk(m)' \/ m \in stored'

\* So does every step.
LEMMA LearnStep == ASSUME IInv, [Next]_vars PROVE Learns
<1> USE DeliveryAssumption DEF IInv, Learns, Known, Unseen, Subject, TypeInv, TypeOK, Workers,
        workerVars, serverVars
<1>1. ASSUME NEW n \in Notes, Notify(n) PROVE Learns
  <2>1. UNCHANGED <<todo, on>> /\ \A r \in Runs : pc'[r] = pc[r]
    BY <1>1 DEF Notify, Step
  <2>2. pc'[n] \in {"sending", "refused"} /\ \A m \in Notes : m # n => pc'[m] = pc[m]
    BY <1>1 DEF Notify, Step
  <2>3. QED BY <2>1, <2>2
<1>2. ASSUME NEW n \in Notes, NotifySucceeds(n) PROVE Learns
  BY <1>2 DEF NotifySucceeds, Step, Answered, AnswersAreTrue
<1>3. ASSUME NEW n \in Notes, NotifyRefused(n) PROVE Learns
  BY <1>3 DEF NotifyRefused, Step, Answered
<1>4. ASSUME NEW n \in Notes, NotifyFails(n) PROVE Learns
  BY <1>4 DEF NotifyFails, Step, Fail, Abandon
<1>5. ASSUME NEW n \in Notes, NotifyAgain(n) PROVE Learns
  BY <1>5 DEF NotifyAgain, Step, Post
<1>6. ASSUME NEW n \in Notes, StoreBegin(n) PROVE Learns
  BY <1>6 DEF StoreBegin, Step
<1>7. ASSUME NEW n \in Notes, StoreEnd(n) PROVE Learns
  <2>1. UNCHANGED <<todo, on>> /\ \A r \in Runs : pc'[r] = pc[r]
    BY <1>7 DEF StoreEnd, Step
  <2>2. \A m \in Notes : m # n => pc'[m] = pc[m]
    BY <1>7 DEF StoreEnd, Step
  <2>3. OnDisk(n)'
    BY <1>7 DEF StoreEnd, OnDisk
  <2>4. QED BY <2>1, <2>2, <2>3
<1>8. ASSUME NEW n \in Notes, LateArrival(n) PROVE Learns
  BY <1>8 DEF LateArrival, Stores
<1>9. ASSUME NEW x \in Workers, MoveRead(x) PROVE Learns
  BY <1>9 DEF MoveRead, Step, Finish
<1>10. ASSUME NEW x \in Workers, BuryBegin(x) PROVE Learns
  BY <1>10 DEF BuryBegin, Step
<1>11. ASSUME NEW x \in Workers, BuryEnd(x) PROVE Learns
  BY <1>11 DEF BuryEnd, Step, Reason
<1>12. ASSUME NEW x \in Workers, Unlink(x) PROVE Learns
  BY <1>12 DEF Unlink, Step, Finish
<1>13. ASSUME NEW x \in Workers, ServerStores(x) PROVE Learns
  BY <1>13 DEF ServerStores, Stores
<1>14. ASSUME NEW x \in Workers, ServerRefuses(x) PROVE Learns
  BY <1>14 DEF ServerRefuses
<1>15. ASSUME NEW r \in Runs, RunStart(r) PROVE Learns
  BY <1>15 DEF RunStart, Step
<1>16. ASSUME NEW r \in Runs, ListRead(r) PROVE Learns
  <2>1. PICK k \in unread[r] : todo' = [todo EXCEPT ![r] =
                                         IF file[k] >= 0 THEN @ \cup {<<k, file[k]>>} ELSE @]
    BY <1>16 DEF ListRead
  <2>2. pc' = pc /\ UNCHANGED <<on, file>>
    BY <1>16 DEF ListRead, Step
  <2>3. k \in Notes /\ (file[k] >= 0 => OnDisk(k)')
    BY <2>2 DEF OnDisk
  <2>4. \A m \in Notes : (\E q \in Runs : ~Unseen(q, m)') =>
            (\E q \in Runs : ~Unseen(q, m)) \/ (m = k /\ file[k] >= 0)
    BY <2>1, <2>2
  <2> HIDE DEF Unseen
  <2>5. QED BY <2>2, <2>3, <2>4
<1>17. ASSUME NEW r \in Runs, ListDone(r) PROVE Learns
  BY <1>17 DEF ListDone, Step
<1>18. ASSUME NEW r \in Runs, Pick(r) PROVE Learns
  BY <1>18 DEF Pick, Step
<1>19. ASSUME NEW r \in Runs, RunEnd(r) PROVE Learns
  BY <1>19 DEF RunEnd, Step
<1>20. ASSUME NEW r \in Runs, UpdateRead(r) PROVE Learns
  BY <1>20 DEF UpdateRead, Step
<1>21. ASSUME NEW r \in Runs, UpdateBegin(r) PROVE Learns
  BY <1>21 DEF UpdateBegin, Step
<1>22. ASSUME NEW r \in Runs, UpdateEnd(r) PROVE Learns
  BY <1>22 DEF UpdateEnd, Step, Post
<1>23. ASSUME NEW r \in Runs, RetrySucceeds(r) PROVE Learns
  BY <1>23 DEF RetrySucceeds, Step, Answered
<1>24. ASSUME NEW r \in Runs, RetryRefused(r) PROVE Learns
  BY <1>24 DEF RetryRefused, Step, Answered
<1>25. ASSUME NEW r \in Runs, RetryFails(r) PROVE Learns
  BY <1>25 DEF RetryFails, Step, Fail, Abandon
<1>26. CASE Exit
  BY <1>26 DEF Exit, Abandon
<1>27. CASE Restart
  BY <1>27 DEF Restart
<1>28. CASE UNCHANGED vars
  BY <1>28 DEF vars
<1> QED
  BY <1>1, <1>2, <1>3, <1>4, <1>5, <1>6, <1>7, <1>8, <1>9, <1>10, <1>11, <1>12, <1>13,
     <1>14, <1>15, <1>16, <1>17, <1>18, <1>19, <1>20, <1>21, <1>22, <1>23, <1>24, <1>25, <1>26,
     <1>27, <1>28
  DEF Next, NotifyStep, MoveStep, ServerStep, RetryStep

\* What the server has it keeps.
LEMMA StoredStays == ASSUME [Next]_vars PROVE stored \subseteq stored'
  BY DEF Next, NotifyStep, MoveStep, ServerStep, RetryStep, Notify, NotifySucceeds, NotifyRefused,
      NotifyFails, NotifyAgain, StoreBegin, StoreEnd, LateArrival, MoveRead, BuryBegin, BuryEnd,
      Unlink, ServerStores, ServerRefuses, RunStart, ListRead, ListDone, Pick, RunEnd, UpdateRead,
      UpdateBegin, UpdateEnd, RetrySucceeds, RetryRefused, RetryFails, Exit, Restart, Stores,
      vars, serverVars

\* The second invariant is inductive given the first.
LEMMA StepRInv == ASSUME IInv, RInv, ~TornWrites, [Next]_vars PROVE RInv'
<1>1. KnownIsSafe'
  BY KeepStep, LearnStep, StoredStays DEF RInv, KnownIsSafe, KeepsOnDisk, Learns
<1>2. QED
  BY <1>1, UntakenStep, NotIdleStep DEF RInv

-----------------------------------------------------------------------------
\* What a step may do to a notification.
Moves(m) ==
    /\ Buried(m)' => OnDisk(m)
    /\ pc[m] = "gone" /\ (\A r \in Runs : Unseen(r, m)) /\ OnDisk(m)' => OnDisk(m)
    /\ \/ pc'[m] = pc[m]
       \/ pc[m] = "new" /\ pc'[m] \in {"sending", "refused"} /\ stored' = stored
       \/ pc[m] \notin {"new", "refused", "over", "gone"} /\ pc'[m] \notin {"new", "refused", "gone"}

\* Every step but the end and the start of the process moves so.
LEMMA MovesStep ==
    ASSUME IInv, NotesAreNotIdle, [Next]_vars, ~Exit, ~Restart PROVE \A m \in Notes : Moves(m)
<1> USE DeliveryAssumption DEF IInv, Moves, NotesAreNotIdle, OnDisk, Buried, Unseen,
        Subject, Writing, TypeInv, TypeOK, Workers, workerVars, serverVars
<1>1. ASSUME NEW n \in Notes, Notify(n) PROVE \A m \in Notes : Moves(m)
  BY <1>1 DEF Notify, Step, Post
<1>2. ASSUME NEW n \in Notes, NotifySucceeds(n) PROVE \A m \in Notes : Moves(m)
  BY <1>2 DEF NotifySucceeds, Step, Answered
<1>3. ASSUME NEW n \in Notes, NotifyRefused(n) PROVE \A m \in Notes : Moves(m)
  BY <1>3 DEF NotifyRefused, Step, Answered
<1>4. ASSUME NEW n \in Notes, NotifyFails(n) PROVE \A m \in Notes : Moves(m)
  BY <1>4 DEF NotifyFails, Step, Fail, Abandon
<1>5. ASSUME NEW n \in Notes, NotifyAgain(n) PROVE \A m \in Notes : Moves(m)
  BY <1>5 DEF NotifyAgain, Step, Post
<1>6. ASSUME NEW n \in Notes, StoreBegin(n) PROVE \A m \in Notes : Moves(m)
  BY <1>6 DEF StoreBegin, Step
<1>7. ASSUME NEW n \in Notes, StoreEnd(n) PROVE \A m \in Notes : Moves(m)
  BY <1>7 DEF StoreEnd, Step
<1>8. ASSUME NEW n \in Notes, LateArrival(n) PROVE \A m \in Notes : Moves(m)
  BY <1>8 DEF LateArrival, Stores
<1>9. ASSUME NEW x \in Workers, MoveRead(x) PROVE \A m \in Notes : Moves(m)
  BY <1>9 DEF MoveRead, Step, Finish
<1>10. ASSUME NEW x \in Workers, BuryBegin(x) PROVE \A m \in Notes : Moves(m)
  BY <1>10 DEF BuryBegin, Step
<1>11. ASSUME NEW x \in Workers, BuryEnd(x) PROVE \A m \in Notes : Moves(m)
  BY <1>11 DEF BuryEnd, Step, Reason
<1>12. ASSUME NEW x \in Workers, Unlink(x) PROVE \A m \in Notes : Moves(m)
  BY <1>12 DEF Unlink, Step, Finish
<1>13. ASSUME NEW x \in Workers, ServerStores(x) PROVE \A m \in Notes : Moves(m)
  BY <1>13 DEF ServerStores, Stores
<1>14. ASSUME NEW x \in Workers, ServerRefuses(x) PROVE \A m \in Notes : Moves(m)
  BY <1>14 DEF ServerRefuses
<1>15. ASSUME NEW r \in Runs, RunStart(r) PROVE \A m \in Notes : Moves(m)
  BY <1>15 DEF RunStart, Step
<1>16. ASSUME NEW r \in Runs, ListRead(r) PROVE \A m \in Notes : Moves(m)
  BY <1>16 DEF ListRead, Step
<1>17. ASSUME NEW r \in Runs, ListDone(r) PROVE \A m \in Notes : Moves(m)
  BY <1>17 DEF ListDone, Step
<1>18. ASSUME NEW r \in Runs, Pick(r) PROVE \A m \in Notes : Moves(m)
  BY <1>18 DEF Pick, Step
<1>19. ASSUME NEW r \in Runs, RunEnd(r) PROVE \A m \in Notes : Moves(m)
  BY <1>19 DEF RunEnd, Step
<1>20. ASSUME NEW r \in Runs, UpdateRead(r) PROVE \A m \in Notes : Moves(m)
  BY <1>20 DEF UpdateRead, Step
<1>21. ASSUME NEW r \in Runs, UpdateBegin(r) PROVE \A m \in Notes : Moves(m)
  BY <1>21 DEF UpdateBegin, Step
<1>22. ASSUME NEW r \in Runs, UpdateEnd(r) PROVE \A m \in Notes : Moves(m)
  BY <1>22 DEF UpdateEnd, Step, Post
<1>23. ASSUME NEW r \in Runs, RetrySucceeds(r) PROVE \A m \in Notes : Moves(m)
  BY <1>23 DEF RetrySucceeds, Step, Answered
<1>24. ASSUME NEW r \in Runs, RetryRefused(r) PROVE \A m \in Notes : Moves(m)
  BY <1>24 DEF RetryRefused, Step, Answered
<1>25. ASSUME NEW r \in Runs, RetryFails(r) PROVE \A m \in Notes : Moves(m)
  BY <1>25 DEF RetryFails, Step, Fail, Abandon
<1>26. CASE Exit
  BY <1>26
<1>27. CASE Restart
  BY <1>27
<1>28. CASE UNCHANGED vars
  BY <1>28 DEF vars
<1> QED
  BY <1>1, <1>2, <1>3, <1>4, <1>5, <1>6, <1>7, <1>8, <1>9, <1>10, <1>11, <1>12, <1>13,
     <1>14, <1>15, <1>16, <1>17, <1>18, <1>19, <1>20, <1>21, <1>22, <1>23, <1>24, <1>25, <1>26,
     <1>27, <1>28
  DEF Next, NotifyStep, MoveStep, ServerStep, RetryStep

\* A worker is writing what keeps a notification.
Writes(x, m) == Subject(x) = m /\ pc[x] \in Writing \ {"storing", "storingDead"}

\* A step leaves a notification as it was.
Untouched(m) ==
    /\ pc'[m] = pc[m] /\ file'[m] = file[m] /\ dead'[m] = dead[m]
    /\ m \in stored' <=> m \in stored
    /\ \A x \in Workers : Writes(x, m)' <=> Writes(x, m)

\* Every step but the end of the process is about one notification.
LEMMA OneStep ==
    ASSUME IInv, Next, ~Exit, ~Restart
    PROVE  \E k \in Notes : \A m \in Notes : m # k => Untouched(m)
<1> DEFINE Only(k) == \A m \in Notes : m # k => Untouched(m)
<1> USE DeliveryAssumption DEF IInv, Untouched, Writes, Subject, Writing, TypeInv, TypeOK, Workers,
        workerVars, serverVars
<1>1. ASSUME NEW n \in Notes, Notify(n) PROVE Only(n)
  BY <1>1 DEF Notify, Step, Post
<1>2. ASSUME NEW n \in Notes, NotifySucceeds(n) PROVE Only(n)
  BY <1>2 DEF NotifySucceeds, Step, Answered
<1>3. ASSUME NEW n \in Notes, NotifyRefused(n) PROVE Only(n)
  BY <1>3 DEF NotifyRefused, Step, Answered
<1>4. ASSUME NEW n \in Notes, NotifyFails(n) PROVE Only(n)
  BY <1>4 DEF NotifyFails, Step, Fail, Abandon
<1>5. ASSUME NEW n \in Notes, NotifyAgain(n) PROVE Only(n)
  BY <1>5 DEF NotifyAgain, Step, Post
<1>6. ASSUME NEW n \in Notes, StoreBegin(n) PROVE Only(n)
  BY <1>6 DEF StoreBegin, Step
<1>7. ASSUME NEW n \in Notes, StoreEnd(n) PROVE Only(n)
  BY <1>7 DEF StoreEnd, Step
<1>8. ASSUME NEW n \in Notes, LateArrival(n) PROVE Only(n)
  BY <1>8 DEF LateArrival, Stores
<1>9. ASSUME NEW x \in Workers, MoveRead(x) PROVE Only(Subject(x))
  BY <1>9 DEF MoveRead, Step, Finish
<1>10. ASSUME NEW x \in Workers, BuryBegin(x) PROVE Only(Subject(x))
  BY <1>10 DEF BuryBegin, Step
<1>11. ASSUME NEW x \in Workers, BuryEnd(x) PROVE Only(Subject(x))
  BY <1>11 DEF BuryEnd, Step, Reason
<1>12. ASSUME NEW x \in Workers, Unlink(x) PROVE Only(Subject(x))
  BY <1>12 DEF Unlink, Step, Finish
<1>13. ASSUME NEW x \in Workers, ServerStores(x) PROVE Only(Subject(x))
  BY <1>13 DEF ServerStores, Stores
<1>14. ASSUME NEW x \in Workers, ServerRefuses(x) PROVE Only(Subject(x))
  BY <1>14 DEF ServerRefuses
<1>15. ASSUME NEW r \in Runs, RunStart(r) PROVE Only(on[r])
  BY <1>15 DEF RunStart, Step
<1>16. ASSUME NEW r \in Runs, ListRead(r) PROVE Only(on[r])
  BY <1>16 DEF ListRead, Step
<1>17. ASSUME NEW r \in Runs, ListDone(r) PROVE Only(on[r])
  BY <1>17 DEF ListDone, Step
<1>18. ASSUME NEW r \in Runs, Pick(r) PROVE Only(on[r])
  BY <1>18 DEF Pick, Step
<1>19. ASSUME NEW r \in Runs, RunEnd(r) PROVE Only(on[r])
  BY <1>19 DEF RunEnd, Step
<1>20. ASSUME NEW r \in Runs, UpdateRead(r) PROVE Only(on[r])
  BY <1>20 DEF UpdateRead, Step
<1>21. ASSUME NEW r \in Runs, UpdateBegin(r) PROVE Only(on[r])
  BY <1>21 DEF UpdateBegin, Step
<1>22. ASSUME NEW r \in Runs, UpdateEnd(r) PROVE Only(on[r])
  BY <1>22 DEF UpdateEnd, Step, Post
<1>23. ASSUME NEW r \in Runs, RetrySucceeds(r) PROVE Only(on[r])
  BY <1>23 DEF RetrySucceeds, Step, Answered
<1>24. ASSUME NEW r \in Runs, RetryRefused(r) PROVE Only(on[r])
  BY <1>24 DEF RetryRefused, Step, Answered
<1>25. ASSUME NEW r \in Runs, RetryFails(r) PROVE Only(on[r])
  BY <1>25 DEF RetryFails, Step, Fail, Abandon
<1>26. ~Exit /\ ~Restart
  OBVIOUS
<1>27. ASSUME NEW x \in Workers PROVE Subject(x) \in Notes
  OBVIOUS
<1> HIDE DEF Only
<1> HIDE DEF IInv, Untouched, Writes, Subject, Writing, TypeInv, TypeOK
<1>a. ASSUME NEW n \in Notes, Notify(n) \/ NotifyStep(n) \/ LateArrival(n) PROVE Only(n)
  BY <1>a, <1>1, <1>2, <1>3, <1>4, <1>5, <1>6, <1>7, <1>8 DEF NotifyStep
<1>b. ASSUME NEW x \in Workers, MoveStep(x) \/ ServerStep(x) PROVE Only(Subject(x))
  BY <1>b, <1>9, <1>10, <1>11, <1>12, <1>13, <1>14 DEF MoveStep, ServerStep
<1>c. ASSUME NEW r \in Runs, RetryStep(r) PROVE Only(on[r])
  BY <1>c, <1>15, <1>16, <1>17, <1>18, <1>19, <1>20, <1>21, <1>22, <1>23, <1>24, <1>25 DEF RetryStep
<1>d. \A r \in Runs : on[r] \in Notes
  BY DEF IInv, TypeInv, TypeOK
<1>e. \E k \in Notes : Only(k)
  BY <1>26, <1>27, <1>a, <1>b, <1>c, <1>d DEF Next
<1> QED BY <1>e DEF Only

\* The fate of a notification left as it was.
LEMMA UntouchedFate == ASSUME NEW m \in Notes, Untouched(m) PROVE Fate(m)' = Fate(m)
<1>1. OnDisk(m)' <=> OnDisk(m)
  BY DEF OnDisk, Untouched, Writes
<1>2. QED BY <1>1 DEF Fate, Untouched

-----------------------------------------------------------------------------
\* While the process does not run, requests may arrive and nothing else happens.
Silent == up \/ UNCHANGED <<pc, on, file, dead>>

\* Every step but the end and the start of the process is silent or has it run.
LEMMA SilentStep == ASSUME Next, ~Exit, ~Restart PROVE Silent /\ up' = up
<1> USE DEF Silent, workerVars
<1>1. ASSUME NEW n \in Notes, Notify(n) PROVE Silent /\ up' = up
  BY <1>1 DEF Notify, Step, Post
<1>2. ASSUME NEW n \in Notes, NotifySucceeds(n) PROVE Silent /\ up' = up
  BY <1>2 DEF NotifySucceeds, Step, Answered
<1>3. ASSUME NEW n \in Notes, NotifyRefused(n) PROVE Silent /\ up' = up
  BY <1>3 DEF NotifyRefused, Step, Answered
<1>4. ASSUME NEW n \in Notes, NotifyFails(n) PROVE Silent /\ up' = up
  BY <1>4 DEF NotifyFails, Step, Fail, Abandon
<1>5. ASSUME NEW n \in Notes, NotifyAgain(n) PROVE Silent /\ up' = up
  BY <1>5 DEF NotifyAgain, Step, Post
<1>6. ASSUME NEW n \in Notes, StoreBegin(n) PROVE Silent /\ up' = up
  BY <1>6 DEF StoreBegin, Step
<1>7. ASSUME NEW n \in Notes, StoreEnd(n) PROVE Silent /\ up' = up
  BY <1>7 DEF StoreEnd, Step
<1>8. ASSUME NEW n \in Notes, LateArrival(n) PROVE Silent /\ up' = up
  BY <1>8 DEF LateArrival, Stores
<1>9. ASSUME NEW x \in Workers, MoveRead(x) PROVE Silent /\ up' = up
  BY <1>9 DEF MoveRead, Step, Finish
<1>10. ASSUME NEW x \in Workers, BuryBegin(x) PROVE Silent /\ up' = up
  BY <1>10 DEF BuryBegin, Step
<1>11. ASSUME NEW x \in Workers, BuryEnd(x) PROVE Silent /\ up' = up
  BY <1>11 DEF BuryEnd, Step, Reason
<1>12. ASSUME NEW x \in Workers, Unlink(x) PROVE Silent /\ up' = up
  BY <1>12 DEF Unlink, Step, Finish
<1>13. ASSUME NEW x \in Workers, ServerStores(x) PROVE Silent /\ up' = up
  BY <1>13 DEF ServerStores, Stores
<1>14. ASSUME NEW x \in Workers, ServerRefuses(x) PROVE Silent /\ up' = up
  BY <1>14 DEF ServerRefuses
<1>15. ASSUME NEW r \in Runs, RunStart(r) PROVE Silent /\ up' = up
  BY <1>15 DEF RunStart, Step
<1>16. ASSUME NEW r \in Runs, ListRead(r) PROVE Silent /\ up' = up
  BY <1>16 DEF ListRead, Step
<1>17. ASSUME NEW r \in Runs, ListDone(r) PROVE Silent /\ up' = up
  BY <1>17 DEF ListDone, Step
<1>18. ASSUME NEW r \in Runs, Pick(r) PROVE Silent /\ up' = up
  BY <1>18 DEF Pick, Step
<1>19. ASSUME NEW r \in Runs, RunEnd(r) PROVE Silent /\ up' = up
  BY <1>19 DEF RunEnd, Step
<1>20. ASSUME NEW r \in Runs, UpdateRead(r) PROVE Silent /\ up' = up
  BY <1>20 DEF UpdateRead, Step
<1>21. ASSUME NEW r \in Runs, UpdateBegin(r) PROVE Silent /\ up' = up
  BY <1>21 DEF UpdateBegin, Step
<1>22. ASSUME NEW r \in Runs, UpdateEnd(r) PROVE Silent /\ up' = up
  BY <1>22 DEF UpdateEnd, Step, Post
<1>23. ASSUME NEW r \in Runs, RetrySucceeds(r) PROVE Silent /\ up' = up
  BY <1>23 DEF RetrySucceeds, Step, Answered
<1>24. ASSUME NEW r \in Runs, RetryRefused(r) PROVE Silent /\ up' = up
  BY <1>24 DEF RetryRefused, Step, Answered
<1>25. ASSUME NEW r \in Runs, RetryFails(r) PROVE Silent /\ up' = up
  BY <1>25 DEF RetryFails, Step, Fail, Abandon
<1>26. QED
  BY <1>1, <1>2, <1>3, <1>4, <1>5, <1>6, <1>7, <1>8, <1>9, <1>10, <1>11, <1>12, <1>13,
     <1>14, <1>15, <1>16, <1>17, <1>18, <1>19, <1>20, <1>21, <1>22, <1>23, <1>24, <1>25
  DEF Next, NotifyStep, MoveStep, ServerStep, RetryStep

\* The fate of a notification, by what determines it.
FateFacts(m) ==
    /\ Fate(m) \in {"new", "refused", "trying", "kept", "dead", "lost", "delivered"}
    /\ Fate(m) = "delivered" <=> m \in stored
    /\ Fate(m) = "dead" <=> m \notin stored /\ Buried(m)
    /\ Fate(m) = "kept" <=> m \notin stored /\ ~Buried(m) /\ OnDisk(m)
    /\ Fate(m) = "new" <=> m \notin stored /\ ~OnDisk(m) /\ pc[m] = "new"
    /\ Fate(m) = "refused" <=> m \notin stored /\ ~OnDisk(m) /\ pc[m] = "refused"
    /\ Fate(m) = "lost" <=> m \notin stored /\ ~OnDisk(m) /\ pc[m] \in {"over", "gone"}

\* The facts hold in every state of the types.
LEMMA FateIs == ASSUME TypeOK, NEW m \in Notes PROVE FateFacts(m)
<1>1. dead[m] \in {"none", "torn", "rejected", "exhausted"}
  BY DEF TypeOK
<1>2. Buried(m) => OnDisk(m)
  BY DEF Buried, OnDisk
<1>3. QED BY <1>1, <1>2 DEF FateFacts, Fate, Buried

\* They hold in the next state as well.
LEMMA FateIsNext == ASSUME TypeOK', NEW m \in Notes PROVE FateFacts(m)'
<1>1. dead'[m] \in {"none", "torn", "rejected", "exhausted"}
  BY DEF TypeOK
<1>2. Buried(m)' => OnDisk(m)'
  BY DEF Buried, OnDisk
<1>3. QED BY <1>1, <1>2 DEF FateFacts, Fate, Buried

\* The steps of a fate but for those the end of the process takes.
FateMoves == {<<"new", "trying">>, <<"new", "refused">>, <<"trying", "kept">>, <<"kept", "dead">>,
    <<"dead", "kept">>} \cup ({"trying", "kept", "dead", "lost"} \X {"delivered"})

\* Between the start and the end of the process a fate changes as the service promises.
LEMMA FateStep ==
    ASSUME IInv, IInv', RInv, RInv', ~TornWrites, [Next]_vars, ~Exit, ~Restart, NEW m \in Notes
    PROVE  Fate(m)' = Fate(m) \/ <<Fate(m), Fate(m)'>> \in FateMoves
<1>1. FateFacts(m) /\ FateFacts(m)'
  BY FateIs, FateIsNext DEF IInv, TypeInv
<1>2. Moves(m)
  BY MovesStep DEF RInv
<1>3. m \in stored => m \in stored'
  BY StoredStays
<1>4. OnDisk(m) => OnDisk(m)' \/ m \in stored'
  BY KeepStep DEF KeepsOnDisk
<1>5. pc[m] \in {"new", "refused"} => m \notin stored /\ ~OnDisk(m)
  BY DEF RInv, UntakenIsUnsent, OnDisk, Unseen, Absent, Writing, Subject, Workers
<1>6. pc'[m] \in {"new", "refused"} => m \notin stored' /\ ~OnDisk(m)'
  BY DEF RInv, UntakenIsUnsent, OnDisk, Unseen, Absent, Writing, Subject, Workers
<1>7. pc'[m] \in Early => ~OnDisk(m)'
  BY DEF IInv, EarlyIsUnseen, OnDisk, Unseen, Absent, Torn, Writing, Subject, Workers, Early
<1>8. pc'[m] = "over" => OnDisk(m)' \/ m \in stored'
  BY DEF RInv, KnownIsSafe, Known
<1>9. /\ pc[m] = "over" => OnDisk(m) \/ m \in stored
      /\ (\E r \in Runs : ~Unseen(r, m)) => OnDisk(m) \/ m \in stored
  BY DEF RInv, KnownIsSafe, Known
<1>0. Buried(m) => OnDisk(m)
  BY DEF Buried, OnDisk
<1>10. CASE Fate(m) \in {"delivered", "dead", "kept"}
  BY <1>0, <1>1, <1>3, <1>4, <1>10 DEF FateFacts, FateMoves
<1>11. CASE Fate(m) = "new"
  BY <1>1, <1>2, <1>5, <1>6, <1>7, <1>11 DEF FateFacts, FateMoves, Moves, Early
<1>12. CASE Fate(m) = "refused"
  BY <1>1, <1>2, <1>5, <1>6, <1>12 DEF FateFacts, FateMoves, Moves
<1>13. CASE Fate(m) = "lost"
  BY <1>1, <1>2, <1>9, <1>13 DEF FateFacts, FateMoves, Moves
<1>14. CASE Fate(m) = "trying"
  BY <1>1, <1>2, <1>8, <1>14 DEF FateFacts, FateMoves, Moves
<1>15. QED BY <1>1, <1>10, <1>11, <1>12, <1>13, <1>14 DEF FateFacts

\* While the process does not run, a notification may still be delivered.
LEMMA SilentFate ==
    ASSUME Next, ~Exit, ~Restart, IInv, IInv', NEW m \in Notes
    PROVE  up \/ Fate(m)' \in {Fate(m), "delivered"}
<1>1. ASSUME UNCHANGED <<pc, on, file, dead>> PROVE Fate(m)' \in {Fate(m), "delivered"}
  <2>1. FateFacts(m) /\ FateFacts(m)'
    BY FateIs, FateIsNext DEF IInv, TypeInv
  <2>2. OnDisk(m)' <=> OnDisk(m)
    BY <1>1 DEF OnDisk, Subject
  <2>3. Buried(m)' <=> Buried(m)
    BY <1>1 DEF Buried
  <2>4. m \in stored => m \in stored'
    BY StoredStays
  <2>5. QED BY <1>1, <2>1, <2>2, <2>3, <2>4 DEF FateFacts
<1>2. QED BY <1>1, SilentStep DEF Silent

\* The end of the process takes the first deliveries with it, and nothing else.
LEMMA ExitFate ==
    ASSUME IInv, IInv', RInv, ~TornWrites, Exit, NEW m \in Notes
    PROVE  Fate(m)' = IF Fate(m) = "trying" THEN "lost" ELSE Fate(m)
<1>1. FateFacts(m) /\ FateFacts(m)'
  BY FateIs, FateIsNext DEF IInv, TypeInv
<1>2. UNCHANGED <<stored, file, dead, on>>
  BY DEF Exit, serverVars
<1>3. pc'[m] = IF pc[m] \in Idle THEN pc[m] ELSE "gone"
  BY DEF Exit, Workers
<1>4. \A x \in Workers : pc[x] \notin Writing /\ pc'[x] \notin Writing
  BY DEF Exit, Workers, Writing, Idle
<1>5. OnDisk(m)' <=> OnDisk(m)
  BY <1>2, <1>4 DEF OnDisk
<1>6. pc[m] # "idle"
  BY DEF RInv, NotesAreNotIdle
<1>7. QED BY <1>1, <1>2, <1>3, <1>5, <1>6 DEF FateFacts, Idle, Buried

fates == [m \in Notes |-> Fate(m)]

\* A change of one fate, as the service writes it.
LEMMA MoveOf ==
    ASSUME NEW k \in Notes, \A m \in Notes : m # k => Fate(m)' = Fate(m)
    PROVE  Service!Move(k, Fate(k), Fate(k)')
<1>1. fates' = [fates EXCEPT ![k] = Fate(k)']
  BY DEF fates
<1>2. fates[k] = Fate(k)
  BY DEF fates
<1>3. QED BY <1>1, <1>2 DEF Service!Move, fates

\* The client keeps its promise but for when it does: a notification is delivered, set
\* aside or, if the process ends during its first delivery, lost, and what has reached
\* the disk is not lost.
THEOREM ClientImplementsDeliveryService == ASSUME ~TornWrites PROVE Spec => Service!SafeSpec
<1> USE DeliveryAssumption
<1>1. Init => Service!Init
  <2> SUFFICES ASSUME Init PROVE Service!Init
    OBVIOUS
  <2>1. \A m \in Notes : pc[m] = "new"
    BY DEF Init, Workers
  <2>2. \A m \in Notes : m \notin stored /\ ~OnDisk(m)
    BY <2>1, InitRInv DEF RInv, UntakenIsUnsent, OnDisk, Unseen, Absent, Writing, Subject, Workers
  <2>3. \A m \in Notes : Fate(m) = "new"
    BY <2>1, <2>2, InitIInv, FateIs DEF FateFacts, IInv, TypeInv
  <2>4. QED BY <2>3 DEF Service!Init, Init
<1>2. IInv /\ IInv' /\ RInv /\ RInv' /\ [Next]_vars
        => [Service!Next]_<<[n \in Notes |-> Fate(n)], up>>
  <2> SUFFICES ASSUME IInv, IInv', RInv, RInv', [Next]_vars
               PROVE  Service!Next \/ UNCHANGED <<fates, up>>
    BY DEF fates
  <2>1. CASE Exit
    <3>1. \A m \in Notes : Fate(m)' = IF Fate(m) = "trying" THEN "lost" ELSE Fate(m)
      BY <2>1, ExitFate
    <3>2. up /\ up' = FALSE
      BY <2>1, Zenon DEF Exit
    <3>3. fates' = [m \in Notes |-> IF fates[m] = "trying" THEN "lost" ELSE fates[m]]
      BY <3>1 DEF fates
    <3>4. QED BY <3>2, <3>3 DEF Service!Next, Service!Exit, fates
  <2>2. CASE Restart
    <3>1. \A m \in Notes : Fate(m)' = Fate(m)
      BY <2>2, UntouchedFate DEF Restart, Untouched, Writes, Subject, workerVars, serverVars
    <3>2. fates' = fates
      BY <3>1 DEF fates
    <3>3. ~up /\ up' = TRUE
      BY <2>2, Zenon DEF Restart
    <3>4. QED BY <3>2, <3>3 DEF Service!Next, Service!Start, fates
  <2>3. CASE UNCHANGED vars
    <3>1. \A m \in Notes : Fate(m)' = Fate(m)
      BY <2>3, UntouchedFate DEF vars, Untouched, Writes, Subject, workerVars, serverVars
    <3>2. fates' = fates /\ up' = up
      BY <2>3, <3>1 DEF fates, vars
    <3>3. QED BY <3>2
  <2>4. CASE Next /\ ~Exit /\ ~Restart
    <3>1. up' = up /\ Silent
      BY <2>4, SilentStep
    <3>2. PICK k \in Notes : \A m \in Notes : m # k => Untouched(m)
      BY <2>4, OneStep
    <3>3. \A m \in Notes : m # k => Fate(m)' = Fate(m)
      BY <3>2, UntouchedFate
    <3>4. Service!Move(k, Fate(k), Fate(k)')
      BY <3>3, MoveOf
    <3>5. Fate(k)' = Fate(k) \/ <<Fate(k), Fate(k)'>> \in FateMoves
      BY <2>4, FateStep
    <3>6. CASE Fate(k)' = Fate(k)
      <4>1. fates' = fates
        BY <3>3, <3>6 DEF fates
      <4>2. QED BY <3>1, <4>1
    <3>7. CASE <<Fate(k), Fate(k)'>> \in FateMoves
      <4>1. up \/ Fate(k)' \in {Fate(k), "delivered"}
        BY <2>4, SilentFate
      <4>2. Service!Take(k) \/ Service!Keep(k) \/ Service!Bury(k) \/ Service!Exhume(k)
              \/ Service!Deliver(k)
        BY <3>1, <3>4, <3>7, <4>1 DEF FateMoves, Service!Take, Service!Keep, Service!Bury,
           Service!Exhume, Service!Deliver
      <4>3. QED BY <4>2 DEF Service!Next
    <3>8. QED BY <3>5, <3>6, <3>7
  <2>5. QED BY <2>1, <2>2, <2>3, <2>4
<1>3. IInv /\ RInv /\ [Next]_vars => RInv'
  BY StepRInv
<1>4. Spec => [](IInv /\ RInv)
  BY InitIInv, StepIInv, InitRInv, <1>3, PTL DEF Spec
<1>5. QED BY <1>1, <1>2, <1>4, PTL DEF Spec, Service!SafeSpec

-----------------------------------------------------------------------------
(* The limit on the retries of a notification, for one or two retry runs     *)
(* that overlap.                                                             *)

\* The highest count two runs can write.
Limit == MaxPendingRetries + Cardinality(Runs) - 1

\* A run may yet raise the count of n: it has listed it with one below the limit.
Armed(r, n) ==
    \/ \E item \in todo[r] : item[1] = n /\ item[2] < MaxPendingRetries
    \/ pc[r] = "update" /\ on[r] = n

\* A run has read the count of n and will write one more.
Pending(r, n) == pc[r] \in {"updateWrite", "updating"} /\ on[r] = n

\* A run meets a notification once.
MeetsOnce(r) ==
    /\ \A a, b \in todo[r] : a[1] = b[1] => a = b
    /\ \A a \in todo[r] : a[1] \notin unread[r]
    /\ pc[r] = "idle" => todo[r] = {}
    /\ pc[r] # "listing" => unread[r] = {}
    /\ pc[r] \notin {"idle", "listing", "next"} => \A a \in todo[r] : a[1] # on[r]

\* What the runs may yet write is within the limit: each that may still raise the
\* count leaves one below it, and the highest is written by a run that is alone.
Bounded(n) ==
    /\ file[n] <= Limit
    /\ \A r \in Runs : Armed(r, n) => file[n] <= Limit - 1
    /\ \A r \in Runs : Pending(r, n) => held[r] <= Limit - 1
    /\ \A r, q \in Runs : r # q =>
        /\ Armed(r, n) /\ Armed(q, n) => file[n] <= Limit - 2
        /\ Pending(r, n) /\ Armed(q, n) => held[r] <= Limit - 2 /\ file[n] <= Limit - 2
        /\ Pending(r, n) /\ Pending(q, n) => held[r] <= Limit - 2
        /\ Pending(r, n) /\ held[r] = Limit - 1 => file[n] \notin 0..(Limit - 2)

LimitInv ==
    /\ \A r \in Runs : MeetsOnce(r)
    /\ \A n \in Notes : Bounded(n)

\* One or two runs, which are not three.
FewRuns == IsFiniteSet(Runs) /\ Cardinality(Runs) <= 2

-----------------------------------------------------------------------------
\* The limit is a number, and which one it is with one run and with two.
LEMMA LimitType ==
    ASSUME FewRuns
    PROVE  /\ Limit \in Int /\ MaxPendingRetries \in Nat \ {0}
           /\ Limit >= MaxPendingRetries - 1
           /\ \A r \in Runs : Limit >= MaxPendingRetries
           /\ \A r, q \in Runs : r # q => Limit = MaxPendingRetries + 1
           /\ \A r, q, p \in Runs : r = q \/ r = p \/ q = p
<1> USE DeliveryAssumption
<1>1. Cardinality(Runs) \in Nat /\ Cardinality(Runs) <= 2
  BY FS_CardinalityType DEF FewRuns
<1>2. ASSUME NEW S \in SUBSET Runs PROVE IsFiniteSet(S) /\ Cardinality(S) <= Cardinality(Runs)
  BY FS_Subset DEF FewRuns
<1>3. \A r : IsFiniteSet({r}) /\ Cardinality({r}) = 1
  BY FS_Singleton
<1>4. \A r, q : r # q => IsFiniteSet({r} \cup {q}) /\ Cardinality({r} \cup {q}) = 2
  <2> TAKE r, q
  <2> HAVE r # q
  <2>1. IsFiniteSet({r}) /\ Cardinality({r}) = 1 /\ q \notin {r}
    BY <1>3
  <2>2. QED BY <2>1, FS_AddElement
<1>5. \A r, q, p : r # q /\ r # p /\ q # p => Cardinality({r} \cup {q} \cup {p}) = 3
  <2> TAKE r, q, p
  <2> HAVE r # q /\ r # p /\ q # p
  <2>1. IsFiniteSet({r} \cup {q}) /\ Cardinality({r} \cup {q}) = 2 /\ p \notin {r} \cup {q}
    BY <1>4
  <2> DEFINE pair == {r} \cup {q}
  <2> HIDE DEF pair
  <2>2. IsFiniteSet(pair) /\ Cardinality(pair) = 2 /\ p \notin pair
    BY <2>1 DEF pair
  <2>3. Cardinality(pair \cup {p}) = Cardinality(pair) + 1
    BY <2>2, FS_AddElement
  <2>4. QED BY <2>2, <2>3 DEF pair
<1>6. \A r \in Runs : Cardinality(Runs) >= 1
  <2> TAKE r \in Runs
  <2>1. {r} \subseteq Runs
    OBVIOUS
  <2>2. Cardinality({r}) <= Cardinality(Runs)
    BY <1>2, <2>1
  <2>3. Cardinality({r}) = 1
    BY <1>3
  <2>4. QED BY <1>1, <2>2, <2>3
<1>7. \A r, q \in Runs : r # q => Cardinality(Runs) = 2
  <2> TAKE r, q \in Runs
  <2> HAVE r # q
  <2>1. {r} \cup {q} \subseteq Runs
    OBVIOUS
  <2>2. Cardinality({r} \cup {q}) <= Cardinality(Runs)
    BY <1>2, <2>1
  <2>3. Cardinality({r} \cup {q}) = 2
    BY <1>4
  <2>4. QED BY <1>1, <2>2, <2>3
<1>8. \A r, q, p \in Runs : r = q \/ r = p \/ q = p
  <2> TAKE r, q, p \in Runs
  <2>1. {r} \cup {q} \cup {p} \subseteq Runs
    OBVIOUS
  <2>2. Cardinality({r} \cup {q} \cup {p}) <= Cardinality(Runs)
    BY <1>2, <2>1
  <2>3. r # q /\ r # p /\ q # p => Cardinality({r} \cup {q} \cup {p}) = 3
    BY <1>5
  <2>4. QED BY <1>1, <2>2, <2>3
<1>9. QED BY <1>1, <1>6, <1>7, <1>8 DEF Limit

\* Nothing is listed at first.
LEMMA LimitInit == ASSUME FewRuns, Init PROVE LimitInv
<1>1. \A r \in Runs : MeetsOnce(r)
  BY DEF Init, MeetsOnce, Workers
<1>2. \A r \in Runs, n \in Notes : ~Armed(r, n) /\ ~Pending(r, n)
  BY DeliveryAssumption DEF Init, Armed, Pending, Workers
<1>3. \A n \in Notes : Bounded(n)
  BY <1>2, LimitType DEF Init, Bounded, Absent
<1>4. QED BY <1>1, <1>3 DEF LimitInv

-----------------------------------------------------------------------------
\* No run comes to know of n or to write it, and its file stays or goes.
Calm(n) ==
    /\ \A r \in Runs : /\ Armed(r, n)' => Armed(r, n)
                       /\ Pending(r, n)' => Pending(r, n) /\ held'[r] = held[r]
    /\ file'[n] = file[n] \/ file'[n] \in {Absent, Torn}

\* A calm step keeps the bounds.
LEMMA CalmKeeps ==
    ASSUME FewRuns, IInv, NEW n \in Notes, Bounded(n), Calm(n) PROVE Bounded(n)'
<1> USE LimitType
<1>1. Limit' = Limit
  BY DEF Limit
<1>2. file[n] \in Nat \cup {-1, -2} /\ \A r \in Runs : held[r] \in Nat
  BY DEF IInv, TypeInv, TypeOK, Absent, Torn
<1>3. CASE file'[n] = file[n]
  BY <1>1, <1>2, <1>3 DEF Bounded, Calm
<1>4. CASE file'[n] \in {-1, -2}
  <2>1. file'[n] <= Limit
    BY <1>4
  <2>2. \A r \in Runs : file'[n] <= Limit - 1
    BY <1>4
  <2>3. \A r, q \in Runs : r # q => file'[n] <= Limit - 2 /\ file'[n] \notin 0..(Limit - 2)
    BY <1>4
  <2>4. QED BY <1>1, <1>2, <2>1, <2>2, <2>3 DEF Bounded, Calm
<1>5. QED BY <1>3, <1>4 DEF Calm, Absent, Torn

\* list() reads the count: a run that has read one below the limit is armed.
LEMMA ListKeeps ==
    ASSUME FewRuns, IInv, LimitInv, NEW r \in Runs, ListRead(r), NEW n \in Notes
    PROVE  Bounded(n)'
<1> USE LimitType
<1>1. Limit' = Limit /\ UNCHANGED <<file, held, on>> /\ pc[r] = "listing" /\ pc' = pc
  BY DEF Limit, ListRead, Step, IInv, TypeInv, TypeOK
<1>2. PICK m \in unread[r] :
         todo' = [todo EXCEPT ![r] = IF file[m] >= 0 THEN @ \cup {<<m, file[m]>>} ELSE @]
  BY DEF ListRead
<1>3. file[n] \in Nat \cup {-1, -2} /\ \A q \in Runs : held[q] \in Nat
  BY DEF IInv, TypeInv, TypeOK, Absent, Torn
<1>4. todo \in [Runs -> SUBSET (Notes \X Nat)]
  BY DEF IInv, TypeInv, TypeOK
<1>5. \A q \in Runs : Pending(q, n)' = Pending(q, n)
  BY <1>1 DEF Pending
<1>6. ~Pending(r, n)
  BY <1>1 DEF Pending
<1>7. \A q \in Runs : q # r => Armed(q, n)' = Armed(q, n)
  BY <1>1, <1>2, <1>4 DEF Armed
<1>8. Armed(r, n)' => Armed(r, n) \/ file[n] \in 0..(MaxPendingRetries - 1)
  <2> SUFFICES ASSUME Armed(r, n)', ~Armed(r, n)
               PROVE  file[n] \in 0..(MaxPendingRetries - 1)
    OBVIOUS
  <2>1. PICK item \in todo'[r] : item[1] = n /\ item[2] < MaxPendingRetries
    BY <1>1 DEF Armed
  <2>2. item \notin todo[r]
    BY <2>1 DEF Armed
  <2>3. item = <<m, file[m]>> /\ file[m] >= 0
    BY <1>2, <1>4, <2>1, <2>2
  <2>4. QED BY <1>3, <2>1, <2>3
<1>9. Bounded(n)
  BY DEF LimitInv
<1>10. CASE Armed(r, n)' => Armed(r, n)
  <2>1. Calm(n)
    BY <1>1, <1>5, <1>7, <1>10 DEF Calm
  <2>2. QED BY <1>9, <2>1, CalmKeeps
<1>11. CASE file[n] \in 0..(MaxPendingRetries - 1)
  <2>1. file[n] <= Limit - 1
    BY <1>11
  <2>2. \A q, p \in Runs : q # p => file[n] <= Limit - 2 /\ file[n] \in 0..(Limit - 2)
    BY <1>11
  <2>3. \A q, p \in Runs : q # p /\ Pending(q, n) => held[q] <= Limit - 2
    BY <1>3, <1>9, <2>2 DEF Bounded
  <2>4. QED BY <1>1, <1>3, <1>5, <1>9, <2>1, <2>2, <2>3 DEF Bounded
<1>12. QED BY <1>8, <1>10, <1>11

\* updateAttempt reads: a run that was armed has a count to write.
LEMMA ReadKeeps ==
    ASSUME FewRuns, IInv, LimitInv, NEW r \in Runs, UpdateRead(r), NEW n \in Notes
    PROVE  Bounded(n)'
<1> USE LimitType
<1>1. /\ Limit' = Limit /\ UNCHANGED <<file, on, todo>>
      /\ pc[r] = "update" /\ pc'[r] \in {"updateWrite", "next"}
      /\ \A q \in Runs : q # r => pc'[q] = pc[q] /\ held'[q] = held[q]
  BY DEF Limit, UpdateRead, Step, IInv, TypeInv, TypeOK, Workers
<1>2. file[n] \in Nat \cup {-1, -2} /\ \A q \in Runs : held[q] \in Nat
  BY DEF IInv, TypeInv, TypeOK, Absent, Torn
<1>3. Bounded(n)
  BY DEF LimitInv
<1>4. \A q \in Runs : q # r => Armed(q, n)' = Armed(q, n) /\ Pending(q, n)' = Pending(q, n)
  BY <1>1 DEF Armed, Pending
<1>5. Armed(r, n)' => Armed(r, n)
  BY <1>1 DEF Armed
<1>6. CASE ~Pending(r, n)'
  <2>1. Calm(n)
    BY <1>1, <1>4, <1>5, <1>6 DEF Calm
  <2>2. QED BY <1>3, <2>1, CalmKeeps
<1>7. CASE Pending(r, n)'
  <2>1. on[r] = n /\ pc'[r] = "updateWrite"
    BY <1>1, <1>7 DEF Pending
  <2>2. held'[r] = file[n] /\ file[n] >= 0
    BY <2>1 DEF UpdateRead, Step, IInv, TypeInv, TypeOK, Workers
  <2>3. Armed(r, n) /\ ~Armed(r, n)'
    BY <1>1, <2>1 DEF Armed, LimitInv, MeetsOnce
  <2>4. file[n] <= Limit - 1
    BY <1>3, <2>3 DEF Bounded
  <2>5. \A q \in Runs : q # r /\ Armed(q, n) => file[n] <= Limit - 2
    BY <1>3, <2>3 DEF Bounded
  <2>6. \A q \in Runs : q # r /\ Pending(q, n) => held[q] <= Limit - 2 /\ file[n] <= Limit - 2
    BY <1>3, <2>3 DEF Bounded
  <2>7. \A q \in Runs : q # r => (held'[r] = Limit - 1 => file[n] \notin 0..(Limit - 2))
    BY <1>2, <2>2
  <2>8. QED BY <1>1, <1>2, <1>3, <1>4, <2>2, <2>3, <2>4, <2>5, <2>6, <2>7 DEF Bounded
<1>8. QED BY <1>6, <1>7

\* updateAttempt writes: what it writes leaves room for those still armed.
LEMMA WriteKeeps ==
    ASSUME FewRuns, IInv, LimitInv, NEW r \in Runs, UpdateEnd(r), NEW n \in Notes
    PROVE  Bounded(n)'
<1> USE LimitType
<1>1. /\ Limit' = Limit /\ UNCHANGED <<on, todo>>
      /\ pc[r] = "updating" /\ pc'[r] = "sending"
      /\ \A q \in Runs : q # r => pc'[q] = pc[q] /\ held'[q] = held[q]
      /\ file' = [file EXCEPT ![on[r]] = held[r] + 1]
  BY DEF Limit, UpdateEnd, Step, IInv, TypeInv, TypeOK, Workers
<1>2. file[n] \in Nat \cup {-1, -2} /\ \A q \in Runs : held[q] \in Nat
  BY DEF IInv, TypeInv, TypeOK, Absent, Torn
<1>3. Bounded(n) /\ on[r] \in Notes /\ file \in [Notes -> Nat \cup {Absent, Torn}]
  BY DEF LimitInv, IInv, TypeInv, TypeOK
<1>4. \A q \in Runs : q # r => Armed(q, n)' = Armed(q, n) /\ Pending(q, n)' = Pending(q, n)
  BY <1>1 DEF Armed, Pending
<1>5. ~Pending(r, n)'
  BY <1>1 DEF Pending
<1>6. Armed(r, n)' => Armed(r, n)
  BY <1>1 DEF Armed
<1>7. CASE on[r] # n
  <2>1. Calm(n)
    BY <1>1, <1>3, <1>4, <1>5, <1>6, <1>7 DEF Calm
  <2>2. QED BY <1>3, <2>1, CalmKeeps
<1>8. CASE on[r] = n
  <2>1. Pending(r, n) /\ ~Armed(r, n)'
    BY <1>1, <1>8 DEF Pending, Armed, LimitInv, MeetsOnce
  <2>2. file'[n] = held[r] + 1
    BY <1>1, <1>3, <1>8
  <2>3. file'[n] <= Limit
    BY <1>2, <1>3, <2>1, <2>2 DEF Bounded
  <2>4. \A q \in Runs : q # r /\ Armed(q, n) => file'[n] <= Limit - 1
    BY <1>2, <1>3, <2>1, <2>2 DEF Bounded
  <2>5. \A q \in Runs : q # r /\ Pending(q, n) => held[q] <= Limit - 2
    BY <1>3, <2>1 DEF Bounded
  <2>6. \A q, p \in Runs : q = r \/ p = r \/ q = p
    OBVIOUS
  <2>7. \A q \in Runs : Armed(q, n)' => file'[n] <= Limit - 1
    BY <1>4, <2>1, <2>4
  <2>8. \A q \in Runs : Pending(q, n)' => held'[q] <= Limit - 2
    BY <1>1, <1>4, <1>5, <2>5
  <2>9. \A q \in Runs : Pending(q, n)' => held'[q] <= Limit - 1 /\ held'[q] # Limit - 1
    <3> TAKE q \in Runs
    <3> HAVE Pending(q, n)'
    <3>1. q # r /\ held'[q] = held[q] /\ held'[q] <= Limit - 2 /\ held[q] \in Nat
      BY <1>1, <1>2, <1>5, <2>8
    <3>2. QED BY <3>1
  <2>10. ASSUME NEW q \in Runs, NEW p \in Runs, q # p
         PROVE  /\ ~(Armed(q, n)' /\ Armed(p, n)') /\ ~(Pending(q, n)' /\ Armed(p, n)')
                /\ ~(Pending(q, n)' /\ Pending(p, n)')
    BY <1>5, <2>1, <2>6, <2>10
  <2>11. QED BY <1>1, <2>3, <2>7, <2>9, <2>10 DEF Bounded
<1>9. QED BY <1>7, <1>8

\* store() writes a notification no run knows of.
LEMMA StoreKeeps ==
    ASSUME FewRuns, IInv, LimitInv, NEW m \in Notes, StoreEnd(m), NEW n \in Notes
    PROVE  Bounded(n)'
<1> USE LimitType
<1>1. /\ Limit' = Limit /\ UNCHANGED <<on, todo, held>> /\ file' = [file EXCEPT ![m] = 0]
      /\ pc[m] \in {"storing", "storingDead"} /\ \A r \in Runs : pc'[r] = pc[r]
  BY DeliveryAssumption DEF Limit, StoreEnd, Step, workerVars, IInv, TypeInv, TypeOK, Workers
<1>2. file \in [Notes -> Nat \cup {Absent, Torn}] /\ Bounded(n)
  BY DEF LimitInv, IInv, TypeInv, TypeOK
<1>3. \A r \in Runs : Armed(r, n)' = Armed(r, n) /\ Pending(r, n)' = Pending(r, n)
  BY <1>1 DEF Armed, Pending
<1>4. CASE m # n
  <2>1. Calm(n)
    BY <1>1, <1>2, <1>3, <1>4 DEF Calm
  <2>2. QED BY <1>2, <2>1, CalmKeeps
<1>5. CASE m = n
  <2>1. \A r \in Runs : Unseen(r, n)
    BY <1>1, <1>5 DEF IInv, EarlyIsUnseen, Early
  <2>2. \A r \in Runs : ~Armed(r, n) /\ ~Pending(r, n)
    BY <2>1 DEF Unseen, Armed, Pending
  <2>3. file'[n] = 0
    BY <1>1, <1>2, <1>5
  <2>4. QED BY <1>1, <1>3, <2>2, <2>3 DEF Bounded
<1>6. QED BY <1>4, <1>5

-----------------------------------------------------------------------------
\* A run that begins has nothing listed, and one that lists takes each name once.
LEMMA MeetsStep ==
    ASSUME IInv, \A r \in Runs : MeetsOnce(r), [Next]_vars, NEW q \in Runs PROVE MeetsOnce(q)'
<1> USE DeliveryAssumption DEF IInv, TypeInv, TypeOK, Workers, workerVars, MeetsOnce
<1>1. ASSUME NEW n \in Notes, Notify(n) PROVE MeetsOnce(q)'
  BY <1>1 DEF Notify, Step, Post
<1>2. ASSUME NEW n \in Notes, NotifySucceeds(n) PROVE MeetsOnce(q)'
  BY <1>2 DEF NotifySucceeds, Step, Answered
<1>3. ASSUME NEW n \in Notes, NotifyRefused(n) PROVE MeetsOnce(q)'
  BY <1>3 DEF NotifyRefused, Step, Answered
<1>4. ASSUME NEW n \in Notes, NotifyFails(n) PROVE MeetsOnce(q)'
  BY <1>4 DEF NotifyFails, Step, Fail, Abandon
<1>5. ASSUME NEW n \in Notes, NotifyAgain(n) PROVE MeetsOnce(q)'
  BY <1>5 DEF NotifyAgain, Step, Post
<1>6. ASSUME NEW n \in Notes, StoreBegin(n) PROVE MeetsOnce(q)'
  BY <1>6 DEF StoreBegin, Step
<1>7. ASSUME NEW n \in Notes, StoreEnd(n) PROVE MeetsOnce(q)'
  BY <1>7 DEF StoreEnd, Step
<1>8. ASSUME NEW n \in Notes, LateArrival(n) PROVE MeetsOnce(q)'
  BY <1>8 DEF LateArrival, Stores
<1>9. ASSUME NEW x \in Workers, MoveRead(x) PROVE MeetsOnce(q)'
  BY <1>9 DEF MoveRead, Step, Finish
<1>10. ASSUME NEW x \in Workers, BuryBegin(x) PROVE MeetsOnce(q)'
  BY <1>10 DEF BuryBegin, Step
<1>11. ASSUME NEW x \in Workers, BuryEnd(x) PROVE MeetsOnce(q)'
  BY <1>11 DEF BuryEnd, Step
<1>12. ASSUME NEW x \in Workers, Unlink(x) PROVE MeetsOnce(q)'
  BY <1>12 DEF Unlink, Step, Finish
<1>13. ASSUME NEW x \in Workers, ServerStores(x) PROVE MeetsOnce(q)'
  BY <1>13 DEF ServerStores, Stores
<1>14. ASSUME NEW x \in Workers, ServerRefuses(x) PROVE MeetsOnce(q)'
  BY <1>14 DEF ServerRefuses
<1>15. ASSUME NEW r \in Runs, RunStart(r) PROVE MeetsOnce(q)'
  BY <1>15 DEF RunStart, Step
<1>16. ASSUME NEW r \in Runs, ListRead(r) PROVE MeetsOnce(q)'
  BY <1>16 DEF ListRead, Step
<1>17. ASSUME NEW r \in Runs, ListDone(r) PROVE MeetsOnce(q)'
  BY <1>17 DEF ListDone, Step
<1>18. ASSUME NEW r \in Runs, Pick(r) PROVE MeetsOnce(q)'
  BY <1>18 DEF Pick, Step
<1>19. ASSUME NEW r \in Runs, RunEnd(r) PROVE MeetsOnce(q)'
  BY <1>19 DEF RunEnd, Step
<1>20. ASSUME NEW r \in Runs, UpdateRead(r) PROVE MeetsOnce(q)'
  BY <1>20 DEF UpdateRead, Step
<1>21. ASSUME NEW r \in Runs, UpdateBegin(r) PROVE MeetsOnce(q)'
  BY <1>21 DEF UpdateBegin, Step
<1>22. ASSUME NEW r \in Runs, UpdateEnd(r) PROVE MeetsOnce(q)'
  BY <1>22 DEF UpdateEnd, Step, Post
<1>23. ASSUME NEW r \in Runs, RetrySucceeds(r) PROVE MeetsOnce(q)'
  BY <1>23 DEF RetrySucceeds, Step, Answered
<1>24. ASSUME NEW r \in Runs, RetryRefused(r) PROVE MeetsOnce(q)'
  BY <1>24 DEF RetryRefused, Step, Answered
<1>25. ASSUME NEW r \in Runs, RetryFails(r) PROVE MeetsOnce(q)'
  BY <1>25 DEF RetryFails, Step, Fail, Abandon
<1>26. CASE Exit
  BY <1>26 DEF Exit, Abandon
<1>27. CASE Restart
  BY <1>27 DEF Restart
<1>28. CASE UNCHANGED vars
  BY <1>28 DEF vars, serverVars
<1> QED
  BY <1>1, <1>2, <1>3, <1>4, <1>5, <1>6, <1>7, <1>8, <1>9, <1>10, <1>11, <1>12,
     <1>13, <1>14, <1>15, <1>16, <1>17, <1>18, <1>19, <1>20, <1>21, <1>22, <1>23, <1>24,
     <1>25, <1>26, <1>27, <1>28
  DEF Next, NotifyStep, MoveStep, ServerStep, RetryStep

\* Every step but the four above is calm.
LEMMA LimitStep == ASSUME FewRuns, IInv, LimitInv, [Next]_vars PROVE LimitInv'
<1>1. \A r \in Runs : MeetsOnce(r)'
  BY MeetsStep DEF LimitInv
<1>2. ASSUME NEW n \in Notes PROVE Bounded(n)'
  <2> SUFFICES ASSUME \A r \in Runs : ~ListRead(r) /\ ~UpdateRead(r) /\ ~UpdateEnd(r),
                      \A m \in Notes : ~StoreEnd(m)
               PROVE  Calm(n)
    BY <1>2, ListKeeps, ReadKeeps, WriteKeeps, StoreKeeps, CalmKeeps DEF LimitInv
  <2> USE DeliveryAssumption DEF IInv, TypeInv, TypeOK, Workers, workerVars, Calm, Armed, Pending
  <2>1. ASSUME NEW m \in Notes, Notify(m) PROVE Calm(n)
    BY <2>1 DEF Notify, Step, Post
  <2>2. ASSUME NEW m \in Notes, NotifySucceeds(m) PROVE Calm(n)
    BY <2>2 DEF NotifySucceeds, Step, Answered
  <2>3. ASSUME NEW m \in Notes, NotifyRefused(m) PROVE Calm(n)
    BY <2>3 DEF NotifyRefused, Step, Answered
  <2>4. ASSUME NEW m \in Notes, NotifyFails(m) PROVE Calm(n)
    BY <2>4 DEF NotifyFails, Step, Fail, Abandon
  <2>5. ASSUME NEW m \in Notes, NotifyAgain(m) PROVE Calm(n)
    BY <2>5 DEF NotifyAgain, Step, Post
  <2>6. ASSUME NEW m \in Notes, StoreBegin(m) PROVE Calm(n)
    BY <2>6 DEF StoreBegin, Step, Torn
  <2>7. ASSUME NEW m \in Notes, LateArrival(m) PROVE Calm(n)
    BY <2>7 DEF LateArrival, Stores
  <2>8. ASSUME NEW x \in Workers, MoveRead(x) PROVE Calm(n)
    BY <2>8 DEF MoveRead, Step, Finish
  <2>9. ASSUME NEW x \in Workers, BuryBegin(x) PROVE Calm(n)
    BY <2>9 DEF BuryBegin, Step
  <2>10. ASSUME NEW x \in Workers, BuryEnd(x) PROVE Calm(n)
    BY <2>10 DEF BuryEnd, Step
  <2>11. ASSUME NEW x \in Workers, Unlink(x) PROVE Calm(n)
    BY <2>11 DEF Unlink, Step, Finish, Subject, Absent
  <2>12. ASSUME NEW x \in Workers, ServerStores(x) PROVE Calm(n)
    BY <2>12 DEF ServerStores, Stores
  <2>13. ASSUME NEW x \in Workers, ServerRefuses(x) PROVE Calm(n)
    BY <2>13 DEF ServerRefuses
  <2>14. ASSUME NEW r \in Runs, RunStart(r) PROVE Calm(n)
    BY <2>14 DEF RunStart, Step
  <2>15. ASSUME NEW r \in Runs, ListDone(r) PROVE Calm(n)
    BY <2>15 DEF ListDone, Step
  <2>16. ASSUME NEW r \in Runs, Pick(r) PROVE Calm(n)
    BY <2>16 DEF Pick, Step
  <2>17. ASSUME NEW r \in Runs, RunEnd(r) PROVE Calm(n)
    BY <2>17 DEF RunEnd, Step
  <2>18. ASSUME NEW r \in Runs, UpdateBegin(r) PROVE Calm(n)
    BY <2>18 DEF UpdateBegin, Step, Torn
  <2>19. ASSUME NEW r \in Runs, RetrySucceeds(r) PROVE Calm(n)
    BY <2>19 DEF RetrySucceeds, Step, Answered
  <2>20. ASSUME NEW r \in Runs, RetryRefused(r) PROVE Calm(n)
    BY <2>20 DEF RetryRefused, Step, Answered
  <2>21. ASSUME NEW r \in Runs, RetryFails(r) PROVE Calm(n)
    BY <2>21 DEF RetryFails, Step, Fail, Abandon
  <2>22. CASE Exit
    BY <2>22 DEF Exit, Abandon
  <2>23. CASE Restart
    BY <2>23 DEF Restart
  <2>24. CASE UNCHANGED vars
    BY <2>24 DEF vars, serverVars
  <2> QED
    BY <2>1, <2>2, <2>3, <2>4, <2>5, <2>6, <2>7, <2>8, <2>9, <2>10, <2>11, <2>12,
       <2>13, <2>14, <2>15, <2>16, <2>17, <2>18, <2>19, <2>20, <2>21, <2>22, <2>23, <2>24
    DEF Next, NotifyStep, MoveStep, ServerStep, RetryStep
<1>3. QED BY <1>1, <1>2 DEF LimitInv

\* A notification's count exceeds the limit by one at most, with two runs that overlap,
\* and not at all with one.
THEOREM AttemptsCorrect == ASSUME IsFiniteSet(Runs) PROVE Spec => []AttemptsBounded
<1>1. CASE Cardinality(Runs) <= 2
  <2> USE <1>1 DEF FewRuns
  <2>1. Init => LimitInv
    BY LimitInit
  <2>2. IInv /\ LimitInv /\ [Next]_vars => LimitInv'
    BY LimitStep
  <2>3. LimitInv => AttemptsBounded
    BY DEF LimitInv, Bounded, Limit, AttemptsBounded
  <2>4. QED BY <2>1, <2>2, <2>3, SpecIInv, PTL DEF Spec
<1>2. CASE ~(Cardinality(Runs) <= 2)
  <2>1. AttemptsBounded
    BY <1>2 DEF AttemptsBounded
  <2>2. QED BY <2>1, PTL
<1>3. QED BY <1>1, <1>2
=============================================================================
