----------------------- MODULE TransferExecutorProofs -----------------------
(***************************************************************************)
(* Proofs about the transfer lane, for every set of jobs and attempts,     *)
(* every limit and every setting of the switches.                          *)
(***************************************************************************)
EXTENDS TransferAttemptProofs, FiniteSetTheorems

\* The limit NewTracker installs is a positive number.
LEMMA LimitPositive == MaxConcurrentJobs \in Nat /\ MaxConcurrentJobs >= 1
BY TrackerAssumption DEF MaxConcurrentJobs

\* TryStartJob adds its job to the tracked jobs.
LEMMA TryStartTracks ==
    ASSUME NEW t \in TrackerMap, NEW j \in Jobs
    PROVE  Tracked(TryStartJob(t, j)) = Tracked(t) \cup {j}
BY DEF Tracked, TryStartJob, TrackerMap, NoEntry

\* UpdateJob neither adds nor removes one.
LEMMA UpdateTracks ==
    ASSUME NEW t \in TrackerMap, NEW j \in Jobs, NEW s \in Stages
    PROVE  Tracked(UpdateJob(t, j, s)) = Tracked(t)
BY DEF Tracked, UpdateJob, TrackerMap, NoEntry, Stages

\* Finish removes its job.
LEMMA FinishTracks ==
    ASSUME NEW t \in TrackerMap, NEW j \in Jobs
    PROVE  Tracked(Finish(t, j)) = Tracked(t) \ {j}
BY DEF Tracked, Finish, TrackerMap

\* The tracked jobs are finitely many.
LEMMA TrackedFinite ==
    ASSUME NEW t
    PROVE  IsFiniteSet(Tracked(t)) /\ ActiveJobs(t) \in Nat
<1>1. Tracked(t) \subseteq Jobs
    BY DEF Tracked
<1>2. IsFiniteSet(Tracked(t))
    BY <1>1, TrackerAssumption, FS_Subset DEF TrackerAssumption
<1>3. QED
    BY <1>2, FS_CardinalityType DEF ActiveJobs

\* Only Start, FinishAttempt and a restart change which jobs are tracked.
LEMMA TrackedStep ==
    ASSUME TypeOK, AttemptsHaveJobs, [Next]_vars
    PROVE  \/ Tracked(tracker') = Tracked(tracker)
           \/ CrashRestart
           \/ \E a \in Attempts : Start(a) \/ FinishAttempt(a)
<1> DEFINE Updates(a) == BeginDownload(a) \/ NoWorkDir(a) \/ DownloadProgress(a)
                            \/ BeginUpload(a) \/ UploadOk(a) \/ LeaseRenew(a)
<1>1. ASSUME NEW a \in Attempts, Updates(a)
      PROVE  Tracked(tracker') = Tracked(tracker)
    <2>1. job[a] \in Jobs
        BY <1>1 DEF AttemptsHaveJobs, GoroutinesGone, BeginDownload, NoWorkDir, DownloadProgress,
                    BeginUpload, UploadOk, LeaseRenew, Registered, Failing, Stages
    <2>2. PICK s \in Stages : tracker' = UpdateJob(tracker, job[a], s)
        BY <1>1 DEF BeginDownload, NoWorkDir, DownloadProgress, BeginUpload, UploadOk, LeaseRenew,
                    TrackStage, Stages
    <2>3. QED
        BY <2>1, <2>2, UpdateTracks DEF TypeOK
<1>2. CASE tracker' = tracker
    BY <1>2
<1>3. ASSUME NEW a \in Attempts, Execute(a)
      PROVE  tracker' = tracker \/ Updates(a) \/ Start(a) \/ FinishAttempt(a)
    BY <1>3 DEF Execute, Admission, Release, StartRefused, SendStarted, DownloadOk,
                DownloadFail, AbortDownload, UploadFail, AbortUpload, RecordFailure,
                SendFailed, SendCompleted
<1>4. ASSUME NEW a \in Attempts, Watcher(a) \/ LeaseRenewal(a)
      PROVE  tracker' = tracker \/ Updates(a)
    BY <1>4 DEF Watcher, LeaseRenewal, WatcherFetch, WatcherCancel, WatcherExit,
                LeaseTick, LeaseExit
<1>5. ASSUME NEW j \in Jobs, ClaimLost(j) \/ HubLeaseExpires(j) \/ HubRequestsStop(j)
      PROVE  tracker' = tracker
    BY <1>5 DEF ClaimLost, HubLeaseExpires, HubRequestsStop
<1>6. ASSUME NEW a \in Attempts, NEW j \in Jobs, ClaimGranted(a, j)
      PROVE  tracker' = tracker
    BY <1>6 DEF ClaimGranted
<1>7. CASE ClaimRequest \/ ClaimNothing \/ Shutdown \/ ToggleMarkerFile \/ ToggleDiskSpace
              \/ UNCHANGED vars
    BY <1>2, <1>7 DEF ClaimRequest, ClaimNothing, Shutdown, ToggleMarkerFile,
                      ToggleDiskSpace, vars
<1> HIDE DEF Updates
<1>8. QED
    BY <1>1, <1>2, <1>3, <1>4, <1>5, <1>6, <1>7 DEF Next

\* Every step keeps the number of tracked jobs within the limit.
LEMMA SlotLimitStep ==
    ASSUME TypeOK, AttemptsHaveJobs, SlotLimit, [Next]_vars
    PROVE  SlotLimit'
<1>1. IsFiniteSet(Tracked(tracker)) /\ Cardinality(Tracked(tracker)) \in Nat
    BY TrackedFinite DEF ActiveJobs
<1>2. ASSUME NEW a \in Attempts, Start(a) PROVE SlotLimit'
    <2>1. job[a] \in Jobs
        BY <1>2 DEF Start, AttemptsHaveJobs
    <2>2. Tracked(tracker') = Tracked(tracker) \cup {job[a]}
        BY <1>2, <2>1, TryStartTracks DEF Start, TypeOK
    <2>3. Cardinality(Tracked(tracker')) <= Cardinality(Tracked(tracker)) + 1
        <3> DEFINE S == Tracked(tracker)
        <3>1. Cardinality(S \cup {job[a]}) = IF job[a] \in S THEN Cardinality(S)
                                             ELSE Cardinality(S) + 1
            BY <1>1, FS_AddElement
        <3>2. QED
            BY <1>1, <2>2, <3>1
    <2>4. Cardinality(Tracked(tracker)) < MaxConcurrentJobs
        BY <1>2 DEF Start, HasCapacity, ActiveJobs
    <2>5. Cardinality(Tracked(tracker')) \in Nat
        BY TrackedFinite DEF ActiveJobs
    <2>6. QED
        BY <1>1, <2>3, <2>4, <2>5, LimitPositive DEF SlotLimit, ActiveJobs
<1>3. ASSUME Tracked(tracker') \subseteq Tracked(tracker) PROVE SlotLimit'
    <2>1. /\ Cardinality(Tracked(tracker')) <= Cardinality(Tracked(tracker))
          /\ Cardinality(Tracked(tracker')) \in Nat
        BY <1>1, <1>3, FS_Subset, FS_CardinalityType
    <2>2. QED
        BY <1>1, <2>1, LimitPositive DEF SlotLimit, ActiveJobs
<1>4. ASSUME NEW a \in Attempts, FinishAttempt(a) PROVE SlotLimit'
    <2>1. job[a] \in Jobs
        BY <1>4 DEF FinishAttempt, AttemptsHaveJobs
    <2>2. QED
        BY <1>3, <1>4, <2>1, FinishTracks DEF FinishAttempt, TypeOK
<1>5. CASE CrashRestart
    BY <1>3, <1>5 DEF CrashRestart, Tracked, NewTracker
<1>6. QED
    BY <1>2, <1>3, <1>4, <1>5, TrackedStep

\* An attempt starts to run by Start only, stops by FinishAttempt or a restart
\* only, and keeps its job in between.
LEMMA RunningStep ==
    ASSUME TypeOK, [Next]_vars, NEW b \in Attempts
    PROVE  /\ Running(b) =>
                \/ Running(b)' /\ job'[b] = job[b]
                \/ FinishAttempt(b)
                \/ CrashRestart
           /\ Running(b)' => (Running(b) /\ job'[b] = job[b]) \/ Start(b)
<1> DEFINE Goal ==
        /\ Running(b) => (Running(b)' /\ job'[b] = job[b]) \/ FinishAttempt(b) \/ CrashRestart
        /\ Running(b)' => (Running(b) /\ job'[b] = job[b]) \/ Start(b)
<1> SUFFICES Goal
    OBVIOUS
<1> USE DEF Running, Registered, Failing, Queued, Over
<1>1. CASE ClaimRequest
    BY <1>1 DEF ClaimRequest, agentVars
<1>2. CASE ClaimNothing
    BY <1>2 DEF ClaimNothing, agentVars
<1>3. CASE Shutdown
    BY <1>3 DEF Shutdown, agentVars
<1>4. CASE CrashRestart
    BY <1>4 DEF CrashRestart
<1>5. CASE ToggleMarkerFile
    BY <1>5 DEF ToggleMarkerFile, agentVars
<1>6. CASE ToggleDiskSpace
    BY <1>6 DEF ToggleDiskSpace, agentVars
<1>7. ASSUME NEW j \in Jobs, ClaimLost(j) PROVE Goal
    BY <1>7 DEF ClaimLost, agentVars
<1>8. ASSUME NEW j \in Jobs, HubLeaseExpires(j) PROVE Goal
    BY <1>8 DEF HubLeaseExpires, agentVars
<1>9. ASSUME NEW j \in Jobs, HubRequestsStop(j) PROVE Goal
    BY <1>9 DEF HubRequestsStop, agentVars
<1>10. ASSUME NEW a \in Attempts, NEW j \in Jobs, ClaimGranted(a, j) PROVE Goal
    BY <1>10 DEF ClaimGranted, TypeOK
<1>11. ASSUME NEW a \in Attempts, Execute(a) PROVE Goal
    <2>1. CASE Admission(a)
        BY <2>1 DEF Admission, Goto, TypeOK
    <2>2. CASE Release(a)
        BY <2>2 DEF Release, Goto, TypeOK
    <2>3. CASE StartRefused(a)
        BY <2>3 DEF StartRefused, Goto, TypeOK
    <2>4. CASE Start(a)
        BY <2>4 DEF Start, Goto, TypeOK
    <2>5. CASE SendStarted(a)
        BY <2>5 DEF SendStarted, Goto, TypeOK
    <2>6. CASE BeginDownload(a)
        BY <2>6 DEF BeginDownload, Goto, TypeOK
    <2>7. CASE DownloadProgress(a)
        BY <2>7 DEF DownloadProgress, agentVars
    <2>8. CASE DownloadOk(a)
        BY <2>8 DEF DownloadOk, Goto, TypeOK
    <2>9. CASE DownloadFail(a)
        BY <2>9 DEF DownloadFail, Goto, TypeOK
    <2>10. CASE AbortDownload(a)
        BY <2>10 DEF AbortDownload, Goto, TypeOK
    <2>11. CASE BeginUpload(a)
        BY <2>11 DEF BeginUpload, Goto, TypeOK
    <2>12. CASE UploadOk(a)
        BY <2>12 DEF UploadOk, Goto, TypeOK
    <2>13. CASE UploadFail(a)
        BY <2>13 DEF UploadFail, Goto, TypeOK
    <2>14. CASE AbortUpload(a)
        BY <2>14 DEF AbortUpload, Goto, TypeOK
    <2>15. CASE RecordFailure(a)
        BY <2>15 DEF RecordFailure, Goto, TypeOK
    <2>16. CASE SendFailed(a)
        BY <2>16 DEF SendFailed, Goto, TypeOK
    <2>17. CASE SendCompleted(a)
        BY <2>17 DEF SendCompleted, Goto, TypeOK
    <2>18. CASE FinishAttempt(a)
        BY <2>18 DEF FinishAttempt, Goto, TypeOK
    <2>19. CASE NoWorkDir(a)
        BY <2>19 DEF NoWorkDir, Goto, TypeOK
    <2>20. QED
        BY <1>11, <2>1, <2>2, <2>3, <2>4, <2>5, <2>6, <2>7, <2>8, <2>9, <2>10,
           <2>11, <2>12, <2>13, <2>14, <2>15, <2>16, <2>17, <2>18, <2>19
        DEF Execute
<1>12. ASSUME NEW a \in Attempts, Watcher(a) PROVE Goal
    <2>1. CASE WatcherFetch(a)
        BY <2>1 DEF WatcherFetch
    <2>2. CASE WatcherCancel(a)
        BY <2>2 DEF WatcherCancel
    <2>3. CASE WatcherExit(a)
        BY <2>3 DEF WatcherExit
    <2>4. QED
        BY <1>12, <2>1, <2>2, <2>3 DEF Watcher
<1>13. ASSUME NEW a \in Attempts, LeaseRenewal(a) PROVE Goal
    <2>1. CASE LeaseTick(a)
        BY <2>1 DEF LeaseTick
    <2>2. CASE LeaseRenew(a)
        BY <2>2 DEF LeaseRenew
    <2>3. CASE LeaseExit(a)
        BY <2>3 DEF LeaseExit
    <2>4. QED
        BY <1>13, <2>1, <2>2, <2>3 DEF LeaseRenewal
<1>14. CASE UNCHANGED vars
    BY <1>14 DEF vars, agentVars, hubVars, diskVars, opsVars
<1>15. QED
    BY <1>1, <1>2, <1>3, <1>4, <1>5, <1>6, <1>7, <1>8, <1>9, <1>10, <1>11, <1>12,
       <1>13, <1>14 DEF Next

\* Every step keeps a running attempt for every tracked job.
LEMMA NoLeakedSlotStep ==
    ASSUME TypeOK, AttemptsHaveJobs, NoLeakedSlot, [Next]_vars
    PROVE  NoLeakedSlot'
<1>1. ASSUME NEW a \in Attempts, Start(a) PROVE NoLeakedSlot'
    <2>1. job[a] \in Jobs
        BY <1>1 DEF Start, AttemptsHaveJobs
    <2>2. Tracked(tracker') = Tracked(tracker) \cup {job[a]}
        BY <1>1, <2>1, TryStartTracks DEF Start, TypeOK
    <2>3. \A b \in Attempts : Running(b) \/ b = a => Running(b)' /\ job'[b] = job[b]
        BY <1>1 DEF Start, Goto, Running, Registered, Failing, TypeOK
    <2>4. QED
        BY <2>2, <2>3 DEF NoLeakedSlot
<1>2. ASSUME NEW a \in Attempts, FinishAttempt(a) PROVE NoLeakedSlot'
    <2>1. job[a] \in Jobs
        BY <1>2 DEF FinishAttempt, AttemptsHaveJobs
    <2>2. Tracked(tracker') = Tracked(tracker) \ {job[a]}
        BY <1>2, <2>1, FinishTracks DEF FinishAttempt, TypeOK
    <2>3. \A b \in Attempts : Running(b) /\ b # a => Running(b)' /\ job'[b] = job[b]
        BY <1>2 DEF FinishAttempt, Goto, Running, TypeOK
    <2>4. QED
        BY <2>2, <2>3 DEF NoLeakedSlot
<1>3. CASE CrashRestart
    BY <1>3 DEF CrashRestart, Tracked, NewTracker, NoLeakedSlot
<1>4. CASE ~CrashRestart /\ ~\E a \in Attempts : Start(a) \/ FinishAttempt(a)
    <2>1. Tracked(tracker') = Tracked(tracker)
        BY <1>4, TrackedStep
    <2>2. \A b \in Attempts : Running(b) => Running(b)' /\ job'[b] = job[b]
        BY <1>4, RunningStep
    <2>3. QED
        BY <2>1, <2>2 DEF NoLeakedSlot
<1>5. QED
    BY <1>1, <1>2, <1>3, <1>4

\* With one slot, every step keeps at most one running attempt.
LEMMA SingleSlotStep ==
    ASSUME TypeOK, AttemptsHaveJobs, SingleSlotIsExclusive, [Next]_vars
    PROVE  SingleSlotIsExclusive'
<1> SUFFICES ASSUME MaxConcurrentJobs = 1,
                    NEW a \in Attempts, Running(a)'
             PROVE  /\ tracker'[job'[a]] # NoEntry
                    /\ \A b \in Attempts : Running(b)' => b = a
    BY DEF SingleSlotIsExclusive
<1>1. ASSUME NEW c \in Attempts, Running(c)
      PROVE  job[c] \in Tracked(tracker) /\ \A b \in Attempts : Running(b) => b = c
    BY <1>1 DEF SingleSlotIsExclusive, AttemptsHaveJobs, Tracked, Running, Registered,
                Failing
<1>2. ASSUME NEW c \in Attempts, Start(c)
      PROVE  /\ tracker'[job'[a]] # NoEntry
             /\ \A b \in Attempts : Running(b)' => b = a
    <2>1. Tracked(tracker) = {}
        BY <1>2, TrackedFinite, FS_EmptySet DEF Start, HasCapacity, ActiveJobs
    <2>2. \A b \in Attempts : ~Running(b)
        BY <1>1, <2>1
    <2>3. \A b \in Attempts : Running(b)' => b = c
        BY <1>2, <2>2 DEF Start, Goto, Running, TypeOK
    <2>4. job[c] \in Jobs
        BY <1>2 DEF Start, AttemptsHaveJobs
    <2>5. tracker'[job'[c]] # NoEntry
        BY <1>2, <2>4 DEF Start, TryStartJob, TypeOK, TrackerMap, NoEntry
    <2>6. QED
        BY <2>3, <2>5
<1>3. ASSUME NEW c \in Attempts, FinishAttempt(c) PROVE FALSE
    <2>1. Running(c) /\ ~Running(c)'
        BY <1>3 DEF FinishAttempt, Goto, Running, Registered, Failing, TypeOK
    <2>2. \A b \in Attempts : b # c => ~Running(b) /\ pc'[b] = pc[b]
        BY <1>1, <1>3, <2>1 DEF FinishAttempt, Goto, TypeOK
    <2>3. QED
        BY <2>1, <2>2 DEF Running
<1>4. CASE CrashRestart
    BY <1>4 DEF CrashRestart, Running, Registered, Failing
<1>5. CASE ~CrashRestart /\ ~\E c \in Attempts : Start(c) \/ FinishAttempt(c)
    <2>1. Tracked(tracker') = Tracked(tracker)
        BY <1>5, TrackedStep
    <2>2. \A b \in Attempts : Running(b)' => Running(b) /\ job'[b] = job[b]
        BY <1>5, RunningStep
    <2>3. job'[a] \in Tracked(tracker')
        BY <1>1, <2>1, <2>2
    <2>4. QED
        BY <1>1, <2>2, <2>3 DEF Tracked
<1>6. QED
    BY <1>2, <1>3, <1>4, <1>5

\* The inductive invariant holds in every state of every behaviour: it holds
\* initially and each of the step lemmas keeps its part.
THEOREM LaneInvariant == Spec => []LaneInv
<1>1. Init => LaneInv
    <2> SUFFICES ASSUME Init PROVE LaneInv
        OBVIOUS
    <2>1. TypeOK
        BY TypeInit
    <2>2. Tracked(tracker) = {}
        BY DEF Init, NewTracker, Tracked
    <2>3. SlotLimit
        BY <2>2, FS_EmptySet, LimitPositive DEF SlotLimit, ActiveJobs
    <2>4. NoLeakedSlot
        BY <2>2 DEF NoLeakedSlot
    <2>5. AttemptsHaveJobs /\ SingleSlotIsExclusive
        BY DEF Init, AttemptsHaveJobs, SingleSlotIsExclusive, GoroutinesGone, Running,
               Registered, Failing
    <2>6. ReportInv
        BY DEF Init, ReportInv, ReportsComeLast, CompletedMeansStored, LetterBeforeFailed
    <2>7. ControlInv
        BY DEF Init, ControlInv, CancelledByOperator, OperatorReasonReported, Queued,
               Registered, Failing
    <2>8. LeaseInv
        BY DEF Init, LeaseInv, LeaseHeld, OneAttemptPerJob, HubCompletionOnDisk, Holding,
               Live, Queued, Registered, Failing
    <2>9. QED
        BY <2>1, <2>3, <2>4, <2>5, <2>6, <2>7, <2>8 DEF LaneInv, SlotInv
<1>2. LaneInv /\ [Next]_vars => LaneInv'
    BY TypeStep, AttemptStep, SlotLimitStep, NoLeakedSlotStep, SingleSlotStep, LeaseStep
    DEF LaneInv, SlotInv
<1>3. QED
    BY <1>1, <1>2, PTL DEF Spec

\* Every variable of the lane always has its type.
THEOREM TypeCorrectness == Spec => []TypeOK
<1>1. LaneInv => TypeOK
    BY DEF LaneInv, SlotInv
<1>2. QED
    BY <1>1, LaneInvariant, PTL

\* TryStartJob never lets the tracker hold more than max_concurrent_jobs jobs.
THEOREM SlotsBounded == Spec => []SlotLimit
<1>1. LaneInv => SlotLimit
    BY DEF LaneInv, SlotInv
<1>2. QED
    BY <1>1, LaneInvariant, PTL

\* Every job the tracker holds has an attempt that will call Finish for it, also
\* when a lease renewal calls UpdateJob after Finish.
THEOREM SlotsAreReturned == Spec => []NoLeakedSlot
<1>1. LaneInv => NoLeakedSlot
    BY DEF LaneInv, SlotInv
<1>2. QED
    BY <1>1, LaneInvariant, PTL

\* With max_concurrent_jobs = 1 no two attempts ever run at the same time.
THEOREM SingleSlotExclusion == Spec => []SingleSlotIsExclusive
<1>1. LaneInv => SingleSlotIsExclusive
    BY DEF LaneInv
<1>2. QED
    BY <1>1, LaneInvariant, PTL

\* "completed" reaches the Hub for stored objects only and never next to
\* "failed".
THEOREM CompletionIsTrue == Spec => []CompletedMeansStored
<1>1. LaneInv => CompletedMeansStored
    BY DEF LaneInv, ReportInv
<1>2. QED
    BY <1>1, LaneInvariant, PTL

\* A failure the Hub knows of has its dead letter.
THEOREM LettersComeFirst == Spec => []LetterBeforeFailed
<1>1. LaneInv => LetterBeforeFailed
    BY DEF LaneInv, ReportInv
<1>2. QED
    BY <1>1, LaneInvariant, PTL

\* A stopped attempt is reported with the operator's reason.
THEOREM OperatorReason == Spec => []OperatorReasonReported
<1>1. LaneInv => OperatorReasonReported
    BY DEF LaneInv, ControlInv
<1>2. QED
    BY <1>1, LaneInvariant, PTL

\* If leases outlive attempts, a job is never worked on twice at a time.
THEOREM LeaseExclusion == Spec => []OneAttemptPerJob
<1>1. LaneInv => OneAttemptPerJob
    BY DEF LaneInv, LeaseInv
<1>2. QED
    BY <1>1, LaneInvariant, PTL

\* If also local writes succeed, what the Hub completed is completed on disk.
THEOREM CompletionOnDisk == Spec => []HubCompletionOnDisk
<1>1. LaneInv => HubCompletionOnDisk
    BY DEF LaneInv, LeaseInv
<1>2. QED
    BY <1>1, LaneInvariant, PTL

-----------------------------------------------------------------------------
(* The lane implements TransferContract.                                   *)

\* A step that leaves the tracked jobs, the objects, the jobs of the attempts
\* and their reports alone is invisible to the contract.
LEMMA InvisibleStep ==
    ASSUME Tracked(tracker') = Tracked(tracker), UNCHANGED <<stored, job, sent>>
    PROVE  UNCHANGED Contract!vars
BY DEF Contract!vars

\* Every step of the lane is a step of the contract or invisible to it.
LEMMA ContractStep == LaneInv /\ [Next]_vars => [Contract!Next]_(Contract!vars)
<1> SUFFICES ASSUME LaneInv, [Next]_vars PROVE [Contract!Next]_(Contract!vars)
    OBVIOUS
<1>1. TypeOK /\ AttemptsHaveJobs /\ ReportsComeLast
    BY DEF LaneInv, SlotInv, ReportInv
<1>2. ASSUME NEW a \in Attempts, Start(a) PROVE Contract!Acquire(a)
    <2>1. job[a] \in Jobs /\ sent[a] = {}
        BY <1>1, <1>2 DEF Start, AttemptsHaveJobs, ReportsComeLast
    <2>2. Tracked(tracker') = Tracked(tracker) \cup {job[a]}
        BY <1>1, <1>2, <2>1, TryStartTracks DEF Start, TypeOK
    <2>3. Cardinality(Tracked(tracker)) < MaxConcurrentJobs
        BY <1>2 DEF Start, HasCapacity, ActiveJobs
    <2>4. UNCHANGED <<stored, job, sent>>
        BY <1>2 DEF Start
    <2>5. Contract!Cardinality(Tracked(tracker)) = Cardinality(Tracked(tracker))
        BY DEF Contract!Cardinality, Cardinality
    <2>6. QED
        BY <2>1, <2>2, <2>3, <2>4, <2>5 DEF Contract!Acquire
<1>3. ASSUME NEW a \in Attempts, FinishAttempt(a) PROVE Contract!Free(a)
    <2>1. job[a] \in Jobs
        BY <1>1, <1>3 DEF FinishAttempt, AttemptsHaveJobs
    <2>2. Tracked(tracker') = Tracked(tracker) \ {job[a]}
        BY <1>1, <1>3, <2>1, FinishTracks DEF FinishAttempt, TypeOK
    <2>3. QED
        BY <1>3, <2>2 DEF FinishAttempt, diskVars, Contract!Free
<1>4. CASE CrashRestart
    <2>1. Tracked(tracker') = {}
        BY <1>4 DEF CrashRestart, NewTracker, Tracked
    <2>2. Contract!Restart
        BY <1>4, <2>1 DEF CrashRestart, Contract!Restart
    <2>3. QED
        BY <2>2 DEF Contract!Next
<1>5. CASE ~CrashRestart /\ ~\E a \in Attempts : Start(a) \/ FinishAttempt(a)
    <2>1. Tracked(tracker') = Tracked(tracker)
        BY <1>1, <1>5, TrackedStep
    <2>2. ASSUME UNCHANGED <<stored, job, sent>> PROVE UNCHANGED Contract!vars
        BY <2>1, <2>2, InvisibleStep
    <2>3. ASSUME NEW a \in Attempts, NEW j \in Jobs, ClaimGranted(a, j)
          PROVE  Contract!Take(a, j)
        BY <2>1, <2>3 DEF ClaimGranted, diskVars, Contract!Take
    <2>4. ASSUME NEW a \in Attempts, UploadOk(a) \/ UploadFail(a) \/ AbortUpload(a)
          PROVE  Contract!Store(a) \/ UNCHANGED Contract!vars
        <3>1. sent[a] = {}
            BY <1>1, <2>4 DEF UploadOk, UploadFail, AbortUpload, ReportsComeLast
        <3>2. UNCHANGED <<job, sent>>
            BY <2>4 DEF UploadOk, UploadFail, AbortUpload
        <3>3. stored' = stored \/ stored' = stored \cup {job[a]}
            BY <2>4 DEF UploadOk, UploadFail, AbortUpload
        <3>4. QED
            BY <2>1, <2>2, <3>1, <3>2, <3>3 DEF Contract!Store
    <2>5. ASSUME NEW a \in Attempts, SendFailed(a)
          PROVE  Contract!ReportFailed(a) \/ UNCHANGED Contract!vars
        <3>1. sent[a] = {} /\ UNCHANGED <<job, stored>>
            BY <1>1, <2>5 DEF SendFailed, ReportsComeLast, diskVars
        <3>2. CASE Delivered(a, "failed")
            BY <2>1, <3>1, <3>2 DEF Delivered, Contract!ReportFailed
        <3>3. QED
            BY <2>2, <2>5, <3>1, <3>2 DEF SendFailed
    <2>6. ASSUME NEW a \in Attempts, SendCompleted(a)
          PROVE  Contract!ReportCompleted(a) \/ UNCHANGED Contract!vars
        <3>1. sent[a] = {} /\ job[a] \in stored /\ UNCHANGED <<job, stored>>
            BY <1>1, <2>6 DEF SendCompleted, ReportsComeLast, diskVars
        <3>2. CASE Delivered(a, "completed")
            BY <2>1, <3>1, <3>2 DEF Delivered, Contract!ReportCompleted
        <3>3. QED
            BY <2>2, <2>6, <3>1, <3>2 DEF SendCompleted
    <2>7. ASSUME NEW a \in Attempts, Execute(a)
          PROVE  \/ UNCHANGED <<stored, job, sent>>
                 \/ UploadOk(a) \/ UploadFail(a) \/ AbortUpload(a)
                 \/ SendFailed(a) \/ SendCompleted(a)
        BY <1>5, <2>7 DEF Execute, Admission, Release, StartRefused, SendStarted,
            BeginDownload, NoWorkDir, DownloadProgress, DownloadOk, DownloadFail, AbortDownload,
            BeginUpload, RecordFailure, agentVars, diskVars
    <2>8. ASSUME NEW a \in Attempts, Watcher(a) \/ LeaseRenewal(a)
          PROVE  UNCHANGED <<stored, job, sent>>
        BY <2>8 DEF Watcher, LeaseRenewal, WatcherFetch, WatcherCancel, WatcherExit,
            LeaseTick, LeaseRenew, LeaseExit, diskVars
    <2>9. ASSUME NEW j \in Jobs, ClaimLost(j) \/ HubLeaseExpires(j) \/ HubRequestsStop(j)
          PROVE  UNCHANGED <<stored, job, sent>>
        BY <2>9 DEF ClaimLost, HubLeaseExpires, HubRequestsStop, agentVars, diskVars
    <2>10. CASE ClaimRequest \/ ClaimNothing \/ Shutdown \/ ToggleMarkerFile
                    \/ ToggleDiskSpace \/ UNCHANGED vars
        BY <2>2, <2>10 DEF ClaimRequest, ClaimNothing, Shutdown, ToggleMarkerFile,
            ToggleDiskSpace, vars, agentVars, diskVars
    <2>11. QED
        BY <1>5, <2>2, <2>3, <2>4, <2>5, <2>6, <2>7, <2>8, <2>9, <2>10
        DEF Next, Contract!Next
<1>6. QED
    BY <1>2, <1>3, <1>4, <1>5 DEF Contract!Next

\* The lane keeps the promises of TransferContract.
THEOREM LaneImplementsContract == Spec => ImplementsContract
<1>1. Init => Contract!Init
    BY DEF Init, NewTracker, Tracked, Contract!Init
<1>2. QED
    BY <1>1, ContractStep, LaneInvariant, PTL DEF Spec, ImplementsContract, Contract!Spec

=============================================================================
