----------------------- MODULE TransferAttemptProofs ------------------------
(***************************************************************************)
(* What every step of the transfer lane keeps about its attempts: types,   *)
(* jobs and goroutines, reports, cancellations, and the Hub's lease.       *)
(* TransferExecutorProofs builds the inductive invariant from these lemmas.*)
(***************************************************************************)
EXTENDS TransferExecutor, TLAPS

\* The type invariant holds initially.
LEMMA TypeInit == Init => TypeOK
<1> SUFFICES ASSUME Init PROVE TypeOK
    OBVIOUS
<1>1. OpsTypeOK
    BY OpsAssumption, Zenon DEF OpsAssumption, Init, OpsInit, OpsTypeOK
<1>2. tracker \in TrackerMap
    BY DEF Init, NewTracker, TrackerMap, NoEntry
<1>3. QED
    BY <1>1, <1>2
    DEF Init, TypeOK, Stages, ProgramPoints, Over, FileStatus, HubStatus

\* Every step keeps the types.
LEMMA TypeStep == TypeOK /\ AttemptsHaveJobs /\ [Next]_vars => TypeOK'
<1> SUFFICES ASSUME TypeOK, AttemptsHaveJobs, [Next]_vars PROVE TypeOK'
    OBVIOUS
<1> USE DEF AttemptsHaveJobs
<1>1. CASE ClaimRequest
    BY <1>1 DEF ClaimRequest, TypeOK, OpsTypeOK, agentVars, hubVars, diskVars,
       opsVars
<1>2. CASE ClaimNothing
    BY <1>2 DEF ClaimNothing, TypeOK, OpsTypeOK, agentVars, hubVars, diskVars,
       opsVars
<1>3. CASE Shutdown
    BY <1>3 DEF Shutdown, TypeOK, OpsTypeOK, agentVars, hubVars, diskVars, opsVars
<1>4. CASE CrashRestart
    <2>1. jobFile' \in [Jobs -> FileStatus]
        BY <1>4 DEF CrashRestart, FilesAfterCrash, FileStatus, TypeOK
    <2>2. tracker' \in TrackerMap
        BY <1>4 DEF CrashRestart, NewTracker, TrackerMap, NoEntry
    <2>3. OpsTypeOK'
        BY <1>4 DEF CrashRestart, OpsRestart, TypeOK, OpsTypeOK
    <2>4. stored' \subseteq Jobs /\ hub' \in [Jobs -> HubStatus] /\ hubControl' \in [Jobs -> BOOLEAN]
        BY <1>4 DEF CrashRestart, TypeOK, hubVars
    <2>5. QED
        BY <1>4, <2>1, <2>2, <2>3, <2>4
        DEF CrashRestart, TypeOK, ProgramPoints, Over, Stages
<1>5. CASE ToggleMarkerFile
    BY <1>5 DEF ToggleMarkerFile, ToggleMarker, TypeOK, OpsTypeOK, agentVars,
       hubVars, diskVars, opsVars
<1>6. CASE ToggleDiskSpace
    BY <1>6 DEF ToggleDiskSpace, ToggleDisk, TypeOK, OpsTypeOK, agentVars, hubVars,
       diskVars, opsVars
<1>7. ASSUME NEW j \in Jobs, ClaimLost(j) PROVE TypeOK'
    BY <1>7 DEF ClaimLost, HubGrants, HubStatus, TypeOK, OpsTypeOK, agentVars,
       hubVars, diskVars, opsVars
<1>8. ASSUME NEW j \in Jobs, HubLeaseExpires(j) PROVE TypeOK'
    BY <1>8 DEF HubLeaseExpires, HubStatus, TypeOK, OpsTypeOK, agentVars, hubVars,
       diskVars, opsVars
<1>9. ASSUME NEW j \in Jobs, HubRequestsStop(j) PROVE TypeOK'
    BY <1>9 DEF HubRequestsStop, TypeOK, OpsTypeOK, agentVars, hubVars, diskVars,
       opsVars
<1>10. ASSUME NEW a \in Attempts, NEW j \in Jobs, ClaimGranted(a, j) PROVE TypeOK'
    BY <1>10 DEF ClaimGranted, HubGrants, HubStatus, ProgramPoints, Queued, Stages,
       Callbacks, TypeOK, OpsTypeOK, agentVars, hubVars, diskVars, opsVars
<1>11. ASSUME NEW a \in Attempts, Execute(a) PROVE TypeOK'
    <2>1. CASE Admission(a)
        BY <2>1 DEF Admission, ProgramPoints, Registered, Queued, Failing, Over,
           Goto, TypeOK, OpsTypeOK, agentVars, hubVars, diskVars, opsVars
    <2>2. CASE Release(a)
        BY <2>2 DEF Release, Goto, ProgramPoints, Registered, Queued, Failing,
           Over, HubOnReleased, HubStatus, TypeOK, OpsTypeOK, agentVars,
           hubVars, diskVars, opsVars
    <2>3. CASE StartRefused(a)
        BY <2>3 DEF StartRefused, ProgramPoints, Registered, Queued, Failing,
           Over, Goto, TypeOK, OpsTypeOK, agentVars, hubVars, diskVars, opsVars
    <2>4. CASE Start(a)
        BY <2>4 DEF Start, Goto, ProgramPoints, Registered, Queued, Failing,
           Over, TryStartJob, SaveState, FileStatus, TrackerMap, Stages, TypeOK,
           OpsTypeOK, agentVars, hubVars, diskVars, opsVars
    <2>5. CASE SendStarted(a)
        BY <2>5 DEF SendStarted, ProgramPoints, Registered, Queued, Failing,
           Over, Goto, TypeOK, OpsTypeOK, agentVars, hubVars, diskVars, opsVars
    <2>6. CASE BeginDownload(a)
        BY <2>6 DEF BeginDownload, Goto, ProgramPoints, Registered, Queued,
           Failing, Over, TrackStage, UpdateJob, SaveState, FileStatus,
           TrackerMap, Stages, TypeOK, OpsTypeOK, agentVars, hubVars, diskVars,
           opsVars
    <2>7. CASE DownloadProgress(a)
        BY <2>7 DEF DownloadProgress, TrackStage, UpdateJob, SaveState,
           FileStatus, TrackerMap, Stages, TypeOK, OpsTypeOK, agentVars,
           hubVars, diskVars, opsVars
    <2>8. CASE DownloadOk(a)
        BY <2>8 DEF DownloadOk, Goto, ProgramPoints, Registered, Queued,
           Failing, Over, SaveState, FileStatus, TypeOK, OpsTypeOK, agentVars,
           hubVars, diskVars, opsVars
    <2>9. CASE DownloadFail(a)
        BY <2>9 DEF DownloadFail, ProgramPoints, Registered, Queued, Failing,
           Over, Goto, TypeOK, OpsTypeOK, agentVars, hubVars, diskVars, opsVars
    <2>10. CASE AbortDownload(a)
        BY <2>10 DEF AbortDownload, ProgramPoints, Registered, Queued, Failing,
           Over, Goto, TypeOK, OpsTypeOK, agentVars, hubVars, diskVars, opsVars
    <2>11. CASE BeginUpload(a)
        BY <2>11 DEF BeginUpload, Goto, ProgramPoints, Registered, Queued,
           Failing, Over, TrackStage, UpdateJob, TrackerMap, Stages, TypeOK,
           OpsTypeOK, agentVars, hubVars, diskVars, opsVars
    <2>12. CASE UploadOk(a)
        BY <2>12 DEF UploadOk, Goto, ProgramPoints, Registered, Queued, Failing,
           Over, TrackStage, UpdateJob, SaveState, FileStatus, TrackerMap,
           Stages, TypeOK, OpsTypeOK, agentVars, hubVars, diskVars, opsVars
    <2>13. CASE UploadFail(a)
        BY <2>13 DEF UploadFail, ProgramPoints, Registered, Queued, Failing,
           Over, Goto, TypeOK, OpsTypeOK, agentVars, hubVars, diskVars, opsVars
    <2>14. CASE AbortUpload(a)
        BY <2>14 DEF AbortUpload, ProgramPoints, Registered, Queued, Failing,
           Over, Goto, TypeOK, OpsTypeOK, agentVars, hubVars, diskVars, opsVars
    <2>15. CASE RecordFailure(a)
        <3>1. letter' \in [Attempts -> BOOLEAN]
            BY <2>15, OpsAssumption DEF RecordFailure, DeadLetter, TypeOK, OpsAssumption
        <3>2. jobFile' \in [Jobs -> FileStatus]
            BY <2>15 DEF RecordFailure, SaveState, TypeOK, FileStatus
        <3>3. QED
            BY <2>15, <3>1, <3>2
            DEF RecordFailure, Goto, ProgramPoints, Registered, Failing, Stages, TypeOK,
                OpsTypeOK, hubVars, opsVars
    <2>16. CASE SendFailed(a)
        BY <2>16 DEF SendFailed, Goto, ProgramPoints, Registered, Queued,
           Failing, Over, Delivered, Callbacks, HubOnFailed, HubStatus, TypeOK,
           OpsTypeOK, agentVars, hubVars, diskVars, opsVars
    <2>17. CASE SendCompleted(a)
        BY <2>17 DEF SendCompleted, Goto, ProgramPoints, Registered, Queued,
           Failing, Over, Delivered, Callbacks, HubStatus, TypeOK, OpsTypeOK,
           agentVars, hubVars, diskVars, opsVars
    <2>18. CASE FinishAttempt(a)
        BY <2>18 DEF FinishAttempt, Goto, ProgramPoints, Registered, Queued,
           Failing, Over, Finish, TrackerMap, NoEntry, TypeOK, OpsTypeOK,
           agentVars, hubVars, diskVars, opsVars
    <2>19. CASE NoWorkDir(a)
        BY <2>19 DEF NoWorkDir, Goto, ProgramPoints, Registered, Queued, Failing,
           Over, TrackStage, UpdateJob, TrackerMap, Stages, TypeOK, OpsTypeOK, hubVars,
           diskVars, opsVars
    <2>20. QED
        BY <1>11, <2>1, <2>2, <2>3, <2>4, <2>5, <2>6, <2>7, <2>8, <2>9, <2>10,
           <2>11, <2>12, <2>13, <2>14, <2>15, <2>16, <2>17, <2>18, <2>19
        DEF Execute
<1>12. ASSUME NEW a \in Attempts, Watcher(a) PROVE TypeOK'
    <2>1. CASE WatcherFetch(a)
        BY <2>1 DEF WatcherFetch, TypeOK, OpsTypeOK, agentVars, hubVars,
           diskVars, opsVars
    <2>2. CASE WatcherCancel(a)
        BY <2>2 DEF WatcherCancel, TypeOK, OpsTypeOK, agentVars, hubVars,
           diskVars, opsVars
    <2>3. CASE WatcherExit(a)
        BY <2>3 DEF WatcherExit, TypeOK, OpsTypeOK, agentVars, hubVars,
           diskVars, opsVars
    <2>4. QED
        BY <1>12, <2>1, <2>2, <2>3 DEF Watcher
<1>13. ASSUME NEW a \in Attempts, LeaseRenewal(a) PROVE TypeOK'
    <2>1. CASE LeaseTick(a)
        BY <2>1 DEF LeaseTick, StageRead, Stages, TypeOK, OpsTypeOK, agentVars,
           hubVars, diskVars, opsVars
    <2>2. CASE LeaseRenew(a)
        BY <2>2 DEF LeaseRenew, TrackStage, UpdateJob, TrackerMap, Stages,
           TypeOK, OpsTypeOK, agentVars, hubVars, diskVars, opsVars
    <2>3. CASE LeaseExit(a)
        BY <2>3 DEF LeaseExit, TypeOK, OpsTypeOK, agentVars, hubVars, diskVars,
           opsVars
    <2>4. QED
        BY <1>13, <2>1, <2>2, <2>3 DEF LeaseRenewal
<1>14. CASE UNCHANGED vars
    BY <1>14 DEF vars, agentVars, hubVars, diskVars, opsVars, TypeOK, OpsTypeOK
<1>15. QED
    BY <1>1, <1>2, <1>3, <1>4, <1>5, <1>6, <1>7, <1>8, <1>9, <1>10, <1>11, <1>12,
       <1>13, <1>14 DEF Next

\* Every step keeps the facts about single attempts: jobs and goroutines, the
\* order of reports, and where a cancellation comes from.
LEMMA AttemptStep ==
    TypeOK /\ AttemptsHaveJobs /\ ReportInv /\ ControlInv /\ [Next]_vars
        => AttemptsHaveJobs' /\ ReportInv' /\ ControlInv'
<1> DEFINE Inv == AttemptsHaveJobs /\ ReportInv /\ ControlInv
<1> SUFFICES ASSUME TypeOK, Inv, [Next]_vars PROVE Inv'
    OBVIOUS
<1> USE DEF AttemptsHaveJobs, GoroutinesGone, ReportInv, ReportsComeLast,
            CompletedMeansStored, LetterBeforeFailed, ControlInv, CancelledByOperator,
            OperatorReasonReported, Queued, Registered, Failing, Over
<1>1. CASE ClaimRequest
    BY <1>1 DEF ClaimRequest, agentVars, hubVars, diskVars
<1>2. CASE ClaimNothing
    BY <1>2 DEF ClaimNothing, agentVars, hubVars, diskVars
<1>3. CASE Shutdown
    BY <1>3 DEF Shutdown, agentVars, hubVars, diskVars
<1>4. CASE CrashRestart
    BY <1>4 DEF CrashRestart, TypeOK, agentVars, hubVars, diskVars
<1>5. CASE ToggleMarkerFile
    BY <1>5 DEF ToggleMarkerFile, agentVars, hubVars, diskVars
<1>6. CASE ToggleDiskSpace
    BY <1>6 DEF ToggleDiskSpace, agentVars, hubVars, diskVars
<1>7. ASSUME NEW j \in Jobs, ClaimLost(j) PROVE Inv'
    BY <1>7 DEF ClaimLost, TypeOK, agentVars, hubVars, diskVars
<1>8. ASSUME NEW j \in Jobs, HubLeaseExpires(j) PROVE Inv'
    BY <1>8 DEF HubLeaseExpires, TypeOK, agentVars, hubVars, diskVars
<1>9. ASSUME NEW j \in Jobs, HubRequestsStop(j) PROVE Inv'
    BY <1>9 DEF HubRequestsStop, TypeOK, agentVars, hubVars, diskVars
<1>10. ASSUME NEW a \in Attempts, NEW j \in Jobs, ClaimGranted(a, j) PROVE Inv'
    BY <1>10 DEF ClaimGranted, TypeOK, agentVars, hubVars, diskVars
<1>11. ASSUME NEW a \in Attempts, Execute(a) PROVE Inv'
    <2>1. CASE Admission(a)
        BY <2>1 DEF Admission, Goto, TypeOK, agentVars, hubVars, diskVars
    <2>2. CASE Release(a)
        BY <2>2 DEF Release, Goto, TypeOK, agentVars, hubVars, diskVars
    <2>3. CASE StartRefused(a)
        BY <2>3 DEF StartRefused, Goto, TypeOK, agentVars, hubVars, diskVars
    <2>4. CASE Start(a)
        BY <2>4 DEF Start, Goto, TypeOK, agentVars, hubVars, diskVars
    <2>5. CASE SendStarted(a)
        BY <2>5 DEF SendStarted, Goto, TypeOK, agentVars, hubVars, diskVars
    <2>6. CASE BeginDownload(a)
        BY <2>6 DEF BeginDownload, Goto, TypeOK, agentVars, hubVars, diskVars
    <2>7. CASE DownloadProgress(a)
        BY <2>7 DEF DownloadProgress, Goto, TypeOK, agentVars, hubVars, diskVars
    <2>8. CASE DownloadOk(a)
        BY <2>8 DEF DownloadOk, Goto, TypeOK, agentVars, hubVars, diskVars
    <2>9. CASE DownloadFail(a)
        BY <2>9 DEF DownloadFail, Goto, TypeOK, agentVars, hubVars, diskVars
    <2>10. CASE AbortDownload(a)
        BY <2>10 DEF AbortDownload, Goto, TypeOK, agentVars, hubVars, diskVars
    <2>11. CASE BeginUpload(a)
        <3>1. CASE ctxDone[a]
            BY <2>11, <3>1 DEF BeginUpload, Goto, TypeOK, hubVars, diskVars
        <3>2. CASE ~ctxDone[a]
            BY <2>11, <3>2 DEF BeginUpload, Goto, TypeOK, hubVars, diskVars
        <3>3. QED
            BY <3>1, <3>2
    <2>12. CASE UploadOk(a)
        BY <2>12 DEF UploadOk, Goto, TypeOK, agentVars, hubVars, diskVars
    <2>13. CASE UploadFail(a)
        BY <2>13 DEF UploadFail, Goto, TypeOK, agentVars, hubVars, diskVars
    <2>14. CASE AbortUpload(a)
        BY <2>14 DEF AbortUpload, Goto, TypeOK, agentVars, hubVars, diskVars
    <2>15. CASE RecordFailure(a)
        BY <2>15 DEF RecordFailure, DeadLetter, Goto, TypeOK, agentVars,
           hubVars, diskVars
    <2>16. CASE SendFailed(a)
        BY <2>16 DEF SendFailed, Delivered, Goto, TypeOK, agentVars, hubVars,
           diskVars
    <2>17. CASE SendCompleted(a)
        BY <2>17 DEF SendCompleted, Delivered, Goto, TypeOK, agentVars, hubVars,
           diskVars
    <2>18. CASE FinishAttempt(a)
        BY <2>18 DEF FinishAttempt, Goto, TypeOK, agentVars, hubVars, diskVars
    <2>19. CASE NoWorkDir(a)
        BY <2>19 DEF NoWorkDir, Goto, TypeOK, hubVars, diskVars
    <2>20. QED
        BY <1>11, <2>1, <2>2, <2>3, <2>4, <2>5, <2>6, <2>7, <2>8, <2>9, <2>10,
           <2>11, <2>12, <2>13, <2>14, <2>15, <2>16, <2>17, <2>18, <2>19
        DEF Execute
<1>12. ASSUME NEW a \in Attempts, Watcher(a) PROVE Inv'
    <2>1. CASE WatcherFetch(a)
        BY <2>1 DEF WatcherFetch, TypeOK, agentVars, hubVars, diskVars
    <2>2. CASE WatcherCancel(a)
        BY <2>2 DEF WatcherCancel, TypeOK, agentVars, hubVars, diskVars
    <2>3. CASE WatcherExit(a)
        BY <2>3 DEF WatcherExit, TypeOK, agentVars, hubVars, diskVars
    <2>4. QED
        BY <1>12, <2>1, <2>2, <2>3 DEF Watcher
<1>13. ASSUME NEW a \in Attempts, LeaseRenewal(a) PROVE Inv'
    <2>1. CASE LeaseTick(a)
        BY <2>1 DEF LeaseTick, TypeOK, agentVars, hubVars, diskVars
    <2>2. CASE LeaseRenew(a)
        BY <2>2 DEF LeaseRenew, Stages, TypeOK, agentVars, hubVars, diskVars
    <2>3. CASE LeaseExit(a)
        BY <2>3 DEF LeaseExit, TypeOK, agentVars, hubVars, diskVars
    <2>4. QED
        BY <1>13, <2>1, <2>2, <2>3 DEF LeaseRenewal
<1>14. CASE UNCHANGED vars
    BY <1>14 DEF vars, agentVars, hubVars, diskVars, opsVars
<1>15. QED
    BY <1>1, <1>2, <1>3, <1>4, <1>5, <1>6, <1>7, <1>8, <1>9, <1>10, <1>11, <1>12,
       <1>13, <1>14 DEF Next

\* The lease facts survive a step that changes no Hub status and no attempt's
\* job, gives no attempt a new hold or a new completion, and writes only the
\* state files of attempts that hold their job.
LEMMA LeaseFrame ==
    ASSUME AttemptsHaveJobs, LeaseInv, UNCHANGED <<hub, job>>, stored \subseteq stored',
           \A b \in Attempts : /\ Holding(b)' => Holding(b)
                               /\ pc'[b] = "completing" => pc[b] = "completing",
           \A j \in Jobs : \/ jobFile'[j] = jobFile[j]
                           \/ \E a \in Attempts :
                                  Holding(a) /\ job[a] = j /\ pc'[a] # "completing"
    PROVE  LeaseInv'
<1>1. OneAttemptPerJob'
    BY DEF LeaseInv, OneAttemptPerJob
<1>2. HubCompletionOnDisk'
    BY DEF LeaseInv, LeaseHeld, HubCompletionOnDisk
<1>3. ASSUME LeaseOutlivesAttempt, LocalWritesSucceed, NEW b \in Attempts, pc'[b] = "completing"
      PROVE  jobFile'[job[b]] = "completed"
    <2>1. Holding(b) /\ job[b] \in Jobs /\ jobFile[job[b]] = "completed"
        BY <1>3 DEF Holding, Live, Registered, AttemptsHaveJobs, LeaseInv, LeaseHeld
    <2>2. \A a \in Attempts : Holding(a) /\ job[a] = job[b] => a = b
        BY <1>3, <2>1 DEF LeaseInv, OneAttemptPerJob
    <2>3. QED
        BY <1>3, <2>1, <2>2
<1>4. LeaseHeld'
    BY <1>3 DEF LeaseInv, LeaseHeld
<1>5. QED
    BY <1>1, <1>2, <1>4 DEF LeaseInv

\* An attempt that moves on without reaching its completion keeps the lease
\* facts, whether or not it saves its state on the way.
LEMMA LeaseMove ==
    ASSUME AttemptsHaveJobs, LeaseInv, NEW a \in Attempts, Holding(a),
           pc'[a] # "completing", \A b \in Attempts : b # a => pc'[b] = pc[b],
           UNCHANGED <<hub, job>>, stored \subseteq stored',
           \A j \in Jobs : j # job[a] => jobFile'[j] = jobFile[j]
    PROVE  LeaseInv'
<1>1. \A b \in Attempts : /\ Holding(b)' => Holding(b)
                          /\ pc'[b] = "completing" => pc[b] = "completing"
    BY DEF Holding, Live
<1>2. QED
    BY <1>1, LeaseFrame

\* An attempt that lets go of its job while the Hub notes the outcome keeps the
\* lease facts: nobody else holds the job, and a completion is on disk.
LEMMA LeaseGivenUp ==
    ASSUME AttemptsHaveJobs, LeaseInv, NEW a \in Attempts, Holding(a),
           pc'[a] \in {"rejected", "finishing"}, \A b \in Attempts : b # a => pc'[b] = pc[b],
           \A j \in Jobs : j # job[a] => hub'[j] = hub[j],
           LeaseOutlivesAttempt => \/ hub'[job[a]] # "completed"
                                   \/ pc[a] = "completing" /\ job[a] \in stored,
           UNCHANGED <<job, jobFile, stored>>
    PROVE  LeaseInv'
<1> SUFFICES ASSUME LeaseOutlivesAttempt PROVE LeaseInv'
    BY DEF LeaseInv, LeaseHeld, OneAttemptPerJob, HubCompletionOnDisk
<1>1. ~Holding(a)' /\ pc'[a] # "completing"
    BY DEF Holding, Live, Queued, Registered, Failing
<1>2. \A b \in Attempts : b # a => Holding(b)' = Holding(b)
    BY DEF Holding, Live
<1>3. \A b \in Attempts : Holding(b) /\ b # a => job[b] \in Jobs /\ job[b] # job[a]
    BY DEF LeaseInv, OneAttemptPerJob, AttemptsHaveJobs, Holding, Live, Queued, Registered, Failing
<1>4. OneAttemptPerJob'
    BY <1>1, <1>2 DEF LeaseInv, OneAttemptPerJob
<1>5. LeaseHeld'
    BY <1>1, <1>2, <1>3 DEF LeaseInv, LeaseHeld
<1>6. HubCompletionOnDisk'
    BY DEF LeaseInv, LeaseHeld, HubCompletionOnDisk
<1>7. QED
    BY <1>4, <1>5, <1>6 DEF LeaseInv

\* Every step keeps the facts that rest on the Hub's lease.
LEMMA LeaseStep ==
    TypeOK /\ AttemptsHaveJobs /\ ReportInv /\ LeaseInv /\ [Next]_vars => LeaseInv'
<1> SUFFICES ASSUME TypeOK, AttemptsHaveJobs, ReportInv, LeaseInv, [Next]_vars PROVE LeaseInv'
    OBVIOUS
<1>1. ASSUME UNCHANGED <<pc, job, hub, diskVars>> PROVE LeaseInv'
    BY <1>1, LeaseFrame DEF diskVars, Holding, Live
<1>2. CASE \/ ClaimRequest \/ ClaimNothing \/ Shutdown \/ ToggleMarkerFile \/ ToggleDiskSpace
           \/ UNCHANGED vars
    BY <1>1, <1>2 DEF ClaimRequest, ClaimNothing, Shutdown, ToggleMarkerFile,
        ToggleDiskSpace, vars, agentVars, hubVars
<1>3. ASSUME NEW j \in Jobs, HubRequestsStop(j) PROVE LeaseInv'
    BY <1>1, <1>3 DEF HubRequestsStop, agentVars
<1>4. CASE CrashRestart
    <2>1. \A a \in Attempts : ~Holding(a)' /\ pc'[a] = "idle"
        BY <1>4 DEF CrashRestart, Holding, Live, Queued, Registered, Failing
    <2>2. ASSUME LeaseOutlivesAttempt, LocalWritesSucceed, NEW j \in Jobs, hub'[j] = "completed"
          PROVE  jobFile'[j] = "completed" /\ j \in stored'
        <3>1. hub[j] = "completed" /\ stored' = stored
            BY <1>4, <2>2 DEF CrashRestart, hubVars
        <3>2. jobFile[j] = "completed" /\ j \in stored
            BY <2>2, <3>1 DEF LeaseInv, HubCompletionOnDisk
        <3>3. \A a \in Attempts : pc[a] \in Saving => Holding(a)
            BY DEF Saving, Holding, Live, Queued, Registered, Failing
        <3>4. j \notin BeingSaved
            BY <2>2, <3>1, <3>3 DEF BeingSaved, LeaseInv, LeaseHeld
        <3>5. jobFile'[j] = jobFile[j]
            BY <1>4, <3>4 DEF CrashRestart, FilesAfterCrash
        <3>6. QED
            BY <3>1, <3>2, <3>5
    <2>3. QED
        BY <2>1, <2>2 DEF LeaseInv, LeaseHeld, OneAttemptPerJob, HubCompletionOnDisk
<1>5. ASSUME NEW j \in Jobs, ClaimLost(j) PROVE LeaseInv'
    <2>1. hub[j] = "pending" /\ hub' = [hub EXCEPT ![j] = "leased"]
          /\ UNCHANGED <<pc, job, jobFile, stored>>
        BY <1>5 DEF ClaimLost, HubGrants, agentVars, diskVars
    <2>2. QED
        BY <2>1 DEF TypeOK, LeaseInv, LeaseHeld, OneAttemptPerJob, HubCompletionOnDisk,
            Holding, Live
<1>6. ASSUME NEW j \in Jobs, HubLeaseExpires(j) PROVE LeaseInv'
    <2>1. hub' = [hub EXCEPT ![j] = "pending"] /\ UNCHANGED <<pc, job, jobFile, stored>>
          /\ (LeaseOutlivesAttempt => \A a \in Attempts : Live(a) => job[a] # j)
        BY <1>6 DEF HubLeaseExpires, agentVars, diskVars
    <2>2. QED
        BY <2>1 DEF TypeOK, LeaseInv, LeaseHeld, OneAttemptPerJob, HubCompletionOnDisk,
            Holding, Live
<1>7. ASSUME NEW a \in Attempts, NEW j \in Jobs, ClaimGranted(a, j) PROVE LeaseInv'
    <2>1. /\ hub[j] = "pending" /\ hub' = [hub EXCEPT ![j] = "leased"]
          /\ pc' = [pc EXCEPT ![a] = "admission"] /\ job' = [job EXCEPT ![a] = j]
          /\ UNCHANGED <<jobFile, stored>>
        BY <1>7 DEF ClaimGranted, HubGrants, diskVars
    <2>2. \A b \in Attempts : b # a => pc'[b] = pc[b] /\ job'[b] = job[b]
        BY <2>1 DEF TypeOK
    <2>3. pc'[a] = "admission" /\ job'[a] = j /\ hub'[j] = "leased"
        BY <2>1 DEF TypeOK
    <2>4. LeaseOutlivesAttempt => \A b \in Attempts : Holding(b) => job[b] # j /\ hub[job[b]] = "leased"
        BY <2>1 DEF LeaseInv, LeaseHeld
    <2>5. \A b \in Attempts : b # a => Holding(b)' = Holding(b)
        BY <2>2 DEF Holding, Live
    <2>6. OneAttemptPerJob'
        BY <2>2, <2>3, <2>4, <2>5 DEF LeaseInv, OneAttemptPerJob
    <2>7. HubCompletionOnDisk'
        BY <2>1 DEF LeaseInv, HubCompletionOnDisk, TypeOK
    <2>8. \A k : k # j => hub'[k] = hub[k]
        BY <2>1 DEF TypeOK
    <2>9. LeaseHeld'
        BY <2>1, <2>2, <2>3, <2>4, <2>5, <2>8 DEF LeaseInv, LeaseHeld
    <2>10. QED
        BY <2>6, <2>7, <2>9 DEF LeaseInv
<1>8. ASSUME NEW a \in Attempts, Execute(a) PROVE LeaseInv'
    <2> USE DEF Goto, Holding, Live, Queued, Registered, Failing
    <2>1. Live(a) /\ job[a] \in Jobs /\ \A b \in Attempts : b # a => pc'[b] = pc[b]
        BY <1>8, ZenonT(60) DEF Execute, Admission, Release, StartRefused, Start, SendStarted, BeginDownload,
            NoWorkDir, DownloadProgress, DownloadOk, DownloadFail, AbortDownload, BeginUpload,
            UploadOk, UploadFail, AbortUpload, RecordFailure, SendFailed, SendCompleted,
            FinishAttempt, AttemptsHaveJobs, TypeOK, agentVars
    <2>2. ASSUME NEW status, SaveState(a, status)
          PROVE  \A j \in Jobs : j # job[a] => jobFile'[j] = jobFile[j]
        BY <2>2 DEF SaveState, TypeOK
    <2>3. CASE Admission(a) \/ StartRefused(a) \/ SendStarted(a) \/ BeginUpload(a)
        BY <2>1, <2>3, LeaseMove DEF Admission, StartRefused, SendStarted, BeginUpload,
            TypeOK, hubVars, diskVars
    <2>4. CASE DownloadFail(a) \/ AbortDownload(a) \/ NoWorkDir(a)
        BY <2>1, <2>4, LeaseMove DEF DownloadFail, AbortDownload, NoWorkDir, TypeOK,
            hubVars, diskVars
    <2>5. CASE UploadFail(a) \/ AbortUpload(a)
        BY <2>1, <2>5, LeaseMove DEF UploadFail, AbortUpload, TypeOK, hubVars
    <2>6. CASE FinishAttempt(a)
        BY <2>1, <2>6, LeaseFrame DEF FinishAttempt, TypeOK, hubVars, diskVars
    <2>7. CASE Start(a) \/ BeginDownload(a) \/ DownloadOk(a)
        BY <2>1, <2>2, <2>7, LeaseMove DEF Start, BeginDownload, DownloadOk, TypeOK, hubVars
    <2>8. CASE RecordFailure(a) \/ DownloadProgress(a)
        BY <2>1, <2>2, <2>8, LeaseMove DEF RecordFailure, DownloadProgress, TypeOK,
            agentVars, hubVars
    <2>9. CASE Release(a) \/ SendFailed(a)
        <3>1. /\ Holding(a) /\ pc'[a] \in {"rejected", "finishing"}
              /\ UNCHANGED <<job, jobFile, stored>>
            BY <2>9 DEF Release, SendFailed, TypeOK, diskVars
        <3>2. \/ UNCHANGED hub
              \/ hub' = [hub EXCEPT ![job[a]] = HubOnReleased(job[a])]
              \/ \E status \in HubOnFailed(job[a]) : hub' = [hub EXCEPT ![job[a]] = status]
            BY <2>9 DEF Release, SendFailed
        <3>3. \A j \in Jobs : j # job[a] => hub'[j] = hub[j]
            BY <3>2 DEF TypeOK
        <3>4. LeaseOutlivesAttempt => hub'[job[a]] # "completed"
            BY <2>1, <3>1, <3>2 DEF HubOnReleased, HubOnFailed, LeaseInv, LeaseHeld, TypeOK
        <3>5. QED
            BY <2>1, <3>1, <3>3, <3>4, LeaseGivenUp
    <2>10. CASE SendCompleted(a)
        <3>1. /\ Holding(a) /\ pc[a] = "completing" /\ pc'[a] = "finishing"
              /\ UNCHANGED <<job, jobFile, stored>>
            BY <2>10 DEF SendCompleted, TypeOK, diskVars
        <3>2. job[a] \in stored
            BY <3>1 DEF ReportInv, ReportsComeLast
        <3>3. \A j \in Jobs : j # job[a] => hub'[j] = hub[j]
            BY <2>10 DEF SendCompleted, TypeOK
        <3>4. QED
            BY <2>1, <3>1, <3>2, <3>3, LeaseGivenUp
    <2>11. CASE UploadOk(a)
        <3>1. Holding(a) /\ job[a] \in Jobs /\ UNCHANGED <<hub, job>>
            BY <2>11 DEF UploadOk, Holding, Live, Registered, AttemptsHaveJobs, hubVars
        <3>2. stored' = stored \cup {job[a]} /\ SaveState(a, "completed")
            BY <2>11 DEF UploadOk
        <3>3. \A b \in Attempts : pc'[b] = IF b = a THEN "completing" ELSE pc[b]
            BY <2>11 DEF UploadOk, Goto, TypeOK
        <3>4. \A b \in Attempts : Holding(b)' => Holding(b)
            BY <3>1, <3>3 DEF Holding, Live
        <3>5. OneAttemptPerJob'
            BY <3>1, <3>4 DEF LeaseInv, OneAttemptPerJob
        <3>6. LocalWritesSucceed => /\ jobFile'[job[a]] = "completed"
                                    /\ \A j \in Jobs : j # job[a] => jobFile'[j] = jobFile[j]
            BY <3>1, <3>2 DEF SaveState, TypeOK
        <3>7. HubCompletionOnDisk'
            BY <3>1, <3>2, <3>6 DEF LeaseInv, HubCompletionOnDisk
        <3>8. \A b \in Attempts : pc[b] = "completing" => job[b] \in Jobs
            BY DEF AttemptsHaveJobs
        <3>9. LeaseHeld'
            BY <3>1, <3>3, <3>4, <3>6, <3>8 DEF LeaseInv, LeaseHeld
        <3>10. QED
            BY <3>5, <3>7, <3>9 DEF LeaseInv
    <2>12. QED
        BY <1>8, <2>3, <2>4, <2>5, <2>6, <2>7, <2>8, <2>9, <2>10, <2>11 DEF Execute
<1>9. ASSUME NEW a \in Attempts, Watcher(a) \/ LeaseRenewal(a) PROVE LeaseInv'
    BY <1>1, <1>9 DEF Watcher, LeaseRenewal, WatcherFetch, WatcherCancel, WatcherExit,
        LeaseTick, LeaseRenew, LeaseExit, hubVars
<1>10. QED
    BY <1>2, <1>3, <1>4, <1>5, <1>6, <1>7, <1>8, <1>9 DEF Next
=============================================================================
