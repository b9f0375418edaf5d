-------------------------- MODULE TransferExecutor --------------------------
(***************************************************************************)
(* The transfer lane of the Agent: the claim loop (internal/transfer/      *)
(* manager.go), the executor that runs one claimed job per goroutine       *)
(* (executor.go) with its control watcher and its lease renewal, the job   *)
(* tracker (stats.go, module TransferTracker), the admission policy        *)
(* (internal/ops, module OpsRuntime), the per-job state file (state.go),   *)
(* and the Media Hub as far as these use it.                               *)
(*                                                                         *)
(* An attempt is one goroutine that runs Executor.Execute.  Attempts is    *)
(* the set of their identities; an identity whose goroutines have all      *)
(* returned is used again by a later claim, so a behaviour has no bound on *)
(* the number of claims, only on how many overlap.                         *)
(*                                                                         *)
(* Every HTTP exchange with the Hub may lose the request or the response.  *)
(* What the transfer reads and writes is abstracted to "it succeeded" or   *)
(* "it failed".                                                            *)
(***************************************************************************)
EXTENDS TransferTracker, OpsRuntime

CONSTANTS
    Attempts,               \* identities of Execute goroutines
    NoJob,                  \* the job of an attempt that never ran
    ManagerOperations,      \* ManagerOptions.Operations is set
    LeaseRenewalEnabled,    \* media_hub.lease_renewal_enabled
    ControlEnabled,         \* media_hub.control_interval is not empty
    LeaseOutlivesAttempt,   \* the Hub lets no lease of a live attempt expire
    LocalWritesSucceed      \* no write of a local file fails

ASSUME ExecutorAssumption ==
    /\ IsFiniteSet(Attempts)
    /\ NoJob \notin Jobs
    /\ ManagerOperations \in BOOLEAN
    /\ LeaseRenewalEnabled \in BOOLEAN
    /\ ControlEnabled \in BOOLEAN
    /\ LeaseOutlivesAttempt \in BOOLEAN
    /\ LocalWritesSucceed \in BOOLEAN

VARIABLES
    claimer,    \* where the claim loop is
    tracker,    \* the Tracker's active map
    pc,         \* where each attempt is in Execute
    job,        \* the job each attempt runs
    stage,      \* JobState.Stage of each attempt
    ctxDone,    \* execCtx of each attempt is cancelled
    control,    \* the channel controlErr of each attempt holds an error
    watcher,    \* the control watcher goroutine of each attempt
    lease,      \* the lease renewal goroutine of each attempt
    cause,      \* the error Execute fails with
    outcome,    \* which counter of the Tracker the attempt incremented
    letter,     \* a dead letter of the attempt is on disk
    sent,       \* the terminal callbacks of the attempt that reached the Hub
    jobFile,    \* JobState.Status in the state file of each job
    stored,     \* jobs whose object is at the destination
    hub,        \* status of each job at the Media Hub
    hubControl  \* the Hub answers /control with a stop action for the job

agentVars == <<pc, job, stage, ctxDone, control, watcher, lease, cause,
               outcome, letter, sent>>
hubVars == <<hub, hubControl>>
diskVars == <<jobFile, stored>>
vars == <<claimer, tracker, agentVars, hubVars, diskVars, opsVars>>

-----------------------------------------------------------------------------
\* Program points.  Queued: claimed, and not registered with the tracker yet.
\* Registered: from TryStartJob to the deferred Finish.  Over: returned.
Queued == {"admission", "releasing", "starting"}
Failing == {"downloadErr", "uploadErr", "reporting"}
Registered == {"registered", "started", "downloading", "downloaded",
               "uploading", "completing", "finishing"} \cup Failing
Over == {"idle", "rejected", "dropped", "ended"}
ProgramPoints == Queued \cup Registered \cup Over

Running(a) == pc[a] \in Registered
Live(a) == pc[a] \in Queued \cup Registered
GoroutinesGone(a) == watcher[a] = "off" /\ lease[a] = "off"

HubStatus == {"pending", "leased", "completed", "failed"}
FileStatus == {"none", "torn", "claimed", "running", "completed", "failed"}
Callbacks == {"completed", "failed"}

\* Every variable holds a value of its type: a program point, a Hub status,
\* a file status, or a stage of the code.
TypeOK ==
    /\ OpsTypeOK
    /\ claimer \in {"waiting", "requesting", "stopped"}
    /\ tracker \in TrackerMap
    /\ pc \in [Attempts -> ProgramPoints]
    /\ job \in [Attempts -> Jobs \cup {NoJob}]
    /\ stage \in [Attempts -> Stages]
    /\ ctxDone \in [Attempts -> BOOLEAN]
    /\ control \in [Attempts -> BOOLEAN]
    /\ watcher \in [Attempts -> {"off", "polling", "cancelling"}]
    /\ lease \in [Attempts -> {"off", "waiting"} \cup Stages]
    /\ cause \in [Attempts -> {"none", "io", "ctx", "control"}]
    /\ outcome \in [Attempts -> {"none", "success", "failure"}]
    /\ letter \in [Attempts -> BOOLEAN]
    /\ sent \in [Attempts -> SUBSET Callbacks]
    /\ jobFile \in [Jobs -> FileStatus]
    /\ stored \subseteq Jobs
    /\ hub \in [Jobs -> HubStatus]
    /\ hubControl \in [Jobs -> BOOLEAN]

Init ==
    /\ OpsInit
    /\ claimer = "waiting"
    /\ tracker = NewTracker
    /\ pc = [a \in Attempts |-> "idle"]
    /\ job = [a \in Attempts |-> NoJob]
    /\ stage = [a \in Attempts |-> "claim"]
    /\ ctxDone = [a \in Attempts |-> FALSE]
    /\ control = [a \in Attempts |-> FALSE]
    /\ watcher = [a \in Attempts |-> "off"]
    /\ lease = [a \in Attempts |-> "off"]
    /\ cause = [a \in Attempts |-> "none"]
    /\ outcome = [a \in Attempts |-> "none"]
    /\ letter = [a \in Attempts |-> FALSE]
    /\ sent = [a \in Attempts |-> {}]
    /\ jobFile = [j \in Jobs |-> "none"]
    /\ stored = {}
    /\ hub = [j \in Jobs |-> "pending"]
    /\ hubControl = [j \in Jobs |-> FALSE]

-----------------------------------------------------------------------------
(* The Media Hub: how it answers each callback.  Media Hub code is not     *)
(* part of this repository.                                                *)

\* A failed attempt is always reported retryable: the Hub queues the job
\* again or gives up on it.
HubOnFailed(j) ==
    IF hub[j] = "leased" THEN {"pending", "failed"} ELSE {hub[j]}
HubOnReleased(j) == IF hub[j] = "leased" THEN "pending" ELSE hub[j]

\* A lease that is not renewed in time expires and the job is queued again.
HubLeaseExpires(j) ==
    /\ hub[j] = "leased"
    /\ LeaseOutlivesAttempt => \A a \in Attempts : Live(a) => job[a] # j
    /\ hub' = [hub EXCEPT ![j] = "pending"]
    /\ UNCHANGED <<claimer, tracker, agentVars, hubControl, diskVars, opsVars>>

\* The operator asks for cancel, pause, release or drain of a leased job.  Where
\* the Agent does not poll, the request has no effect and is left out.
HubRequestsStop(j) ==
    /\ ControlEnabled
    /\ hub[j] = "leased"
    /\ ~hubControl[j]
    /\ hubControl' = [hubControl EXCEPT ![j] = TRUE]
    /\ UNCHANGED <<claimer, tracker, agentVars, hub, diskVars, opsVars>>

\* A grant takes a queued job and forgets an older stop request.
HubGrants(j) ==
    /\ hub[j] = "pending"
    /\ hub' = [hub EXCEPT ![j] = "leased"]
    /\ hubControl' = [hubControl EXCEPT ![j] = FALSE]

-----------------------------------------------------------------------------
(* The claim loop.                                                         *)

\* What CanClaim is given: the claim loop and the executor fill in no session
\* or egress numbers in the shipped wiring.
ClaimSnapshot ==
    [activeJobs |-> ActiveJobs(tracker), maxJobs |-> MaxConcurrentJobs,
     activeSessions |-> 0, maxSessions |-> 0, egress |-> 0, maxEgress |-> 0]

\* claimOnce up to the request: the capacity check and, when the manager was
\* given the operations runtime, the admission policy.
ClaimRequest ==
    /\ claimer = "waiting"
    /\ HasCapacity(tracker)
    /\ ManagerOperations => CanClaim(ClaimSnapshot) = "allowed"
    /\ claimer' = "requesting"
    /\ UNCHANGED <<tracker, agentVars, hubVars, diskVars, opsVars>>

\* No job, an error answer, or a request that never arrived.
ClaimNothing ==
    /\ claimer = "requesting"
    /\ claimer' = "waiting"
    /\ UNCHANGED <<tracker, agentVars, hubVars, diskVars, opsVars>>

\* The Hub grants a job, and the answer is lost or does not validate.
ClaimLost(j) ==
    /\ claimer = "requesting"
    /\ HubGrants(j)
    /\ claimer' = "waiting"
    /\ UNCHANGED <<tracker, agentVars, diskVars, opsVars>>

\* The Hub grants a job and the claim loop starts Execute in a goroutine.
ClaimGranted(a, j) ==
    /\ claimer = "requesting"
    /\ pc[a] \in Over
    /\ GoroutinesGone(a)
    /\ HubGrants(j)
    /\ claimer' = "waiting"
    /\ pc' = [pc EXCEPT ![a] = "admission"]
    /\ job' = [job EXCEPT ![a] = j]
    /\ stage' = [stage EXCEPT ![a] = "claim"]
    /\ ctxDone' = [ctxDone EXCEPT ![a] = FALSE]
    /\ control' = [control EXCEPT ![a] = FALSE]
    /\ cause' = [cause EXCEPT ![a] = "none"]
    /\ outcome' = [outcome EXCEPT ![a] = "none"]
    /\ letter' = [letter EXCEPT ![a] = FALSE]
    /\ sent' = [sent EXCEPT ![a] = {}]
    /\ UNCHANGED <<tracker, watcher, lease, diskVars, opsVars>>

\* SIGTERM cancels the context of the claim loop; attempts run on their own.
Shutdown ==
    /\ claimer # "stopped"
    /\ claimer' = "stopped"
    /\ UNCHANGED <<tracker, agentVars, hubVars, diskVars, opsVars>>

-----------------------------------------------------------------------------
(* Executor.Execute.                                                       *)

Goto(a, point) == pc' = [pc EXCEPT ![a] = point]
Delivered(a, callback) == sent' = [sent EXCEPT ![a] = @ \cup {callback}]

\* StateStore.Save, whose error every caller ignores.
SaveState(a, status) ==
    \/ jobFile' = [jobFile EXCEPT ![job[a]] = status]
    \/ ~LocalWritesSucceed /\ UNCHANGED jobFile

\* StoreDeadLetter that gives up when its context is cancelled (mutant).
DeadLetterIfLive(a) == letter' = [letter EXCEPT ![a] = DeadLetterEnabled /\ ~ctxDone[a]]

\* Executor.deadLetter, whose error is ignored too.
DeadLetter(a) ==
    \/ letter' = [letter EXCEPT ![a] = DeadLetterEnabled]
    \/ ~LocalWritesSucceed /\ UNCHANGED letter

TrackStage(a, s) == tracker' = UpdateJob(tracker, job[a], s)

\* An executor without the admission policy (mutant).
AdmissionOpen(a) ==
    /\ pc[a] = "admission"
    /\ Goto(a, "starting")
    /\ UNCHANGED <<claimer, tracker, job, stage, ctxDone, control, watcher, lease,
                   cause, outcome, letter, sent, hubVars, diskVars, opsVars>>

\* admissionDecision: the tracker is read here and written by Start below.
Admission(a) ==
    /\ pc[a] = "admission"
    /\ Goto(a, IF CanClaim(ClaimSnapshot) = "allowed" THEN "starting"
                                                      ELSE "releasing")
    /\ UNCHANGED <<claimer, tracker, job, stage, ctxDone, control, watcher, lease,
                   cause, outcome, letter, sent, hubVars, diskVars, opsVars>>

\* A refused job is handed back; the error of the callback is ignored.
Release(a) ==
    /\ pc[a] = "releasing"
    /\ \/ hub' = [hub EXCEPT ![job[a]] = HubOnReleased(job[a])]
       \/ UNCHANGED hub
    /\ Goto(a, "rejected")
    /\ UNCHANGED <<claimer, tracker, job, stage, ctxDone, control, watcher, lease,
                   cause, outcome, letter, sent, hubControl, diskVars, opsVars>>

\* TryStartJob finds no slot: Execute returns and calls nobody.
StartRefused(a) ==
    /\ pc[a] = "starting"
    /\ ~HasCapacity(tracker)
    /\ Goto(a, "dropped")
    /\ UNCHANGED <<claimer, tracker, job, stage, ctxDone, control, watcher, lease,
                   cause, outcome, letter, sent, hubVars, diskVars, opsVars>>

\* TryStartJob takes a slot; the watcher and the lease renewal start and the
\* claimed state is saved.
Start(a) ==
    /\ pc[a] = "starting"
    /\ HasCapacity(tracker)
    /\ tracker' = TryStartJob(tracker, job[a])
    /\ watcher' = [watcher EXCEPT ![a] = IF ControlEnabled THEN "polling" ELSE "off"]
    /\ lease' = [lease EXCEPT ![a] = IF LeaseRenewalEnabled THEN "waiting" ELSE "off"]
    /\ SaveState(a, "claimed")
    /\ Goto(a, "registered")
    /\ UNCHANGED <<claimer, job, stage, ctxDone, control, cause, outcome, letter,
                   sent, hubVars, stored, opsVars>>

\* The started callback.  It tells the Hub nothing the model keeps, and its error
\* is ignored.
SendStarted(a) ==
    /\ pc[a] = "registered"
    /\ Goto(a, "started")
    /\ UNCHANGED <<claimer, tracker, job, stage, ctxDone, control, watcher, lease,
                   cause, outcome, letter, sent, hubVars, diskVars, opsVars>>

\* download() up to its request, which a cancelled context refuses.
BeginDownload(a) ==
    /\ pc[a] = "started"
    /\ TrackStage(a, "download")
    /\ stage' = [stage EXCEPT ![a] = "download"]
    /\ SaveState(a, "running")
    /\ IF ctxDone[a]
       THEN Goto(a, "downloadErr") /\ cause' = [cause EXCEPT ![a] = "ctx"]
       ELSE Goto(a, "downloading") /\ UNCHANGED cause
    /\ UNCHANGED <<claimer, job, ctxDone, control, watcher, lease, outcome, letter,
                   sent, hubVars, stored, opsVars>>

\* download() returns early: the directory of the job cannot be created.
NoWorkDir(a) ==
    /\ pc[a] = "started"
    /\ ~LocalWritesSucceed
    /\ TrackStage(a, "download")
    /\ cause' = [cause EXCEPT ![a] = "io"]
    /\ Goto(a, "downloadErr")
    /\ UNCHANGED <<claimer, job, stage, ctxDone, control, watcher, lease, outcome, letter,
                   sent, hubVars, diskVars, opsVars>>

\* progressWriter: the state is saved and the tracker is updated.
DownloadProgress(a) ==
    /\ pc[a] = "downloading"
    /\ TrackStage(a, "download")
    /\ SaveState(a, "running")
    /\ UNCHANGED <<claimer, agentVars, hubVars, stored, opsVars>>

DownloadOk(a) ==
    /\ pc[a] = "downloading"
    /\ SaveState(a, "running")
    /\ Goto(a, "downloaded")
    /\ UNCHANGED <<claimer, tracker, job, stage, ctxDone, control, watcher, lease,
                   cause, outcome, letter, sent, hubVars, stored, opsVars>>

\* The source fails, or a guard on status, type, size or checksum does.
DownloadFail(a) ==
    /\ pc[a] = "downloading"
    /\ cause' = [cause EXCEPT ![a] = "io"]
    /\ Goto(a, "downloadErr")
    /\ UNCHANGED <<claimer, tracker, job, stage, ctxDone, control, watcher, lease,
                   outcome, letter, sent, hubVars, diskVars, opsVars>>

\* The copy returns because execCtx was cancelled.
AbortDownload(a) ==
    /\ pc[a] = "downloading"
    /\ ctxDone[a]
    /\ cause' = [cause EXCEPT ![a] = "ctx"]
    /\ Goto(a, "downloadErr")
    /\ UNCHANGED <<claimer, tracker, job, stage, ctxDone, control, watcher, lease,
                   outcome, letter, sent, hubVars, diskVars, opsVars>>

\* upload() up to its first I/O, which a cancelled context refuses.
BeginUpload(a) ==
    /\ pc[a] = "downloaded"
    /\ TrackStage(a, "upload")
    /\ IF ctxDone[a]
       THEN Goto(a, "uploadErr") /\ cause' = [cause EXCEPT ![a] = "ctx"]
       ELSE Goto(a, "uploading") /\ UNCHANGED cause
    /\ UNCHANGED <<claimer, job, stage, ctxDone, control, watcher, lease, outcome,
                   letter, sent, hubVars, diskVars, opsVars>>

\* The completed state is not saved (mutant).
UploadOkUnsaved(a) ==
    /\ pc[a] = "uploading"
    /\ stored' = stored \cup {job[a]}
    /\ TrackStage(a, "completed")
    /\ stage' = [stage EXCEPT ![a] = "completed"]
    /\ Goto(a, "completing")
    /\ UNCHANGED <<claimer, job, ctxDone, control, watcher, lease, cause, outcome,
                   letter, sent, hubVars, jobFile, opsVars>>

\* The object is stored and the completed state is saved.
UploadOk(a) ==
    /\ pc[a] = "uploading"
    /\ stored' = stored \cup {job[a]}
    /\ TrackStage(a, "completed")
    /\ stage' = [stage EXCEPT ![a] = "completed"]
    /\ SaveState(a, "completed")
    /\ Goto(a, "completing")
    /\ UNCHANGED <<claimer, job, ctxDone, control, watcher, lease, cause, outcome,
                   letter, sent, hubVars, opsVars>>

\* The error of the upload is not looked at (mutant).
UploadFailIgnored(a) ==
    /\ pc[a] = "uploading"
    /\ stored' \in {stored, stored \cup {job[a]}}
    /\ Goto(a, "completing")
    /\ UNCHANGED <<claimer, tracker, job, stage, ctxDone, control, watcher, lease, cause,
                   outcome, letter, sent, hubVars, jobFile, opsVars>>

\* The destination fails, possibly after it stored the object.
UploadFail(a) ==
    /\ pc[a] = "uploading"
    /\ stored' \in {stored, stored \cup {job[a]}}
    /\ cause' = [cause EXCEPT ![a] = "io"]
    /\ Goto(a, "uploadErr")
    /\ UNCHANGED <<claimer, tracker, job, stage, ctxDone, control, watcher, lease,
                   outcome, letter, sent, hubVars, jobFile, opsVars>>

AbortUpload(a) ==
    /\ pc[a] = "uploading"
    /\ ctxDone[a]
    /\ stored' \in {stored, stored \cup {job[a]}}
    /\ cause' = [cause EXCEPT ![a] = "ctx"]
    /\ Goto(a, "uploadErr")
    /\ UNCHANGED <<claimer, tracker, job, stage, ctxDone, control, watcher, lease,
                   outcome, letter, sent, hubVars, jobFile, opsVars>>

\* The slot is given back as soon as the failure is known (mutant).
RecordFailureFrees(a) ==
    /\ pc[a] \in {"downloadErr", "uploadErr"}
    /\ tracker' = Finish(tracker, job[a])
    /\ cause' = [cause EXCEPT ![a] = IF control[a] THEN "control" ELSE @]
    /\ control' = [control EXCEPT ![a] = FALSE]
    /\ SaveState(a, "failed")
    /\ DeadLetter(a)
    /\ Goto(a, "reporting")
    /\ UNCHANGED <<claimer, job, stage, ctxDone, watcher, lease, outcome, sent, hubVars,
                   stored, opsVars>>

\* preferControlError takes the operator's error out of the channel, the failed
\* state is saved and the dead letter is written.
RecordFailure(a) ==
    /\ pc[a] \in {"downloadErr", "uploadErr"}
    /\ cause' = [cause EXCEPT ![a] = IF control[a] THEN "control" ELSE @]
    /\ control' = [control EXCEPT ![a] = FALSE]
    /\ stage' = [stage EXCEPT ![a] = IF pc[a] = "uploadErr" THEN "upload" ELSE @]
    /\ SaveState(a, "failed")
    /\ DeadLetter(a)
    /\ Goto(a, "reporting")
    /\ UNCHANGED <<claimer, tracker, job, ctxDone, watcher, lease, outcome, sent,
                   hubVars, stored, opsVars>>

\* The failure is reported and the transfer is tried again (mutant).
SendFailedAndRetry(a) ==
    /\ pc[a] = "reporting"
    /\ \E status \in HubOnFailed(job[a]) : hub' = [hub EXCEPT ![job[a]] = status]
    /\ Goto(a, "started")
    /\ UNCHANGED <<claimer, tracker, job, stage, ctxDone, control, watcher, lease, cause,
                   outcome, letter, sent, hubControl, diskVars, opsVars>>

\* The failed callback uses context.Background(): a cancelled attempt sends it.
SendFailed(a) ==
    /\ pc[a] = "reporting"
    /\ \/ /\ Delivered(a, "failed")
          /\ \E status \in HubOnFailed(job[a]) : hub' = [hub EXCEPT ![job[a]] = status]
       \/ UNCHANGED <<sent, hub>>
    /\ Goto(a, "finishing")
    /\ UNCHANGED <<claimer, tracker, job, stage, ctxDone, control, watcher, lease,
                   cause, outcome, letter, hubControl, diskVars, opsVars>>

\* Whatever error the completed callback ends with is reported as a failure
\* (mutant).
SendCompletedOrFailed(a) ==
    /\ pc[a] = "completing"
    /\ Delivered(a, "completed") \/ UNCHANGED sent
    /\ Goto(a, "reporting")
    /\ UNCHANGED <<claimer, tracker, job, stage, ctxDone, control, watcher, lease, cause,
                   outcome, letter, hubVars, diskVars, opsVars>>

\* The completed callback uses execCtx.  The attempt succeeds when the answer
\* arrives; the Hub may have taken the callback although it does not.
SendCompleted(a) ==
    /\ pc[a] = "completing"
    /\ \/ /\ ~ctxDone[a]
          /\ Delivered(a, "completed")
          /\ hub' = [hub EXCEPT ![job[a]] = "completed"]
          /\ outcome' \in {outcome, [outcome EXCEPT ![a] = "success"]}
       \/ UNCHANGED <<sent, hub, outcome>>
    /\ Goto(a, "finishing")
    /\ UNCHANGED <<claimer, tracker, job, stage, ctxDone, control, watcher, lease,
                   cause, letter, hubControl, diskVars, opsVars>>

\* execCtx is not cancelled and leaseStop is not closed (mutant).
FinishOnly(a) ==
    /\ pc[a] = "finishing"
    /\ tracker' = Finish(tracker, job[a])
    /\ Goto(a, "ended")
    /\ UNCHANGED <<claimer, job, stage, ctxDone, control, watcher, lease, cause, outcome,
                   letter, sent, hubVars, diskVars, opsVars>>

\* The deferred calls: close(leaseStop), cancel() and Tracker.Finish(success).
FinishAttempt(a) ==
    /\ pc[a] = "finishing"
    /\ ctxDone' = [ctxDone EXCEPT ![a] = TRUE]
    /\ tracker' = Finish(tracker, job[a])
    /\ outcome' = [outcome EXCEPT ![a] = IF @ = "success" THEN @ ELSE "failure"]
    /\ Goto(a, "ended")
    /\ UNCHANGED <<claimer, job, stage, control, watcher, lease, cause, letter, sent,
                   hubVars, diskVars, opsVars>>

-----------------------------------------------------------------------------
(* The control watcher.                                                    *)

\* The context is cancelled before the channel is filled (mutant).
WatcherCancelsFirst(a) ==
    /\ watcher[a] = "polling"
    /\ ~ctxDone[a]
    /\ hubControl[job[a]]
    /\ ctxDone' = [ctxDone EXCEPT ![a] = TRUE]
    /\ watcher' = [watcher EXCEPT ![a] = "cancelling"]
    /\ UNCHANGED <<claimer, tracker, pc, job, stage, control, lease, cause, outcome,
                   letter, sent, hubVars, diskVars, opsVars>>

\* A poll returns a stop action: its error goes into the channel first.
WatcherFetch(a) ==
    /\ watcher[a] = "polling"
    /\ ~ctxDone[a]
    /\ hubControl[job[a]]
    /\ control' = [control EXCEPT ![a] = TRUE]
    /\ watcher' = [watcher EXCEPT ![a] = "cancelling"]
    /\ UNCHANGED <<claimer, tracker, pc, job, stage, ctxDone, lease, cause, outcome,
                   letter, sent, hubVars, diskVars, opsVars>>

\* The watcher returns without cancel() (mutant).
WatcherReturns(a) ==
    /\ watcher[a] = "cancelling"
    /\ watcher' = [watcher EXCEPT ![a] = "off"]
    /\ UNCHANGED <<claimer, tracker, pc, job, stage, ctxDone, control, lease, cause,
                   outcome, letter, sent, hubVars, diskVars, opsVars>>

\* Then the watcher cancels execCtx and returns.
WatcherCancel(a) ==
    /\ watcher[a] = "cancelling"
    /\ ctxDone' = [ctxDone EXCEPT ![a] = TRUE]
    /\ watcher' = [watcher EXCEPT ![a] = "off"]
    /\ UNCHANGED <<claimer, tracker, pc, job, stage, control, lease, cause, outcome,
                   letter, sent, hubVars, diskVars, opsVars>>

WatcherExit(a) ==
    /\ watcher[a] = "polling"
    /\ ctxDone[a]
    /\ watcher' = [watcher EXCEPT ![a] = "off"]
    /\ UNCHANGED <<claimer, tracker, pc, job, stage, ctxDone, control, lease, cause,
                   outcome, letter, sent, hubVars, diskVars, opsVars>>

-----------------------------------------------------------------------------
(* The lease renewal.                                                      *)

\* The goroutine reads *state without a lock.  A read that overlaps the write
\* of Stage at the next step of Execute can return a torn string.
StageRead(a) ==
    {stage[a]} \cup (IF pc[a] \in {"started", "uploading", "uploadErr"} THEN {"torn"} ELSE {})

\* The ticker fires.  select takes a ready ticker even when the context is
\* done or the stop channel closed.
LeaseTick(a) ==
    /\ lease[a] = "waiting"
    /\ \E s \in StageRead(a) : lease' = [lease EXCEPT ![a] = s]
    /\ UNCHANGED <<claimer, tracker, pc, job, stage, ctxDone, control, watcher, cause,
                   outcome, letter, sent, hubVars, diskVars, opsVars>>

\* progress() updates the tracker and calls the Hub on context.Background().
LeaseRenew(a) ==
    /\ lease[a] \in Stages
    /\ TrackStage(a, lease[a])
    /\ lease' = [lease EXCEPT ![a] = "waiting"]
    /\ UNCHANGED <<claimer, pc, job, stage, ctxDone, control, watcher, cause, outcome,
                   letter, sent, hubVars, diskVars, opsVars>>

LeaseExit(a) ==
    /\ lease[a] = "waiting"
    /\ ctxDone[a]
    /\ lease' = [lease EXCEPT ![a] = "off"]
    /\ UNCHANGED <<claimer, tracker, pc, job, stage, ctxDone, control, watcher, cause,
                   outcome, letter, sent, hubVars, diskVars, opsVars>>

-----------------------------------------------------------------------------
\* Points at which an attempt is about to save, or is saving, its state file.
Saving == {"starting", "started", "downloading", "uploading", "downloadErr",
           "uploadErr"}

\* os.WriteFile truncates the file before it writes: a crash in between leaves
\* it empty.
BeingSaved == {job[a] : a \in {b \in Attempts : pc[b] \in Saving}}
FilesAfterCrash ==
    {[j \in Jobs |-> IF j \in torn THEN "torn" ELSE jobFile[j]] : torn \in SUBSET BeingSaved}

\* The process dies (or exits after SIGTERM without waiting for attempts) and
\* is started again.  Everything in memory is as in a new process; files and the
\* Hub's state persist, and no code reads the job state files back.
CrashRestart ==
    /\ claimer' = "waiting"
    /\ tracker' = NewTracker
    /\ pc' = [a \in Attempts |-> "idle"]
    /\ job' = [a \in Attempts |-> NoJob]
    /\ stage' = [a \in Attempts |-> "claim"]
    /\ ctxDone' = [a \in Attempts |-> FALSE]
    /\ control' = [a \in Attempts |-> FALSE]
    /\ watcher' = [a \in Attempts |-> "off"]
    /\ lease' = [a \in Attempts |-> "off"]
    /\ cause' = [a \in Attempts |-> "none"]
    /\ outcome' = [a \in Attempts |-> "none"]
    /\ letter' = [a \in Attempts |-> FALSE]
    /\ sent' = [a \in Attempts |-> {}]
    /\ jobFile' \in FilesAfterCrash
    /\ OpsRestart
    /\ UNCHANGED <<stored, hubVars>>

ToggleMarkerFile ==
    ToggleMarker /\ UNCHANGED <<claimer, tracker, agentVars, hubVars, diskVars>>
ToggleDiskSpace ==
    ToggleDisk /\ UNCHANGED <<claimer, tracker, agentVars, hubVars, diskVars>>

-----------------------------------------------------------------------------
Execute(a) ==
    \/ Admission(a) \/ Release(a) \/ StartRefused(a) \/ Start(a) \/ SendStarted(a)
    \/ BeginDownload(a) \/ NoWorkDir(a) \/ DownloadProgress(a) \/ DownloadOk(a)
    \/ DownloadFail(a) \/ AbortDownload(a) \/ BeginUpload(a) \/ UploadOk(a)
    \/ UploadFail(a) \/ AbortUpload(a) \/ RecordFailure(a) \/ SendFailed(a)
    \/ SendCompleted(a) \/ FinishAttempt(a)

Watcher(a) == WatcherFetch(a) \/ WatcherCancel(a) \/ WatcherExit(a)
LeaseRenewal(a) == LeaseTick(a) \/ LeaseRenew(a) \/ LeaseExit(a)

Next ==
    \/ ClaimRequest \/ ClaimNothing \/ Shutdown \/ CrashRestart
    \/ ToggleMarkerFile \/ ToggleDiskSpace
    \/ \E j \in Jobs : ClaimLost(j) \/ HubLeaseExpires(j) \/ HubRequestsStop(j)
    \/ \E a \in Attempts, j \in Jobs : ClaimGranted(a, j)
    \/ \E a \in Attempts : Execute(a) \/ Watcher(a) \/ LeaseRenewal(a)

Spec == Init /\ [][Next]_vars

-----------------------------------------------------------------------------
(* Fairness.  The code's own steps are taken; a callback ends because the  *)
(* Hub client has a 15 s timeout; a control poll gets through in the end.  *)
(* A transfer may stall for ever: the download client has no timeout.      *)

CodeStep(a) ==
    \/ Admission(a) \/ Release(a) \/ StartRefused(a) \/ Start(a) \/ SendStarted(a)
    \/ BeginDownload(a) \/ NoWorkDir(a) \/ AbortDownload(a) \/ BeginUpload(a) \/ AbortUpload(a)
    \/ RecordFailure(a) \/ SendFailed(a) \/ SendCompleted(a) \/ FinishAttempt(a)

\* Go's select picks at random among the ready cases, so a lease goroutine that
\* may return again and again does return: strong fairness.
CodeFairness ==
    \A a \in Attempts :
        /\ WF_vars(CodeStep(a))
        /\ WF_vars(Watcher(a))
        /\ WF_vars(LeaseRenew(a))
        /\ SF_vars(LeaseExit(a))

FairSpec == Spec /\ CodeFairness

-----------------------------------------------------------------------------
(* Safety.                                                                 *)

\* The tracker never holds more than max_concurrent_jobs jobs, although the
\* claim loop and the admission check read it before TryStartJob writes it.
SlotLimit == ActiveJobs(tracker) <= MaxConcurrentJobs

\* No slot leaks: a job in the tracker has an attempt that will call Finish for
\* it.  A lease renewal that outlives its attempt does not bring the job back.
NoLeakedSlot ==
    \A j \in Tracked(tracker) : \E a \in Attempts : Running(a) /\ job[a] = j

\* With max_concurrent_jobs = 1 (the shipped agent.yaml) at most one attempt
\* runs, and it is in the tracker, whatever the Hub grants twice.
SingleSlotIsExclusive ==
    MaxConcurrentJobs = 1 =>
        \A a \in Attempts : Running(a) =>
            /\ tracker[job[a]] # NoEntry
            /\ \A b \in Attempts : Running(b) => b = a

\* From admission to the report of its result an attempt holds the Hub's lease.
Holding(a) == Live(a) /\ pc[a] # "finishing"

\* If the Hub never lets the lease of a live attempt expire, two attempts never
\* work on the same job, hence never on the same payload.part: a retry of a
\* failed job can overlap only the last step of the attempt that failed.
OneAttemptPerJob ==
    LeaseOutlivesAttempt =>
        \A a, b \in Attempts :
            Holding(a) /\ Holding(b) /\ job[a] = job[b] => a = b

\* The Hub hears "completed" from an attempt only once its object is stored,
\* never hears "failed" from the same attempt, and the attempt is counted as a
\* success only if the Hub heard it.
CompletedMeansStored ==
    \A a \in Attempts :
        /\ "completed" \in sent[a] => job[a] \in stored /\ "failed" \notin sent[a]
        /\ outcome[a] = "success" => "completed" \in sent[a]

\* If the Hub never lets the lease of a live attempt expire and local writes
\* succeed, a job completed at the Hub is completed in its state file too,
\* through retries, lost callbacks and crashes.
HubCompletionOnDisk ==
    LeaseOutlivesAttempt /\ LocalWritesSucceed =>
        \A j \in Jobs : hub[j] = "completed" => jobFile[j] = "completed" /\ j \in stored

\* An attempt that an operator stopped is reported with the operator's error,
\* never with the bare "context canceled" it caused: the watcher fills the
\* channel before it cancels.
OperatorReasonReported ==
    \A a \in Attempts :
        pc[a] \in {"reporting", "finishing", "ended"} => cause[a] # "ctx"

\* When the Hub hears of a failure the dead letter of the attempt is on disk, so
\* a crash at any later point loses no letter of a failure the Hub knows.
LetterBeforeFailed ==
    DeadLetterEnabled /\ LocalWritesSucceed =>
        \A a \in Attempts : "failed" \in sent[a] => letter[a]

-----------------------------------------------------------------------------
(* The inductive invariant behind the safety properties.                   *)

\* An attempt that was claimed has a job, and its two goroutines exist only
\* from Start on.
AttemptsHaveJobs ==
    \A a \in Attempts :
        /\ pc[a] # "idle" => job[a] \in Jobs
        /\ ~GoroutinesGone(a) => pc[a] \in Registered \cup {"ended"}

\* The terminal callback is the last thing before the deferred calls.
ReportsComeLast ==
    \A a \in Attempts :
        /\ pc[a] \notin {"finishing", "ended"} => sent[a] = {} /\ outcome[a] = "none"
        /\ sent[a] \in {{}, {"completed"}, {"failed"}}
        /\ pc[a] = "completing" => job[a] \in stored
        /\ DeadLetterEnabled /\ LocalWritesSucceed /\ pc[a] = "reporting" => letter[a]

\* Until the failure is recorded, a context that is or is about to be cancelled
\* has the operator's error in the channel.
CancelledByOperator ==
    \A a \in Attempts :
        /\ pc[a] \in Queued => ~ctxDone[a]
        /\ pc[a] \in Registered \ {"reporting", "finishing"} =>
              (ctxDone[a] \/ watcher[a] = "cancelling" => control[a])
        /\ cause[a] = "ctx" => pc[a] \in {"downloadErr", "uploadErr"} /\ ctxDone[a]

\* Under the lease assumption an attempt that has not reported yet holds the
\* lease of its job, and no other attempt writes its state file.
LeaseHeld ==
    LeaseOutlivesAttempt =>
        \A a \in Attempts :
            /\ Holding(a) => hub[job[a]] = "leased"
            /\ LocalWritesSucceed /\ pc[a] = "completing" => jobFile[job[a]] = "completed"

SlotInv == TypeOK /\ AttemptsHaveJobs /\ SlotLimit /\ NoLeakedSlot
ReportInv == ReportsComeLast /\ CompletedMeansStored /\ LetterBeforeFailed
ControlInv == CancelledByOperator /\ OperatorReasonReported
LeaseInv == LeaseHeld /\ OneAttemptPerJob /\ HubCompletionOnDisk

\* Together the parts are preserved by every step of the lane.
LaneInv == SlotInv /\ SingleSlotIsExclusive /\ ReportInv /\ ControlInv /\ LeaseInv

-----------------------------------------------------------------------------
(* Action and liveness properties.                                         *)

\* No claim request leaves the Agent while a drain is requested
\* (docs/development/operational-hardening.md, "Drain").
NoClaimWhileDraining ==
    [][claimer = "waiting" /\ claimer' = "requesting" => ~DrainRequested]_vars

\* Once a drain is requested for good the node comes to rest: from some point on
\* an attempt that still runs is one whose source or destination never answers.
DrainQuiesces ==
    <>[]DrainRequested =>
        <>[](\A a \in Attempts : Running(a) => pc[a] \in {"downloading", "uploading"})

\* An attempt whose job the operator wants stopped ends, even if its source or
\* its destination never answers.
StopRequestEndsAttempt ==
    \A a \in Attempts : Running(a) /\ hubControl[job[a]] ~> ~Running(a)

\* The watcher and the lease renewal of an attempt that ended return.
GoroutinesReturn ==
    \A a \in Attempts : pc[a] = "ended" ~> GoroutinesGone(a)

\* So an attempt that an operator stops ends, with everything it started.
AttemptsEnd == StopRequestEndsAttempt /\ GoroutinesReturn

-----------------------------------------------------------------------------
(* The contract the lane implements.                                       *)

Contract == INSTANCE TransferContract WITH
    Limit <- MaxConcurrentJobs,
    slots <- Tracked(tracker),
    objects <- stored,
    work <- job,
    report <- sent

\* Every step of the lane is a step of TransferContract or changes nothing it
\* sees: slots are taken below the limit only and reappear for no finished
\* attempt, an attempt reports once, and success only for a stored object.
ImplementsContract == Contract!Spec

-----------------------------------------------------------------------------
(* What documents of the repository say and the code does not do.          *)

\* "failed transfer attempts are persisted as JSON under
\* media_hub.dead_letter_dir when enabled": an attempt that the tracker counts
\* as failed has a dead letter.
FailedAttemptsDeadLettered ==
    DeadLetterEnabled /\ LocalWritesSucceed =>
        \A a \in Attempts : outcome[a] = "failure" => letter[a]

\* "Every claimed/executed job gets a JSON state file".
ClaimedJobHasStateFile ==
    LocalWritesSucceed =>
        \A a \in Attempts : pc[a] \in {"rejected", "dropped"} => jobFile[job[a]] # "none"

\* "Save writes state atomically enough for Agent crash recovery": a state file
\* is never left truncated.
StateFileWhole == \A j \in Jobs : jobFile[j] # "torn"

\* "the Agent rejects new claims/sessions once job, session or egress limits
\* are reached": no more than max_concurrent_jobs transfers run at a time.
Transferring == {a \in Attempts : pc[a] \in {"downloading", "downloaded", "uploading"}}
TransfersWithinLimit == Cardinality(Transferring) <= MaxConcurrentJobs
=============================================================================
