-------------------------- MODULE TransferTracker --------------------------
(***************************************************************************)
(* The in-memory job tracker of internal/transfer/stats.go: a map from job *)
(* UUID to the details of the job that is running, guarded by one mutex,   *)
(* so every method is one atomic operator on the map.                      *)
(*                                                                         *)
(* The map is a total function on Jobs whose value NoEntry stands for an   *)
(* absent key.  Of the details only the stage is kept.  The two terminal   *)
(* counters are kept per attempt, by the module that calls Finish.         *)
(***************************************************************************)
EXTENDS Integers, FiniteSets

CONSTANTS
    Jobs,                         \* job UUIDs
    ConfiguredMaxConcurrentJobs   \* media_hub.max_concurrent_jobs

ASSUME TrackerAssumption ==
    /\ IsFiniteSet(Jobs)
    /\ ConfiguredMaxConcurrentJobs \in Int

\* NewTracker replaces a non-positive limit by one.
MaxConcurrentJobs ==
    IF ConfiguredMaxConcurrentJobs <= 0 THEN 1 ELSE ConfiguredMaxConcurrentJobs

\* "torn" is the garbled text an unsynchronised read of a stage can return.
Stages == {"claim", "download", "upload", "completed", "torn"}
NoEntry == "none"
TrackerMap == [Jobs -> Stages \cup {NoEntry}]

NewTracker == [j \in Jobs |-> NoEntry]

Tracked(t) == {j \in Jobs : t[j] # NoEntry}

\* Snapshot().ActiveJobs
ActiveJobs(t) == Cardinality(Tracked(t))

\* Off by one (mutant).
HasCapacityAtLimit(t) == ActiveJobs(t) <= MaxConcurrentJobs

\* TryStartJob succeeds below the limit, and then overwrites an entry that the
\* same UUID may already have.
HasCapacity(t) == ActiveJobs(t) < MaxConcurrentJobs
TryStartJob(t, j) == [t EXCEPT ![j] = "claim"]

\* UpdateJob that creates the entry it does not find (mutant).
UpdateJobCreates(t, j, s) == [t EXCEPT ![j] = s]

\* UpdateJob changes an entry that exists and never creates one.
UpdateJob(t, j, s) == IF t[j] = NoEntry THEN t ELSE [t EXCEPT ![j] = s]

Finish(t, j) == [t EXCEPT ![j] = NoEntry]
=============================================================================
