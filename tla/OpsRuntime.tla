----------------------------- MODULE OpsRuntime -----------------------------
(***************************************************************************)
(* The operational-hardening runtime of internal/ops/runtime.go: the drain *)
(* flag and the drain marker file, the disk guard, and the two admission   *)
(* decisions (CanClaim for transfer jobs, CanAcceptGatewaySession for      *)
(* public streams).                                                        *)
(***************************************************************************)
EXTENDS Integers

CONSTANTS
    DrainEnabled,          \* media_hub.drain_enabled
    BackpressureEnabled,   \* media_hub.backpressure_enabled
    DiskGuardEnabled,      \* media_hub.disk_guard_enabled
    DeadLetterEnabled,     \* media_hub.dead_letter_enabled
    CfgMaxSessions,        \* media_hub.max_sessions
    CfgMaxEgressMbps       \* media_hub.max_egress_mbps

ASSUME OpsAssumption ==
    /\ DrainEnabled \in BOOLEAN
    /\ BackpressureEnabled \in BOOLEAN
    /\ DiskGuardEnabled \in BOOLEAN
    /\ DeadLetterEnabled \in BOOLEAN
    /\ CfgMaxSessions \in Int
    /\ CfgMaxEgressMbps \in Int

VARIABLES
    manualDrain,   \* Runtime.manualDrain
    marker,        \* the file media_hub.drain_file exists
    diskLow        \* Statfs fails, or reports less than disk_min_free_bytes

opsVars == <<manualDrain, marker, diskLow>>

OpsTypeOK ==
    /\ manualDrain \in BOOLEAN
    /\ marker \in BOOLEAN
    /\ diskLow \in BOOLEAN

OpsInit ==
    /\ manualDrain = FALSE
    /\ marker \in {FALSE, DrainEnabled}
    /\ diskLow \in {FALSE, DiskGuardEnabled}

-----------------------------------------------------------------------------
FirstPositive(a, b) == IF a > 0 THEN a ELSE IF b > 0 THEN b ELSE 0

DrainRequested == DrainEnabled /\ (manualDrain \/ marker)

\* A limit that is not positive is no limit.
AtLimit(limit, current) == limit > 0 /\ current >= limit

SessionsFull(snapshot) ==
    BackpressureEnabled
        /\ AtLimit(FirstPositive(snapshot.maxSessions, CfgMaxSessions),
                   snapshot.activeSessions)

EgressFull(snapshot) ==
    BackpressureEnabled
        /\ AtLimit(FirstPositive(snapshot.maxEgress, CfgMaxEgressMbps),
                   snapshot.egress)

\* The checks run in this order and the first that applies is the reason.
CanClaim(snapshot) ==
    IF DrainRequested THEN "drain"
    ELSE IF AtLimit(snapshot.maxJobs, snapshot.activeJobs) THEN "capacity"
    ELSE IF SessionsFull(snapshot) THEN "sessions"
    ELSE IF EgressFull(snapshot) THEN "egress"
    ELSE IF DiskGuardEnabled /\ diskLow THEN "disk"
    ELSE "allowed"

CanAcceptGatewaySession(snapshot) ==
    IF DrainRequested THEN "drain"
    ELSE IF SessionsFull(snapshot) THEN "sessions"
    ELSE IF EgressFull(snapshot) THEN "egress"
    ELSE "allowed"

-----------------------------------------------------------------------------
RequestDrain == manualDrain' = TRUE /\ UNCHANGED <<marker, diskLow>>
ClearDrain == manualDrain' = FALSE /\ UNCHANGED <<marker, diskLow>>

\* The operator creates or removes the marker file.  It matters, and is
\* modelled, only where drain is enabled.
ToggleMarker ==
    DrainEnabled /\ marker' = ~marker /\ UNCHANGED <<manualDrain, diskLow>>

\* The file system fills up or is cleaned by anyone; likewise.
ToggleDisk ==
    DiskGuardEnabled /\ diskLow' = ~diskLow /\ UNCHANGED <<manualDrain, marker>>

\* A new process starts without the in-memory flag; the file system persists.
OpsRestart == manualDrain' = FALSE /\ UNCHANGED <<marker, diskLow>>
=============================================================================
