------------------------------ MODULE Cluster ------------------------------
(***************************************************************************)
(* The agent registry and the failover planner (internal/cluster).         *)
(*                                                                         *)
(* Agents register and report heartbeats, in any order, while PlanFailover *)
(* works on the list it was given: it assigns the jobs of a failed agent   *)
(* one by one to the agent SelectLeastLoaded picks.  An agent's ID is its  *)
(* place in the order of IDs.                                              *)
(***************************************************************************)
EXTENDS Integers, FiniteSets, Sequences, Functions

CONSTANTS
    Agents,         \* IDs, ordered as numbers
    Capacity,       \* capacity of each agent
    Fingerprint,    \* its fingerprint, as a number
    MaxActive,      \* bound on the jobs a heartbeat reports
    MaxJobs         \* bound on the jobs of a plan

ASSUME ClusterAssumption ==
    /\ Agents \subseteq Nat /\ IsFiniteSet(Agents)
    /\ Capacity \in [Agents -> Nat \ {0}]
    /\ Fingerprint \in [Agents -> Nat]
    /\ MaxActive \in Nat /\ MaxJobs \in Nat

Statuses == {"available", "draining", "unhealthy"}

VARIABLES
    registry,       \* registered agents, with status and active jobs
    failed,         \* the agent a plan is for, NoAgent when there is none
    pool,           \* PlanFailover: available, with the jobs they have by now
    base,           \* the jobs they had in the list
    queued,         \* jobs still to be assigned
    assigned,       \* jobs each agent was given
    unassigned      \* jobs nobody was given

NoAgent == -1
Unlisted == -2      \* an ID nobody has registered
plan == <<failed, pool, base, queued, assigned, unassigned>>
clusterVars == <<registry, plan>>

ValidateAgent(a, active, status) == status \in Statuses /\ active <= Capacity[a]

(* Register replaces the agent.                                            *)
Register(a, active, status) ==
    /\ ValidateAgent(a, active, status)
    /\ registry' = [x \in DOMAIN registry \cup {a} |->
                        IF x = a THEN [status |-> status, active |-> active] ELSE registry[x]]
    /\ UNCHANGED plan

(* A heartbeat with any status (mutant).                                   *)
HeartbeatUnchecked(a, active, status) ==
    /\ a \in DOMAIN registry
    /\ registry' = [registry EXCEPT ![a] = [status |-> status, active |-> active]]
    /\ UNCHANGED plan

(* UpdateHeartbeat does not validate the agent again.                      *)
UpdateHeartbeat(a, active, status) ==
    /\ status \in Statuses
    /\ a \in DOMAIN registry
    /\ registry' = [registry EXCEPT ![a] = [status |-> status, active |-> active]]
    /\ UNCHANGED plan

-----------------------------------------------------------------------------
(* The load ratios compared, and ties by ID.                               *)
LessLoaded(jobs, a, b) ==
    \/ jobs[a] * Capacity[b] < jobs[b] * Capacity[a]
    \/ jobs[a] * Capacity[b] = jobs[b] * Capacity[a] /\ a <= b

(* SelectLeastLoaded: who has room, and the least loaded of them.          *)
Candidates(jobs) == {a \in DOMAIN jobs : jobs[a] < Capacity[a]}

(* The load is the number of jobs (mutant).                                *)
SelectFewestJobs(jobs) ==
    CHOOSE a \in Candidates(jobs) :
        \A b \in Candidates(jobs) : jobs[a] < jobs[b] \/ (jobs[a] = jobs[b] /\ a <= b)

SelectLeastLoaded(jobs) ==
    CHOOSE a \in Candidates(jobs) : \A b \in Candidates(jobs) : LessLoaded(jobs, a, b)

(* ElectLeader: the available agent with the smallest fingerprint.         *)
Electable == {a \in DOMAIN registry : registry[a].status = "available"}


ElectLeader ==
    IF Electable = {} THEN NoAgent
    ELSE CHOOSE a \in Electable : \A b \in Electable :
            \/ Fingerprint[a] < Fingerprint[b]
            \/ Fingerprint[a] = Fingerprint[b] /\ a <= b

-----------------------------------------------------------------------------
(* The agents PlanFailover may use.                                        *)
Available(f) ==
    {a \in DOMAIN registry : /\ a # f
                             /\ registry[a].status = "available"
                             /\ registry[a].active < Capacity[a]}

(* PlanFailover with a list of the registry.                               *)
PlanFailover(f, n) ==
    /\ failed = NoAgent
    /\ failed' = f
    /\ base' = [a \in Available(f) |-> registry[a].active]
    /\ pool' = base'
    /\ queued' = n
    /\ assigned' = [a \in Agents |-> 0]
    /\ unassigned' = 0
    /\ UNCHANGED registry

(* The agents are chosen by the loads of the list (mutant).                *)
AssignStale ==
    /\ failed # NoAgent /\ queued > 0
    /\ queued' = queued - 1
    /\ IF Candidates(base) = {}
       THEN unassigned' = unassigned + 1 /\ UNCHANGED <<pool, assigned>>
       ELSE LET target == SelectLeastLoaded(base)
            IN /\ assigned' = [assigned EXCEPT ![target] = @ + 1]
               /\ pool' = [pool EXCEPT ![target] = @ + 1]
               /\ UNCHANGED unassigned
    /\ UNCHANGED <<registry, failed, base>>

(* One job of the loop.                                                    *)
Assign ==
    /\ failed # NoAgent /\ queued > 0
    /\ queued' = queued - 1
    /\ IF Candidates(pool) = {}
       THEN unassigned' = unassigned + 1 /\ UNCHANGED <<pool, assigned>>
       ELSE LET target == SelectLeastLoaded(pool)
            IN /\ assigned' = [assigned EXCEPT ![target] = @ + 1]
               /\ pool' = [pool EXCEPT ![target] = @ + 1]
               /\ UNCHANGED unassigned
    /\ UNCHANGED <<registry, failed, base>>

(* The plan is returned.                                                   *)
PlanDone ==
    /\ failed # NoAgent /\ queued = 0
    /\ failed' = NoAgent
    /\ UNCHANGED <<registry, pool, base, queued, assigned, unassigned>>

NoJobs == [a \in {} |-> 0]

ClusterInit ==
    /\ registry = [a \in {} |-> [status |-> "available", active |-> 0]]
    /\ failed = NoAgent
    /\ pool = NoJobs /\ base = NoJobs
    /\ queued = 0
    /\ assigned = [a \in Agents |-> 0]
    /\ unassigned = 0

ClusterNext ==
    \/ \E a \in Agents, n \in 0..MaxActive, s \in Statuses \cup {"unknown"} :
          Register(a, n, s) \/ UpdateHeartbeat(a, n, s)
    \/ \E f \in Agents \cup {Unlisted}, n \in 0..MaxJobs : PlanFailover(f, n)
    \/ Assign
    \/ PlanDone

ClusterSpec == ClusterInit /\ [][ClusterNext]_clusterVars

-----------------------------------------------------------------------------
(* Type correctness of the state.                                          *)
ClusterTypeOK ==
    /\ DOMAIN registry \subseteq Agents
    /\ \A a \in DOMAIN registry : registry[a] \in [status : Statuses, active : Nat]
    /\ failed \in Agents \cup {NoAgent, Unlisted}
    /\ DOMAIN pool \subseteq Agents /\ DOMAIN base = DOMAIN pool
    /\ \A a \in DOMAIN pool : pool[a] \in Nat /\ base[a] \in Nat
    /\ {queued, unassigned} \subseteq Nat
    /\ assigned \in [Agents -> Nat]

(* A plan never gives an agent more jobs than it had room for, never gives *)
(* the failed agent any, and leaves a job out only when everybody is full. *)
PlanWithinCapacity ==
    /\ \A a \in Agents : assigned[a] > 0 =>
          a \in DOMAIN base /\ a # failed /\ base[a] + assigned[a] <= Capacity[a]
    /\ unassigned > 0 => \A a \in DOMAIN base : base[a] + assigned[a] = Capacity[a]

(* A plan is balanced: nobody with room would be left less loaded by       *)
(* taking over the last job another agent was given.                       *)
PlanBalanced ==
    \A a, b \in DOMAIN base :
        assigned[a] > 0 /\ base[b] + assigned[b] < Capacity[b] =>
            (base[a] + assigned[a] - 1) * Capacity[b] <= (base[b] + assigned[b]) * Capacity[a]

(* A leader that stays available loses the election only to an agent that  *)
(* became available in that step: heartbeats do not make it change.        *)
LeaderStable ==
    [][ ElectLeader' # ElectLeader /\ ElectLeader \in Electable' =>
            ElectLeader' \notin Electable ]_clusterVars

=============================================================================
