-------------------------- MODULE TransferContract --------------------------
(***************************************************************************)
(* What the transfer lane promises to the Media Hub and to the operator,   *)
(* without goroutines, contexts or program points: a table of at most      *)
(* Limit slots, a store of objects, and for each attempt the at most one   *)
(* terminal report that reaches the Hub.  TransferExecutor implements it.  *)
(***************************************************************************)
EXTENDS Integers, FiniteSets

CONSTANTS Jobs, Attempts, NoJob, Limit

VARIABLES
    slots,     \* jobs that occupy a slot
    objects,   \* jobs whose object is stored
    work,      \* the job of each attempt
    report     \* the terminal reports of each attempt that reached the Hub

vars == <<slots, objects, work, report>>

Init ==
    /\ slots = {}
    /\ objects = {}
    /\ work = [a \in Attempts |-> NoJob]
    /\ report = [a \in Attempts |-> {}]

\* An attempt takes a granted job.  It has no slot yet.
Take(a, j) ==
    /\ work' = [work EXCEPT ![a] = j]
    /\ report' = [report EXCEPT ![a] = {}]
    /\ UNCHANGED <<slots, objects>>

\* A slot is occupied for the job of an attempt, below the limit only.
Acquire(a) ==
    /\ Cardinality(slots) < Limit
    /\ report[a] = {}
    /\ slots' = slots \cup {work[a]}
    /\ UNCHANGED <<objects, work, report>>

Store(a) ==
    /\ report[a] = {}
    /\ objects' = objects \cup {work[a]}
    /\ UNCHANGED <<slots, work, report>>

\* Success is reported once, and for a stored object.
ReportCompleted(a) ==
    /\ report[a] = {}
    /\ work[a] \in objects
    /\ report' = [report EXCEPT ![a] = {"completed"}]
    /\ UNCHANGED <<slots, objects, work>>

ReportFailed(a) ==
    /\ report[a] = {}
    /\ report' = [report EXCEPT ![a] = {"failed"}]
    /\ UNCHANGED <<slots, objects, work>>

\* An attempt gives the slot of its job back, with or without a report.
Free(a) ==
    /\ slots' = slots \ {work[a]}
    /\ UNCHANGED <<objects, work, report>>

\* A new process: no slot is taken and no attempt exists.
Restart ==
    /\ slots' = {}
    /\ work' = [a \in Attempts |-> NoJob]
    /\ report' = [a \in Attempts |-> {}]
    /\ UNCHANGED objects

Next ==
    \/ Restart
    \/ \E a \in Attempts :
        \/ \E j \in Jobs : Take(a, j)
        \/ Acquire(a) \/ Store(a) \/ ReportCompleted(a) \/ ReportFailed(a) \/ Free(a)

Spec == Init /\ [][Next]_vars
=============================================================================
