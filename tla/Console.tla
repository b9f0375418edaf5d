------------------------------ MODULE Console ------------------------------
(***************************************************************************)
(* The recorder of the local development console (internal/devui): what    *)
(* request goroutines, the Media Hub client and the transfer executor      *)
(* record, the ring and the counters it goes into, and the summary that    *)
(* overviewHandler folds out of the ring.                                  *)
(*                                                                         *)
(* A record gets its finish time before the lock of the recorder is taken, *)
(* so records can be stored in another order than they finished.  A call   *)
(* of the Media Hub client is recorded twice, since runServe gives the     *)
(* client both of its traces.  Paths stand for the routes, endpoints and   *)
(* stages that classifyFunction tells apart.  A request whose handler      *)
(* panics unwinds past the recorder and leaves no record.                  *)
(***************************************************************************)
EXTENDS Naturals, Sequences, SequencesExt, FiniteSets, FiniteSetsExt, TLC

CONSTANTS
    Callers,        \* goroutines that record
    TraceJobs,      \* UUIDs of transfer jobs
    NoJob,          \* the empty UUID
    Retention,      \* records the ring keeps
    WindowLimit,    \* records a summary looks at, 500 in overviewHandler
    MaxRequests     \* bound on requests, calls and events

ASSUME ConsoleAssumption ==
    /\ Retention \in Nat \ {0} /\ WindowLimit \in Nat \ {0} /\ MaxRequests \in Nat
    /\ NoJob \notin TraceJobs

VARIABLES
    records,    \* the ring, oldest first
    nextID,     \* the ID given last
    counters,   \* aggregates since the start
    pending,    \* records a caller has still to make
    stamped,    \* the first of them has its finish time
    now,        \* the clock
    traced      \* requests, calls and events so far, per direction

consoleVars == <<records, nextID, counters, pending, stamped, now, traced>>

Directions == {"inbound", "outbound", "event"}

Trace(direction, path, job, failed) ==
    [direction |-> direction, path |-> path, job |-> job, failed |-> failed, finished |-> 0]

(* What inferOutboundTraceFields finds in the path, and in the job of the  *)
(* answer: only the detailed trace of a claim knows the claimed job, and   *)
(* takes a message of it for an error.                                     *)
InferredJob(path, job) == IF path = "progress" THEN job ELSE NoJob

(* The middleware around an inbound request.                               *)
Middleware(c) ==
    \E path \in {"console", "worker"}, failed \in BOOLEAN :
        /\ pending' = [pending EXCEPT ![c] = <<Trace("inbound", path, NoJob, failed)>>]
        /\ traced' = [traced EXCEPT !["inbound"] = @ + 1]

(* A call of the client ends: the compact trace, then the detailed one.    *)
HubCall(c) ==
    \E path \in {"heartbeat", "claim", "progress"}, failed, message \in BOOLEAN, job \in TraceJobs \cup {NoJob} :
        /\ path = "heartbeat" => job = NoJob /\ ~ message
        /\ path = "progress" => job # NoJob /\ ~ message
        /\ path = "claim" => (failed \/ job = NoJob => job = NoJob /\ ~ message)
        /\ pending' = [pending EXCEPT ![c] =
              << Trace("outbound", path, InferredJob(path, job), failed),
                 Trace("outbound", path, job, failed \/ message) >>]
        /\ traced' = [traced EXCEPT !["outbound"] = @ + 1]

(* The executor records a step of a transfer; its status is 0.             *)
RecordTransferEvent(c) ==
    \E stage \in {"download.start", "upload.completed"}, job \in TraceJobs :
        /\ pending' = [pending EXCEPT ![c] = <<Trace("event", stage, job, FALSE)>>]
        /\ traced' = [traced EXCEPT !["event"] = @ + 1]

Ends(c) ==
    /\ pending[c] = <<>> /\ SumFunction(traced) < MaxRequests
    /\ Middleware(c) \/ HubCall(c) \/ RecordTransferEvent(c)
    /\ UNCHANGED <<records, nextID, counters, stamped, now>>

(* The finish time, which may be that of the record before.                *)
Stamp(c) ==
    /\ pending[c] # <<>> /\ ~ stamped[c]
    /\ now' \in {now, now + 1}
    /\ pending' = [pending EXCEPT ![c][1].finished = now']
    /\ stamped' = [stamped EXCEPT ![c] = TRUE]
    /\ UNCHANGED <<records, nextID, counters, traced>>


Keep(s) == IF Len(s) > Retention THEN SubSeq(s, Len(s) - Retention + 1, Len(s)) ELSE s

(* A failed call is no outbound call (mutant).                             *)
CountEither(r) ==
    [counters EXCEPT
        ![IF r.failed THEN "errors" ELSE r.direction] = @ + 1,
        !.lastFailed = r.failed]

Count(r) ==
    [counters EXCEPT
        ![r.direction] = @ + 1,
        !.errors = IF r.failed THEN @ + 1 ELSE @,
        !.lastFailed = r.failed]

(* Record, under the lock.                                                 *)
Record(c) ==
    /\ stamped[c]
    /\ nextID' = nextID + 1
    /\ records' = Keep(Append(records, Head(pending[c])))
    /\ counters' = Count(Head(pending[c]))
    /\ pending' = [pending EXCEPT ![c] = Tail(@)]
    /\ stamped' = [stamped EXCEPT ![c] = FALSE]
    /\ UNCHANGED <<now, traced>>

ConsoleInit ==
    /\ records = <<>> /\ nextID = 0
    /\ counters = [inbound |-> 0, outbound |-> 0, event |-> 0, errors |-> 0, lastFailed |-> FALSE]
    /\ pending = [c \in Callers |-> <<>>]
    /\ stamped = [c \in Callers |-> FALSE]
    /\ now = 1
    /\ traced = [d \in Directions |-> 0]

ConsoleNext == \E c \in Callers : Ends(c) \/ Stamp(c) \/ Record(c)
ConsoleSpec == ConsoleInit /\ [][ConsoleNext]_consoleVars

-----------------------------------------------------------------------------
(* The summary.                                                            *)

(* Snapshot: the newest records first.                                     *)
Snapshot(limit) ==
    SubSeq(Reverse(records), 1, IF limit > Len(records) THEN Len(records) ELSE limit)

classifyFunction(r) ==
    CASE r.direction = "event" -> "transfer." \o r.path
      [] r.path = "heartbeat" -> "media_hub.node.heartbeat"
      [] r.path = "claim" -> "transfer.claim"
      [] r.path = "progress" -> "transfer.progress"
      [] r.path = "console" -> "dev_console"
      [] OTHER -> "http.get"

isNoisyRecord(r) == classifyFunction(r) \in {"media_hub.node.heartbeat", "dev_console"}

EndpointKey(r) == <<r.direction, r.path>>

(* The last status is overwritten by each record (mutant).                 *)
MergeOverwriting(group, r) ==
    [count |-> group.count + 1,
     errors |-> IF r.failed THEN group.errors + 1 ELSE group.errors,
     last |-> r.finished,
     failed |-> r.failed]

(* One round of the loop for the group of a record.                        *)
Merge(group, r) ==
    LET later == r.finished > group.last
    IN [count |-> group.count + 1,
        errors |-> IF r.failed THEN group.errors + 1 ELSE group.errors,
        last |-> IF later THEN r.finished ELSE group.last,
        failed |-> IF later THEN r.failed ELSE group.failed]

NewGroup == [count |-> 0, errors |-> 0, last |-> 0, failed |-> FALSE]

(* The loop over the window, by endpoint or by function.                   *)
GroupKey(by, r) == IF by = "endpoint" THEN EndpointKey(r) ELSE classifyFunction(r)

Grouped(by, window) ==
    FoldLeft(LAMBDA groups, r :
                 LET key == GroupKey(by, r)
                 IN (key :> Merge(IF key \in DOMAIN groups THEN groups[key] ELSE NewGroup, r)) @@ groups,
             << >>, window)

(* What a job's records leave in its summary: later rounds, which are of   *)
(* older records, overwrite the stage.                                     *)
MergeJob(job, r) ==
    [requests |-> IF r.direction = "event" THEN job.requests ELSE job.requests + 1,
     events |-> IF r.direction = "event" THEN job.events + 1 ELSE job.events,
     stage |-> r.path]

NewJob == [requests |-> 0, events |-> 0, stage |-> ""]

Jobs(window) ==
    FoldLeft(LAMBDA jobs, r :
                 IF r.job = NoJob THEN jobs
                 ELSE (r.job :> MergeJob(IF r.job \in DOMAIN jobs THEN jobs[r.job] ELSE NewJob, r))
                          @@ jobs,
             << >>, window)

(* Summary(limit).                                                         *)
Summary(limit) ==
    LET window == Snapshot(limit)
    IN [endpoints |-> Grouped("endpoint", window),
        functions |-> Grouped("function", window),
        jobs |-> Jobs(window),
        noisy |-> Len(SelectSeq(window, isNoisyRecord)),
        transfers |-> Cardinality(DOMAIN Jobs(window))]

-----------------------------------------------------------------------------
(* The groups of a set of records, said without the loop: each counts its  *)
(* records and its errors, and shows the status of the record that         *)
(* finished last, of the one stored last where several finished together.  *)
GroupsAre(groups, Key(_), window) ==
    /\ DOMAIN groups = {Key(window[i]) : i \in DOMAIN window}
    /\ \A k \in DOMAIN groups :
          LET own == {i \in DOMAIN window : Key(window[i]) = k}
              last == Min({i \in own : \A j \in own : window[j].finished <= window[i].finished})
          IN groups[k] = [count |-> Cardinality(own),
                          errors |-> Quantify(own, LAMBDA i : window[i].failed),
                          last |-> window[last].finished,
                          failed |-> window[last].failed]

(* The tables of endpoints and functions show what the retained records    *)
(* say, whatever order concurrent requests were stored in (Summary).       *)
SummaryIsTheWindows ==
    LET window == Snapshot(WindowLimit)
        summary == Summary(WindowLimit)
    IN /\ GroupsAre(summary.endpoints, EndpointKey, window)
       /\ GroupsAre(summary.functions, classifyFunction, window)

(* The counters add up: every request and event is counted once, every     *)
(* Media Hub call twice, save for the records still to be made; and the    *)
(* last status is that of the newest record (Record, doJSON, runServe).    *)
CountersAddUp ==
    LET Open(d) == SumFunction([c \in Callers |->
                       Len(SelectSeq(pending[c], LAMBDA r : r.direction = d))])
    IN /\ counters.inbound = traced["inbound"] - Open("inbound")
       /\ counters.outbound = 2 * traced["outbound"] - Open("outbound")
       /\ counters.event = traced["event"] - Open("event")
       /\ nextID = counters.inbound + counters.outbound + counters.event
       /\ records # <<>> => counters.lastFailed = Last(records).failed

(* The ring holds as many records as were made, up to the retention; while *)
(* nothing was evicted, the errors and the jobs of the ring agree with the *)
(* counters: each job's calls and events are counted under it.             *)
RingAgrees ==
    LET jobs == Jobs(Snapshot(Retention))
    IN /\ Len(records) = (IF nextID < Retention THEN nextID ELSE Retention)
       /\ nextID <= Retention =>
             /\ counters.errors = Len(SelectSeq(records, LAMBDA r : r.failed))
             /\ counters.event = SumFunction([j \in DOMAIN jobs |-> jobs[j].events])
             /\ SumFunction([j \in DOMAIN jobs |-> jobs[j].requests]) <= counters.outbound

=============================================================================
