---------------------------- MODULE WorkerEngine ----------------------------
(***************************************************************************)
(* The local worker engine: the bounded queue and its file (internal/      *)
(* queue), the REST handler that feeds it (internal/server/worker_api.go), *)
(* the worker pool (internal/worker), the dispatcher with its retries      *)
(* (internal/dispatcher) and the scheduler loop (internal/scheduler).      *)
(*                                                                         *)
(* An entry of the queue is a job with its attempt count.  A job the queue *)
(* holds has status queued, one a worker holds is running or has a result. *)
(* The process may die between any two steps; the file survives.           *)
(***************************************************************************)
EXTENDS Integers, Sequences, FiniteSets

CONSTANTS
    JobIds,            \* job identifiers
    Requests,          \* concurrent POST /worker/jobs handlers
    Concurrency,       \* worker.concurrency
    Capacity,          \* queue.memory_capacity
    AttemptInputs,     \* values of max_attempts in requests
    SchedulerStarted,  \* Start is called (bootstrap does not call it)
    NoEntry            \* the job of a worker that has none

ASSUME EngineAssumption ==
    /\ Concurrency \in Nat \ {0}
    /\ Capacity \in Nat \ {0}
    /\ IsFiniteSet(JobIds)
    /\ AttemptInputs \subseteq Nat
    /\ SchedulerStarted \in BOOLEAN

Workers == 1..Concurrency
Entry == [id : JobIds, attempt : Nat, max : Nat \ {0}]

ASSUME NoEntryAssumption == NoEntry \notin Entry

VARIABLES
    up,          \* the process runs
    cancelled,   \* its context is done
    queue,       \* MemoryQueue.jobs
    file,        \* the jobs of queue.json
    req,         \* where each REST handler is
    job,         \* the job each REST handler submits
    snap,        \* the snapshot each REST handler saves
    wpc,         \* where each worker is in the cycle
    held,        \* the entry each worker took in this cycle
    result,      \* what became of it
    disp,        \* where the scheduler goroutine and its dispatcher are
    next,        \* the worker result the dispatcher looks at
    results,     \* occupancy of the scheduler's result channel
    used,        \* jobs ever submitted
    accepted,    \* jobs whose request was answered 202
    runs,        \* how often this process handed each job to the handler
    ended        \* jobs that succeeded, or failed with no attempt left

apiVars == <<req, job, snap>>
poolVars == <<wpc, held, result>>
schedVars == <<disp, next, results>>
bookVars == <<used, accepted, runs, ended>>
vars == <<up, cancelled, queue, file, apiVars, poolVars, schedVars, bookVars>>

Elems(q) == {q[i] : i \in 1..Len(q)}
Ids(q) == {e.id : e \in Elems(q)}

\* Every variable holds a value of its type.
EngineTypeOK ==
    /\ up \in BOOLEAN
    /\ cancelled \in BOOLEAN
    /\ queue \in Seq(Entry)
    /\ file \in Seq(Entry)
    /\ req \in [Requests -> {"idle", "enqueued", "saving", "accepted"}]
    /\ job \in [Requests -> JobIds \cup {NoEntry}]
    /\ snap \in [Requests -> Seq(Entry)]
    /\ wpc \in [Workers -> {"idle", "polling", "running", "done"}]
    /\ held \in [Workers -> Entry \cup {NoEntry}]
    /\ result \in [Workers -> {"none", "succeeded", "failed", "invalid"}]
    /\ disp \in {"off", "waiting", "pool", "retrying", "sending", "stopped"}
    /\ next \in 1..(Concurrency + 1)
    /\ results \in {0, 1}
    /\ used \subseteq JobIds
    /\ accepted \subseteq JobIds
    /\ runs \in [JobIds -> Nat]
    /\ ended \subseteq JobIds

\* The memory of a process that is not there.
NoProcess ==
    /\ up' = FALSE
    /\ cancelled' = FALSE
    /\ queue' = << >>
    /\ req' = [r \in Requests |-> "idle"]
    /\ job' = [r \in Requests |-> NoEntry]
    /\ snap' = [r \in Requests |-> << >>]
    /\ wpc' = [w \in Workers |-> "idle"]
    /\ held' = [w \in Workers |-> NoEntry]
    /\ result' = [w \in Workers |-> "none"]
    /\ disp' = "off"
    /\ next' = 1
    /\ results' = 0
    /\ runs' = [j \in JobIds |-> 0]

EngineInit ==
    /\ up = FALSE
    /\ cancelled = FALSE
    /\ queue = << >>
    /\ file = << >>
    /\ req = [r \in Requests |-> "idle"]
    /\ job = [r \in Requests |-> NoEntry]
    /\ snap = [r \in Requests |-> << >>]
    /\ wpc = [w \in Workers |-> "idle"]
    /\ held = [w \in Workers |-> NoEntry]
    /\ result = [w \in Workers |-> "none"]
    /\ disp = "off"
    /\ next = 1
    /\ results = 0
    /\ used = {}
    /\ accepted = {}
    /\ runs = [j \in JobIds |-> 0]
    /\ ended = {}

-----------------------------------------------------------------------------
(* The queue and its file.                                                 *)

\* A bound that lets one job too many in (mutant).
HasRoomAtLimit(q) == Len(q) <= Capacity

HasRoom(q) == Len(q) < Capacity

\* Start-up: the file is loaded and restored, one Enqueue per job, and saved
\* again.  A file with more jobs than the queue can hold aborts the start.
Boot ==
    /\ ~up
    /\ Len(file) <= Capacity
    /\ up' = TRUE
    /\ queue' = file
    /\ disp' = IF SchedulerStarted THEN "waiting" ELSE "off"
    /\ UNCHANGED <<cancelled, file, apiVars, poolVars, next, results, bookVars>>

\* The process exits or is killed.  Nothing is saved on the way out.
Crash ==
    /\ up
    /\ NoProcess
    /\ UNCHANGED <<file, used, accepted, ended>>

\* A signal cancels the context of the scheduler and of the jobs it runs.
Cancel ==
    /\ up
    /\ ~cancelled
    /\ cancelled' = TRUE
    /\ UNCHANGED <<up, queue, file, apiVars, poolVars, schedVars, bookVars>>

-----------------------------------------------------------------------------
(* CreateWorkerJobHandler.                                                 *)

\* The input as it is (mutant).
RawEntry(j, m) == [id |-> j, attempt |-> 0, max |-> m]

\* NewJob: zero attempts stand for one.
NewEntry(j, m) == [id |-> j, attempt |-> 0, max |-> IF m = 0 THEN 1 ELSE m]

\* The snapshot is taken before the job is enqueued (mutant).
SubmitSavesFirst(r, j, m) ==
    /\ up
    /\ req[r] = "idle"
    /\ j \notin used
    /\ used' = used \cup {j}
    /\ HasRoom(queue)
    /\ queue' = Append(queue, NewEntry(j, m))
    /\ req' = [req EXCEPT ![r] = "saving"]
    /\ job' = [job EXCEPT ![r] = j]
    /\ snap' = [snap EXCEPT ![r] = queue]
    /\ UNCHANGED <<up, cancelled, file, poolVars, schedVars, accepted, runs, ended>>

\* The job is validated and enqueued; a full queue answers 429.  A request without
\* an id gets a fresh UUID, and a client that chooses ids is taken to choose new
\* ones: the queue itself accepts an id twice.
Submit(r, j, m) ==
    /\ up
    /\ req[r] = "idle"
    /\ j \notin used
    /\ used' = used \cup {j}
    /\ \/ /\ HasRoom(queue)
          /\ queue' = Append(queue, NewEntry(j, m))
          /\ req' = [req EXCEPT ![r] = "enqueued"]
          /\ job' = [job EXCEPT ![r] = j]
       \/ /\ ~HasRoom(queue)
          /\ UNCHANGED <<queue, req, job>>
    /\ UNCHANGED <<up, cancelled, file, snap, poolVars, schedVars, accepted, runs, ended>>

\* The snapshot that is going to be saved.
TakeSnapshot(r) ==
    /\ req[r] = "enqueued"
    /\ snap' = [snap EXCEPT ![r] = queue]
    /\ req' = [req EXCEPT ![r] = "saving"]
    /\ UNCHANGED <<up, cancelled, queue, file, job, poolVars, schedVars, bookVars>>

\* The temporary file is renamed over queue.json and the request answered 202.
SaveSnapshot(r) ==
    /\ req[r] = "saving"
    /\ file' = snap[r]
    /\ accepted' = accepted \cup {job[r]}
    /\ req' = [req EXCEPT ![r] = "accepted"]
    /\ UNCHANGED <<up, cancelled, queue, job, snap, poolVars, schedVars, used, runs, ended>>

\* The save fails: the answer is 500, and the job stays in the queue.
SaveFails(r) ==
    /\ req[r] = "saving"
    /\ req' = [req EXCEPT ![r] = "idle"]
    /\ job' = [job EXCEPT ![r] = NoEntry]
    /\ snap' = [snap EXCEPT ![r] = << >>]
    /\ UNCHANGED <<up, cancelled, queue, file, poolVars, schedVars, bookVars>>

Answer(r) ==
    /\ req[r] = "accepted"
    /\ req' = [req EXCEPT ![r] = "idle"]
    /\ job' = [job EXCEPT ![r] = NoEntry]
    /\ snap' = [snap EXCEPT ![r] = << >>]
    /\ UNCHANGED <<up, cancelled, queue, file, poolVars, schedVars, bookVars>>

-----------------------------------------------------------------------------
(* The worker pool: every worker polls once per cycle.                     *)

\* A tick of the scheduler starts a dispatcher cycle.
StartCycle ==
    /\ disp = "waiting"
    /\ disp' = "pool"
    /\ next' = 1
    /\ wpc' = [w \in Workers |-> "polling"]
    /\ held' = [w \in Workers |-> NoEntry]
    /\ result' = [w \in Workers |-> "none"]
    /\ UNCHANGED <<up, cancelled, queue, file, apiVars, results, bookVars>>

\* There is no job, or the context is done.
PollEmpty(w) ==
    /\ wpc[w] = "polling"
    /\ cancelled \/ queue = << >>
    /\ wpc' = [wpc EXCEPT ![w] = "done"]
    /\ UNCHANGED <<up, cancelled, queue, file, apiVars, held, result, schedVars, bookVars>>

\* A dequeue that is not atomic with the read of the head (mutant).
PollPeek(w) ==
    /\ wpc[w] = "polling"
    /\ ~cancelled
    /\ queue # << >>
    /\ queue' = IF \E v \in Workers : v # w /\ wpc[v] = "polling" THEN queue ELSE Tail(queue)
    /\ held' = [held EXCEPT ![w] = [Head(queue) EXCEPT !.attempt = @ + 1]]
    /\ wpc' = [wpc EXCEPT ![w] = "running"]
    /\ runs' = [runs EXCEPT ![Head(queue).id] = @ + 1]
    /\ UNCHANGED <<up, cancelled, file, apiVars, result, schedVars, used, accepted, ended>>

\* The attempt is not counted (mutant).
PollUncounted(w) ==
    /\ wpc[w] = "polling"
    /\ ~cancelled
    /\ queue # << >>
    /\ queue' = Tail(queue)
    /\ held' = [held EXCEPT ![w] = Head(queue)]
    /\ wpc' = [wpc EXCEPT ![w] = "running"]
    /\ runs' = [runs EXCEPT ![Head(queue).id] = @ + 1]
    /\ UNCHANGED <<up, cancelled, file, apiVars, result, schedVars, used, accepted, ended>>

\* Worker.RunOnce up to the handler.  A job that would exceed its attempts is not
\* run, and keeps a status that the dispatcher ignores.
PollJob(w) ==
    /\ wpc[w] = "polling"
    /\ ~cancelled
    /\ queue # << >>
    /\ queue' = Tail(queue)
    /\ LET head == Head(queue)
           valid == head.attempt < head.max
       IN  /\ held' = [held EXCEPT ![w] = IF valid THEN [head EXCEPT !.attempt = @ + 1]
                                          ELSE head]
           /\ result' = [result EXCEPT ![w] = IF valid THEN @ ELSE "invalid"]
           /\ wpc' = [wpc EXCEPT ![w] = IF valid THEN "running" ELSE "done"]
           /\ runs' = [runs EXCEPT ![head.id] = IF valid THEN @ + 1 ELSE @]
    /\ UNCHANGED <<up, cancelled, file, apiVars, schedVars, used, accepted, ended>>

\* HandleJob returns; the transfer lane behind it is TransferExecutor.
HandlerReturns(w) ==
    /\ wpc[w] = "running"
    /\ wpc' = [wpc EXCEPT ![w] = "done"]
    /\ \E s \in {"succeeded", "failed"} : result' = [result EXCEPT ![w] = s]
    /\ UNCHANGED <<up, cancelled, queue, file, apiVars, held, schedVars, bookVars>>

\* A pool that does not wait for its workers (mutant).
PoolLeaves ==
    /\ disp = "pool"
    /\ \A w \in Workers : wpc[w] # "polling"
    /\ disp' = "retrying"
    /\ UNCHANGED <<up, cancelled, queue, file, apiVars, poolVars, next, results, bookVars>>

\* wait.Wait()
PoolReturns ==
    /\ disp = "pool"
    /\ \A w \in Workers : wpc[w] = "done"
    /\ disp' = "retrying"
    /\ UNCHANGED <<up, cancelled, queue, file, apiVars, poolVars, next, results, bookVars>>

-----------------------------------------------------------------------------
(* The dispatcher goes through the results in the order of the workers.    *)

\* One retry too many (mutant).
RetryAllowedAtMax(e) == e.attempt <= e.max

RetryAllowed(e) == e.attempt < e.max

\* A succeeded, ignored or final result; the loop goes on.
SkipResult ==
    /\ disp = "retrying"
    /\ next <= Concurrency
    /\ result[next] = "failed" => ~RetryAllowed(held[next])
    /\ next' = next + 1
    /\ ended' = IF result[next] \in {"succeeded", "failed"} THEN ended \cup {held[next].id}
                ELSE ended
    /\ held' = [held EXCEPT ![next] = NoEntry]
    /\ UNCHANGED <<up, cancelled, queue, file, apiVars, wpc, result, disp, results, used,
                   accepted, runs>>

RetryJob ==
    /\ disp = "retrying"
    /\ next <= Concurrency
    /\ result[next] = "failed"
    /\ RetryAllowed(held[next])
    /\ ~cancelled
    /\ HasRoom(queue)
    /\ queue' = Append(queue, held[next])
    /\ held' = [held EXCEPT ![next] = NoEntry]
    /\ next' = next + 1
    /\ UNCHANGED <<up, cancelled, file, apiVars, wpc, result, disp, results, bookVars>>

\* Enqueue fails: the cycle returns at once, with this job and what is left.
RetryFails ==
    /\ disp = "retrying"
    /\ next <= Concurrency
    /\ result[next] = "failed"
    /\ RetryAllowed(held[next])
    /\ cancelled \/ ~HasRoom(queue)
    /\ disp' = "sending"
    /\ held' = [w \in Workers |-> NoEntry]
    /\ UNCHANGED <<up, cancelled, queue, file, apiVars, wpc, result, next, results, bookVars>>

CycleReturns ==
    /\ disp = "retrying"
    /\ next > Concurrency
    /\ disp' = "sending"
    /\ UNCHANGED <<up, cancelled, queue, file, apiVars, poolVars, next, results, bookVars>>

-----------------------------------------------------------------------------
(* The scheduler loop and the reader of its results.                       *)


\* The channel holds one result; a second one waits for the reader.
SendResult ==
    /\ disp = "sending"
    /\ results = 0
    /\ results' = 1
    /\ disp' = "waiting"
    /\ UNCHANGED <<up, cancelled, queue, file, apiVars, poolVars, next, bookVars>>

\* A loop that goes on until the queue is empty (mutant).
StopsWhenEmpty ==
    /\ disp = "waiting"
    /\ cancelled
    /\ queue = << >>
    /\ disp' = "stopped"
    /\ UNCHANGED <<up, cancelled, queue, file, apiVars, poolVars, next, results, bookVars>>

SchedulerStops ==
    /\ disp = "waiting"
    /\ cancelled
    /\ disp' = "stopped"
    /\ UNCHANGED <<up, cancelled, queue, file, apiVars, poolVars, next, results, bookVars>>

ReadResult ==
    /\ results = 1
    /\ results' = 0
    /\ UNCHANGED <<up, cancelled, queue, file, apiVars, poolVars, disp, next, bookVars>>

Work(w) == PollEmpty(w) \/ PollJob(w) \/ HandlerReturns(w)
Dispatch == PoolReturns \/ SkipResult \/ RetryJob \/ RetryFails \/ CycleReturns \/ SendResult

EngineNext ==
    \/ Boot \/ Crash \/ Cancel
    \/ \E r \in Requests :
        \/ \E j \in JobIds, m \in AttemptInputs : Submit(r, j, m)
        \/ TakeSnapshot(r) \/ SaveSnapshot(r) \/ SaveFails(r) \/ Answer(r)
    \/ StartCycle \/ Dispatch \/ SchedulerStops \/ ReadResult
    \/ \E w \in Workers : Work(w)

EngineSpec == EngineInit /\ [][EngineNext]_vars

-----------------------------------------------------------------------------
(* Fairness: goroutines make progress, a handler returns (its own progress *)
(* is the subject of TransferExecutor), the ticker fires; select picks at  *)
(* random among its ready cases.  Nobody has to read the results.          *)

EngineFairness ==
    /\ WF_vars(StartCycle)
    /\ WF_vars(Dispatch)
    /\ SF_vars(SchedulerStops)
    /\ \A w \in Workers : WF_vars(Work(w))

EngineFairSpec == EngineSpec /\ EngineFairness
EngineReadSpec == EngineFairSpec /\ WF_vars(ReadResult)

-----------------------------------------------------------------------------
(* Properties.                                                             *)

Holders(j) == {w \in Workers : held[w] # NoEntry /\ held[w].id = j}
Distinct(q) == \A i, k \in 1..Len(q) : q[i].id = q[k].id => i = k

\* A job is in one place: it is queued once or held by one worker, through
\* retries, early returns and restarts from an old file.
JobInOnePlace ==
    /\ Distinct(queue)
    /\ \A w \in Workers : held[w] # NoEntry =>
        /\ held[w].id \notin Ids(queue)
        /\ \A v \in Workers : held[v] # NoEntry /\ held[v].id = held[w].id => v = w

\* Every queued or saved job has an attempt left, so that no worker drops it with
\* a status that the dispatcher ignores.
QueuedJobsCanRun ==
    \A e \in Elems(queue) \cup Elems(file) : e.attempt < e.max

\* One process hands a job to the handler at most max_attempts times, a retry
\* after a failure included.
RunsWithinAttempts ==
    /\ \A e \in Elems(queue) : runs[e.id] <= e.attempt
    /\ \A w \in Workers : held[w] # NoEntry => runs[held[w].id] <= held[w].max

\* A process that is restarted with the same configuration comes up: the file
\* never holds more than the queue can take.
RestartFits == Len(file) <= Capacity

\* So a restart from the file, whenever the process died, gives a queue whose jobs
\* all run.
RestoredJobsRun == RestartFits /\ QueuedJobsCanRun

OneRequest == \A r, s \in Requests : r = s

\* With one request at a time, a job that was accepted and has not been tried yet
\* is in the file.
AcceptedIsSaved ==
    OneRequest =>
        \A e \in Elems(queue) : e.attempt = 0 /\ e.id \in accepted => e.id \in Ids(file)

\* As long as the queue has room for every job, no accepted job of a running
\* process gets lost: it is queued, held, or at its end.
NoJobLost ==
    Capacity >= Cardinality(JobIds) /\ up /\ ~cancelled =>
        \A j \in JobIds : runs[j] > 0 => j \in Ids(queue) \cup ended \/ Holders(j) # {}


\* Cancelling the context stops the scheduler when its results are read.
CancelStopsScheduler == cancelled /\ disp # "off" ~> disp \in {"off", "stopped"}

-----------------------------------------------------------------------------
(* The inductive invariant.                                                *)

\* A sequence that the queue, the file or a snapshot may hold.
Sound(q) ==
    /\ Len(q) <= Capacity
    /\ Distinct(q)
    /\ \A e \in Elems(q) : e.id \in used /\ e.attempt < e.max

\* The job in the hands of a worker.
HeldSound ==
    \A w \in Workers :
        /\ wpc[w] = "running" => held[w] # NoEntry /\ disp = "pool"
        /\ wpc[w] = "polling" => held[w] = NoEntry /\ result[w] = "none" /\ disp = "pool"
        /\ disp \in {"pool", "retrying"} /\ next <= w /\ result[w] \in {"succeeded", "failed"}
              => held[w] # NoEntry
        /\ held[w] # NoEntry => held[w].id \in used /\ held[w].attempt <= held[w].max

\* Runs are counted by the attempt of the entry.
RunsCounted ==
    /\ \A e \in Elems(queue) : runs[e.id] <= e.attempt
    /\ \A w \in Workers : held[w] # NoEntry => runs[held[w].id] <= held[w].attempt
    /\ \A j \in JobIds : j \notin used => runs[j] = 0

\* A process that is not there holds nothing.
DownIsEmpty ==
    ~up => /\ \A r \in Requests : req[r] = "idle"
           /\ \A w \in Workers : wpc[w] = "idle" /\ held[w] = NoEntry
           /\ \A j \in JobIds : runs[j] = 0
           /\ disp = "off"

EngineInv ==
    /\ EngineTypeOK
    /\ Sound(queue) /\ Sound(file)
    /\ \A r \in Requests : Sound(snap[r])
    /\ \A r \in Requests : req[r] # "idle" => job[r] \in JobIds
    /\ HeldSound
    /\ JobInOnePlace
    /\ RunsCounted
    /\ DownIsEmpty

\* What a cycle has done with the job of a worker.
CycleInv ==
    /\ disp = "pool" => next = 1
    /\ \A w \in Workers :
        /\ result[w] # "invalid"
        /\ held[w] # NoEntry => held[w].attempt >= 1
        /\ wpc[w] = "done" /\ result[w] = "none" => held[w] = NoEntry
        /\ disp = "retrying" => wpc[w] = "done"
        /\ disp = "retrying" /\ w < next => held[w] = NoEntry
        /\ disp \notin {"pool", "retrying"} => held[w] = NoEntry

\* Between the snapshot and the save no job is enqueued that was not tried.
SavedInv ==
    /\ accepted \subseteq used
    /\ \A r \in Requests : req[r] # "idle" => job[r] \in used
    /\ OneRequest =>
          \A r \in Requests : req[r] = "saving" =>
              \A e \in Elems(queue) : e.attempt = 0 => e.id \in Ids(snap[r])

KeepInv == EngineInv /\ CycleInv /\ SavedInv /\ AcceptedIsSaved /\ NoJobLost

-----------------------------------------------------------------------------
(* What documents and comments of the repository say.                      *)

\* "POST /worker/jobs ... enqueues it and persists the queue snapshot": a job whose
\* request was just answered, and which is still queued, is in the file.
AnsweredIsSaved ==
    \A r \in Requests :
        req[r] = "accepted" /\ job[r] \in Ids(queue) => job[r] \in Ids(file)

\* "Dispatcher.RunOnce ... requeues failed jobs when the retry policy allows it":
\* a job that ran is queued, held or at its end, whatever the capacity.
FailedJobsRequeued ==
    up /\ ~cancelled =>
        \A j \in JobIds : runs[j] > 0 => j \in Ids(queue) \cup ended \/ Holders(j) # {}
=============================================================================
