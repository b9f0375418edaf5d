----------------------- MODULE WorkerEngineKeepProofs -----------------------
(***************************************************************************)
(* No job of the worker engine gets lost: with one request at a time what  *)
(* was answered 202 is in the file until it is tried, and in a queue that  *)
(* has room for every job a job that ran is queued, held or at its end.    *)
(*                                                                         *)
(* EngineInv, which WorkerEngineProofs shows, does not say what a cycle    *)
(* has done with the job of each worker (CycleInv), nor what is between a  *)
(* snapshot and its save (SavedInv); KeepInv adds both.                    *)
(***************************************************************************)
EXTENDS WorkerEngineProofs, FiniteSetTheorems

\* The head of a queue is the only job that Tail drops.
LEMMA IdsTail ==
    ASSUME NEW q \in Seq(Entry), q # << >>
    PROVE  /\ Elems(q) = Elems(Tail(q)) \cup {Head(q)}
           /\ Ids(q) = Ids(Tail(q)) \cup {Head(q).id}
<1>1. /\ Len(Tail(q)) = Len(q) - 1 /\ Len(q) \in Nat /\ Len(q) >= 1 /\ Head(q) = q[1]
      /\ \A i \in 1..(Len(q) - 1) : Tail(q)[i] = q[i + 1]
  OBVIOUS
<1>2. /\ \A i \in 1..(Len(q) - 1) : i + 1 \in 1..Len(q)
      /\ \A i \in 1..Len(q) : i = 1 \/ (i - 1 \in 1..(Len(q) - 1) /\ i = (i - 1) + 1)
      /\ 1 \in 1..Len(q)
  BY <1>1
<1>3. ASSUME NEW i \in 1..Len(q)
      PROVE  q[i] \in Elems(Tail(q)) \cup {Head(q)}
  <2>1. CASE i = 1
    BY <1>1, <2>1
  <2>2. CASE i # 1
    <3>1. i - 1 \in 1..Len(Tail(q)) /\ Tail(q)[i - 1] = q[i]
      BY <1>1, <1>2, <2>2
    <3> QED BY <3>1 DEF Elems
  <2> QED BY <2>1, <2>2
<1>4. \A i \in 1..Len(Tail(q)) : Tail(q)[i] \in Elems(q)
  BY <1>1, <1>2 DEF Elems
<1>5. Head(q) \in Elems(q)
  BY <1>1, <1>2 DEF Elems
<1>6. Elems(q) = Elems(Tail(q)) \cup {Head(q)}
  BY <1>3, <1>4, <1>5 DEF Elems
<1> QED
  BY <1>6 DEF Ids

\* A queue with room for every job has room for one that a worker holds.
LEMMA RoomForRetry ==
    ASSUME EngineInv, Capacity >= Cardinality(JobIds), NEW w \in Workers, held[w] # NoEntry
    PROVE  HasRoom(queue)
<1> DEFINE T == JobIds \ {held[w].id}
           f == [i \in 1..Len(queue) |-> queue[i].id]
<1>1. /\ queue \in Seq(Entry) /\ Len(queue) \in Nat /\ held[w] \in Entry
      /\ \A i \in 1..Len(queue) : queue[i] \in Entry
  <2>1. queue \in Seq(Entry) /\ held[w] \in Entry
    BY DEF EngineInv, EngineTypeOK
  <2> QED BY <2>1
<1>2. Distinct(queue) /\ held[w].id \notin Ids(queue)
  BY DEF EngineInv, JobInOnePlace
<1>3. f \in Injection(1..Len(queue), T)
  <2>1. \A i \in 1..Len(queue) : queue[i].id \in T
    BY <1>1, <1>2 DEF Ids, Elems, Entry
  <2>2. \A i, k \in 1..Len(queue) : f[i] = f[k] => i = k
    BY <1>2 DEF Distinct
  <2> QED BY <2>1, <2>2 DEF Injection, IsInjective
<1>4. /\ IsFiniteSet(JobIds) /\ IsFiniteSet(T) /\ Cardinality(JobIds) \in Nat
      /\ Cardinality(T) = Cardinality(JobIds) - 1
  <2>1. IsFiniteSet(JobIds) /\ held[w].id \in JobIds
    BY <1>1, EngineAssumption DEF EngineAssumption, Entry
  <2> QED BY <2>1, FS_RemoveElement, FS_CardinalityType
<1>5. Cardinality(1..Len(queue)) = Len(queue)
  <2>1. 1 \in Int /\ Len(queue) \in Int /\ (1 > Len(queue) => Len(queue) = 0)
        /\ Len(queue) - 1 + 1 = Len(queue)
    BY <1>1
  <2> QED BY <2>1, FS_Interval
<1>6. Cardinality(1..Len(queue)) <= Cardinality(T)
  <2> HIDE DEF f, T
  <2> QED BY <1>3, <1>4, FS_Injection
<1> QED
  BY <1>1, <1>4, <1>5, <1>6, EngineAssumption DEF HasRoom, EngineAssumption

-----------------------------------------------------------------------------
(* The cycle.                                                              *)

\* What a dispatcher cycle knows of the job of each worker is preserved.
LEMMA CycleStep ==
    ASSUME EngineInv, CycleInv, [EngineNext]_vars
    PROVE  CycleInv'
<1> USE DEF CycleInv
<1>1. CASE UNCHANGED <<wpc, held, result, disp, next>>
  BY <1>1
<1>2. CASE Boot
  BY <1>2 DEF Boot, EngineInv, DownIsEmpty, poolVars
<1>3. CASE Crash
  BY <1>3 DEF Crash, NoProcess
<1>4. CASE StartCycle
  BY <1>4 DEF StartCycle
<1>5. ASSUME NEW w \in Workers, PollEmpty(w)
      PROVE  CycleInv'
  BY <1>5 DEF PollEmpty, EngineInv, EngineTypeOK, HeldSound, schedVars
<1>6. ASSUME NEW w \in Workers, PollJob(w)
      PROVE  CycleInv'
  <2>1. /\ Head(queue) \in Entry /\ Head(queue) \in Elems(queue)
    BY <1>6, ElemsTail DEF PollJob, EngineInv, EngineTypeOK, Sound
  <2>2. Head(queue).attempt < Head(queue).max
    BY <2>1 DEF EngineInv, Sound
  <2>3. /\ held' = [held EXCEPT ![w] = [Head(queue) EXCEPT !.attempt = Head(queue).attempt + 1]]
        /\ result' = result /\ wpc' = [wpc EXCEPT ![w] = "running"] /\ UNCHANGED <<disp, next>>
    BY <1>6, <2>2 DEF PollJob, EngineInv, EngineTypeOK, schedVars
  <2>4. held'[w].attempt >= 1
    BY <2>1, <2>3 DEF Entry, EngineInv, EngineTypeOK
  <2>5. disp = "pool" /\ wpc[w] = "polling"
    BY <1>6 DEF PollJob, EngineInv, HeldSound
  <2> QED
    BY <2>3, <2>4, <2>5 DEF EngineInv, EngineTypeOK
<1>7. ASSUME NEW w \in Workers, HandlerReturns(w)
      PROVE  CycleInv'
  BY <1>7 DEF HandlerReturns, EngineInv, EngineTypeOK, HeldSound, schedVars
<1>8. CASE PoolReturns
  BY <1>8 DEF PoolReturns, poolVars, Workers
<1>9. CASE SkipResult \/ RetryJob
  BY <1>9, EngineAssumption DEF SkipResult, RetryJob, EngineInv, EngineTypeOK, Workers, EngineAssumption
<1>10. CASE RetryFails \/ CycleReturns
  BY <1>10, EngineAssumption DEF RetryFails, CycleReturns, EngineInv, EngineTypeOK, Workers, EngineAssumption, poolVars
<1>11. CASE SendResult \/ SchedulerStops
  BY <1>11 DEF SendResult, SchedulerStops, poolVars
<1> QED
  BY <1>1, <1>2, <1>3, <1>4, <1>5, <1>6, <1>7, <1>8, <1>9, <1>10, <1>11
     DEF EngineNext, Work, Dispatch, Cancel, Submit, TakeSnapshot, SaveSnapshot, SaveFails, Answer,
         ReadResult, vars, poolVars, schedVars

-----------------------------------------------------------------------------
(* The file.                                                               *)

\* What was answered 202 stays saved.
LEMMA SavedStep ==
    ASSUME EngineInv, CycleInv, SavedInv, AcceptedIsSaved, [EngineNext]_vars
    PROVE  SavedInv' /\ AcceptedIsSaved'
<1> USE DEF SavedInv, AcceptedIsSaved, OneRequest
<1>1. CASE UNCHANGED <<queue, file, req, job, snap, used, accepted>>
  BY <1>1
<1>2. CASE Boot
  <2>1. \A e \in Elems(file) : e.id \in Ids(file)
    BY DEF Ids
  <2> QED
    BY <1>2, <2>1 DEF Boot, EngineInv, DownIsEmpty, apiVars, bookVars, Elems, Ids
<1>3. CASE Crash
  BY <1>3, SoundEmpty DEF Crash, NoProcess, Elems
<1>4. ASSUME NEW r \in Requests, NEW j \in JobIds, NEW m \in AttemptInputs, Submit(r, j, m)
      PROVE  SavedInv' /\ AcceptedIsSaved'
  <2>1. /\ j \notin used /\ used' = used \cup {j} /\ req[r] = "idle"
        /\ UNCHANGED <<file, snap, accepted>>
    BY <1>4 DEF Submit
  <2>2. CASE UNCHANGED <<queue, req, job>>
    BY <2>1, <2>2 DEF Elems, Ids
  <2>3. CASE /\ queue' = Append(queue, NewEntry(j, m)) /\ req' = [req EXCEPT ![r] = "enqueued"]
             /\ job' = [job EXCEPT ![r] = j]
    <3>1. NewEntry(j, m) \in Entry /\ NewEntry(j, m).id = j
      BY EngineAssumption DEF EngineAssumption, NewEntry, Entry
    <3>2. Elems(queue') = Elems(queue) \cup {NewEntry(j, m)}
      BY <2>3, <3>1, ElemsAppend DEF EngineInv, EngineTypeOK
    <3>3. SavedInv'
      BY <2>1, <2>3 DEF EngineInv, EngineTypeOK
    <3>4. AcceptedIsSaved'
      <4>1. \A e \in Elems(queue') : e.id \in accepted => e \in Elems(queue)
        BY <2>1, <3>1, <3>2
      <4> QED BY <2>1, <4>1
    <3> QED BY <3>3, <3>4
  <2> QED BY <1>4, <2>2, <2>3 DEF Submit
<1>5. ASSUME NEW r \in Requests, TakeSnapshot(r)
      PROVE  SavedInv' /\ AcceptedIsSaved'
  <2>1. /\ snap' = [snap EXCEPT ![r] = queue] /\ req' = [req EXCEPT ![r] = "saving"]
        /\ req[r] = "enqueued" /\ UNCHANGED <<queue, file, job, used, accepted>>
    BY <1>5 DEF TakeSnapshot, bookVars
  <2>2. /\ snap'[r] = queue
        /\ \A s \in Requests : s # r => req'[s] = req[s] /\ snap'[s] = snap[s]
    BY <2>1 DEF EngineInv, EngineTypeOK
  <2>3. \A e \in Elems(queue) : e.id \in Ids(queue)
    BY DEF Ids
  <2>4. \A s \in Requests : req'[s] # "idle" => job'[s] \in used'
    BY <2>1, <2>2
  <2>5. OneRequest' =>
            \A s \in Requests : req'[s] = "saving" =>
                \A e \in Elems(queue') : e.attempt = 0 => e.id \in Ids(snap'[s])
    BY <2>1, <2>2, <2>3
  <2> QED BY <2>1, <2>4, <2>5
<1>6. ASSUME NEW r \in Requests, SaveSnapshot(r)
      PROVE  SavedInv' /\ AcceptedIsSaved'
  <2>1. /\ req[r] = "saving" /\ file' = snap[r] /\ accepted' = accepted \cup {job[r]}
        /\ req' = [req EXCEPT ![r] = "accepted"] /\ UNCHANGED <<queue, job, snap, used>>
    BY <1>6 DEF SaveSnapshot
  <2>2. SavedInv'
    BY <2>1 DEF EngineInv, EngineTypeOK, Elems, Ids
  <2>3. AcceptedIsSaved'
    <3>1. OneRequest => \A e \in Elems(queue) : e.attempt = 0 => e.id \in Ids(snap[r])
      BY <2>1
    <3> QED BY <2>1, <3>1
  <2> QED BY <2>2, <2>3
<1>7. ASSUME NEW r \in Requests, SaveFails(r) \/ Answer(r)
      PROVE  SavedInv' /\ AcceptedIsSaved'
  <2>1. /\ req' = [req EXCEPT ![r] = "idle"] /\ job' = [job EXCEPT ![r] = NoEntry]
        /\ snap' = [snap EXCEPT ![r] = << >>] /\ UNCHANGED <<queue, file, used, accepted>>
    BY <1>7 DEF SaveFails, Answer, bookVars
  <2>2. \A s \in Requests : req'[s] # "idle" => /\ req'[s] = req[s] /\ job'[s] = job[s]
                                                /\ snap'[s] = snap[s]
    BY <2>1 DEF EngineInv, EngineTypeOK
  <2> QED BY <2>1, <2>2
<1>8. ASSUME NEW w \in Workers, PollJob(w)
      PROVE  SavedInv' /\ AcceptedIsSaved'
  <2>1. queue # << >> /\ queue' = Tail(queue) /\ UNCHANGED <<file, req, job, snap, used, accepted>>
    BY <1>8 DEF PollJob, apiVars
  <2>2. Elems(queue') \subseteq Elems(queue)
    BY <2>1, IdsTail DEF EngineInv, EngineTypeOK
  <2>3. SavedInv'
    BY <2>1, <2>2
  <2>4. AcceptedIsSaved'
    BY <2>1, <2>2
  <2> QED BY <2>3, <2>4
<1>9. CASE RetryJob
  <2>1. /\ next \in Workers /\ result[next] = "failed" /\ queue' = Append(queue, held[next])
        /\ UNCHANGED <<file, req, job, snap, used, accepted>> /\ disp = "retrying"
    BY <1>9, EngineAssumption
       DEF RetryJob, EngineInv, EngineTypeOK, Workers, EngineAssumption, apiVars, bookVars
  <2>2. held[next] \in Entry /\ held[next].attempt >= 1
    BY <2>1 DEF EngineInv, EngineTypeOK, HeldSound, CycleInv, Workers
  <2>3. Elems(queue') = Elems(queue) \cup {held[next]} /\ held[next].attempt # 0
    BY <2>1, <2>2, ElemsAppend DEF EngineInv, EngineTypeOK
  <2> QED BY <2>1, <2>3 DEF Ids, Elems
<1> QED
  BY <1>1, <1>2, <1>3, <1>4, <1>5, <1>6, <1>7, <1>8, <1>9
     DEF EngineNext, Work, Dispatch, Cancel, StartCycle, PollEmpty, HandlerReturns, PoolReturns,
         SkipResult, RetryFails, CycleReturns, SendResult, SchedulerStops, ReadResult,
         vars, apiVars, poolVars, schedVars, bookVars

-----------------------------------------------------------------------------
(* The jobs that ran.                                                      *)

\* A job is queued, held or at its end.
Kept(j) == j \in Ids(queue) \cup ended \/ \E w \in Workers : held[w] # NoEntry /\ held[w].id = j

\* NoJobLost in these words.
LEMMA NoJobLostIsKept ==
    NoJobLost <=> (Capacity >= Cardinality(JobIds) /\ up /\ ~cancelled =>
                      \A j \in JobIds : runs[j] > 0 => Kept(j))
  BY DEF NoJobLost, Kept, Holders

\* A job that ran stays in one of these places.
LEMMA KeptStep ==
    ASSUME EngineInv, CycleInv, NoJobLost, [EngineNext]_vars,
           Capacity >= Cardinality(JobIds), up', ~cancelled',
           NEW j \in JobIds, runs'[j] > 0
    PROVE  Kept(j)'
<1>1. CASE UNCHANGED <<up, cancelled, queue, held, runs, ended>>
  BY <1>1, NoJobLostIsKept DEF Kept, Ids, Elems
<1>2. CASE Boot \/ Crash \/ Cancel
  <2>1. ~Crash /\ ~Cancel
    BY DEF Crash, NoProcess, Cancel
  <2>2. ~up /\ runs' = runs
    BY <1>2, <2>1 DEF Boot, bookVars
  <2>3. runs[j] = 0
    BY <2>2 DEF EngineInv, DownIsEmpty
  <2> QED BY <2>2, <2>3
<1>3. ASSUME UNCHANGED <<up, cancelled, runs>>
      PROVE  Kept(j)
  BY <1>3, NoJobLostIsKept
<1>4. ASSUME NEW r \in Requests, NEW i \in JobIds, NEW m \in AttemptInputs, Submit(r, i, m)
      PROVE  Kept(j)'
  <2>1. UNCHANGED <<up, cancelled, runs, held, ended>>
    BY <1>4 DEF Submit, poolVars
  <2>2. Ids(queue) \subseteq Ids(queue')
    <3>1. NewEntry(i, m) \in Entry
      BY EngineAssumption DEF EngineAssumption, NewEntry, Entry
    <3>2. Ids(Append(queue, NewEntry(i, m))) = Ids(queue) \cup {NewEntry(i, m).id}
      BY <3>1, ElemsAppend DEF EngineInv, EngineTypeOK
    <3> QED BY <1>4, <3>2 DEF Submit
  <2> QED BY <1>3, <2>1, <2>2 DEF Kept
<1>5. CASE StartCycle
  <2>1. /\ disp = "waiting" /\ UNCHANGED <<up, cancelled, queue, runs, ended>>
    BY <1>5 DEF StartCycle, bookVars
  <2>2. \A w \in Workers : held[w] = NoEntry
    BY <2>1 DEF CycleInv
  <2> QED BY <1>3, <2>1, <2>2 DEF Kept
<1>6. ASSUME NEW w \in Workers, PollJob(w)
      PROVE  Kept(j)'
  <2>1. /\ queue # << >> /\ queue' = Tail(queue) /\ UNCHANGED <<up, cancelled, ended>>
        /\ wpc[w] = "polling"
    BY <1>6 DEF PollJob
  <2>2. Ids(queue) = Ids(queue') \cup {Head(queue).id}
    BY <2>1, IdsTail DEF EngineInv, EngineTypeOK
  <2>3. Head(queue) \in Entry
    BY <2>1, ElemsTail DEF EngineInv, EngineTypeOK, Sound
  <2>4. held[w] = NoEntry
    BY <2>1 DEF EngineInv, HeldSound
  <2>5. \A v \in Workers \ {w} : held'[v] = held[v]
    BY <1>6 DEF PollJob, EngineInv, EngineTypeOK
  <2>6. held'[w] \in Entry /\ held'[w].id = Head(queue).id
    <3> DEFINE head == Head(queue)
               new == IF head.attempt < head.max THEN [head EXCEPT !.attempt = head.attempt + 1]
                      ELSE head
    <3>1. held' = [held EXCEPT ![w] = new]
      BY <1>6 DEF PollJob
    <3>2. held'[w] = new
      BY <3>1 DEF EngineInv, EngineTypeOK
    <3>3. head \in Entry
      BY <2>3
    <3> HIDE DEF head
    <3>4. new \in Entry /\ new.id = head.id
      BY <3>3 DEF Entry
    <3> QED BY <3>2, <3>4 DEF head
  <2>7. held'[w] # NoEntry
    BY <2>6, NoEntryAssumption DEF NoEntryAssumption
  <2>8. CASE j = Head(queue).id
    BY <2>6, <2>7, <2>8 DEF Kept
  <2>9. CASE j # Head(queue).id
    <3>1. runs'[j] = runs[j]
      BY <1>6, <2>3, <2>9 DEF PollJob, EngineInv, EngineTypeOK, Entry
    <3>2. Kept(j)
      BY <2>1, <3>1, NoJobLostIsKept
    <3> QED BY <2>1, <2>2, <2>4, <2>5, <2>9, <3>2 DEF Kept
  <2> QED BY <2>8, <2>9
<1>7. ASSUME disp = "retrying", next <= Concurrency
      PROVE  /\ next \in Workers /\ wpc[next] = "done"
             /\ held[next] # NoEntry => result[next] \in {"succeeded", "failed"}
             /\ result[next] \in {"succeeded", "failed"} => held[next] \in Entry
  <2>1. next \in Workers
    BY <1>7, EngineAssumption DEF EngineInv, EngineTypeOK, Workers, EngineAssumption
  <2>2. next \in Nat /\ next <= next
    BY <2>1, EngineAssumption DEF Workers, EngineAssumption
  <2>3. result[next] \in {"succeeded", "failed"} => held[next] # NoEntry
    BY <1>7, <2>1, <2>2 DEF EngineInv, HeldSound
  <2> QED
    BY <1>7, <2>1, <2>3 DEF CycleInv, EngineInv, EngineTypeOK
<1>8. CASE SkipResult
  <2>1. /\ disp = "retrying" /\ next <= Concurrency /\ held' = [held EXCEPT ![next] = NoEntry]
        /\ ended' = IF result[next] \in {"succeeded", "failed"} THEN ended \cup {held[next].id}
                    ELSE ended
        /\ UNCHANGED <<up, cancelled, queue, runs>>
    BY <1>8 DEF SkipResult
  <2>2. held[next] # NoEntry => held[next].id \in ended'
    BY <1>7, <2>1
  <2>3. \A v \in Workers \ {next} : held'[v] = held[v]
    BY <2>1 DEF EngineInv, EngineTypeOK
  <2> QED BY <1>3, <2>1, <2>2, <2>3 DEF Kept
<1>9. CASE RetryJob
  <2>1. /\ disp = "retrying" /\ next <= Concurrency /\ held' = [held EXCEPT ![next] = NoEntry]
        /\ queue' = Append(queue, held[next]) /\ result[next] = "failed"
        /\ UNCHANGED <<up, cancelled, runs, ended>>
    BY <1>9 DEF RetryJob, bookVars
  <2>2. held[next] \in Entry
    BY <1>7, <2>1
  <2>3. Ids(queue') = Ids(queue) \cup {held[next].id}
    BY <2>1, <2>2, ElemsAppend DEF EngineInv, EngineTypeOK
  <2>4. \A v \in Workers \ {next} : held'[v] = held[v]
    BY <2>1 DEF EngineInv, EngineTypeOK
  <2> QED BY <1>3, <2>1, <2>3, <2>4 DEF Kept
<1>10. CASE RetryFails
  <2>1. /\ disp = "retrying" /\ next <= Concurrency /\ result[next] = "failed" /\ ~HasRoom(queue)
    BY <1>10 DEF RetryFails
  <2>2. next \in Workers /\ held[next] # NoEntry
    BY <1>7, <2>1, NoEntryAssumption DEF NoEntryAssumption
  <2> QED BY <2>1, <2>2, RoomForRetry
<1> QED
  BY <1>1, <1>2, <1>4, <1>5, <1>6, <1>8, <1>9, <1>10
     DEF EngineNext, Work, Dispatch, TakeSnapshot, SaveSnapshot, SaveFails, Answer, PollEmpty,
         HandlerReturns, PoolReturns, CycleReturns, SendResult, SchedulerStops, ReadResult,
         vars, poolVars, schedVars, bookVars

-----------------------------------------------------------------------------
(* The theorems.                                                           *)

\* KeepInv is inductive.
THEOREM KeepInvariant == EngineSpec => []KeepInv
<1>1. EngineInit => KeepInv
  <2> SUFFICES ASSUME EngineInit PROVE KeepInv
    OBVIOUS
  <2>1. CycleInv
    BY EngineAssumption DEF EngineInit, CycleInv, Workers, EngineAssumption
  <2>2. SavedInv /\ AcceptedIsSaved /\ NoJobLost
    BY SoundEmpty DEF EngineInit, SavedInv, AcceptedIsSaved, NoJobLost
  <2> QED BY <2>1, <2>2, EngineInitInv DEF KeepInv
<1>2. KeepInv /\ [EngineNext]_vars => KeepInv'
  <2> SUFFICES ASSUME KeepInv, [EngineNext]_vars PROVE KeepInv'
    OBVIOUS
  <2>1. EngineInv' /\ CycleInv' /\ SavedInv' /\ AcceptedIsSaved'
    BY EngineStep, CycleStep, SavedStep DEF KeepInv
  <2>2. NoJobLost'
    <3>1. Capacity >= Cardinality(JobIds) /\ up' /\ ~cancelled' =>
             \A j \in JobIds : runs'[j] > 0 => Kept(j)'
      BY KeptStep DEF KeepInv
    <3> QED BY <3>1 DEF NoJobLost, Kept, Holders
  <2> QED BY <2>1, <2>2 DEF KeepInv
<1> QED
  BY <1>1, <1>2, PTL DEF EngineSpec

\* CreateWorkerJobHandler: with one request at a time the answer 202 means
\* that the job is in queue.json until it is tried.
THEOREM AcceptedJobsSaved == EngineSpec => []AcceptedIsSaved
<1>1. KeepInv => AcceptedIsSaved
  BY DEF KeepInv
<1> QED
  BY <1>1, KeepInvariant, PTL

\* Pool.RunOnce and Dispatcher.RunOnce: a queue with room for every job loses
\* none that ran.
THEOREM RunJobsKept == EngineSpec => []NoJobLost
<1>1. KeepInv => NoJobLost
  BY DEF KeepInv
<1> QED
  BY <1>1, KeepInvariant, PTL
=============================================================================
