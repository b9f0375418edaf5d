------------------------- MODULE WorkerEngineProofs -------------------------
(***************************************************************************)
(* The worker engine for every number of workers, every capacity and every *)
(* set of jobs and requests: a job is in one place, it is never queued or  *)
(* saved without an attempt left, and the file fits the next queue.        *)
(***************************************************************************)
EXTENDS WorkerEngine, TLAPS

\* The empty sequence is sound.
LEMMA SoundEmpty == Sound(<< >>) /\ Elems(<< >>) = {} /\ Ids(<< >>) = {}
  BY EngineAssumption DEF Sound, Distinct, Elems, Ids, EngineAssumption

\* What Append does to the elements of a sequence.
LEMMA ElemsAppend ==
    ASSUME NEW q \in Seq(Entry), NEW e \in Entry
    PROVE  /\ Append(q, e) \in Seq(Entry)
           /\ Len(Append(q, e)) = Len(q) + 1
           /\ \A i \in 1..Len(q) : Append(q, e)[i] = q[i]
           /\ Append(q, e)[Len(q) + 1] = e
           /\ Elems(Append(q, e)) = Elems(q) \cup {e}
           /\ Ids(Append(q, e)) = Ids(q) \cup {e.id}
<1>1. /\ Append(q, e) \in Seq(Entry)
      /\ Len(Append(q, e)) = Len(q) + 1
      /\ \A i \in 1..Len(q) : Append(q, e)[i] = q[i]
      /\ Append(q, e)[Len(q) + 1] = e
  OBVIOUS
<1>2. Len(q) \in Nat
  OBVIOUS
<1>3. Elems(Append(q, e)) = Elems(q) \cup {e}
  <2>1. 1..(Len(q) + 1) = (1..Len(q)) \cup {Len(q) + 1}
    BY <1>2
  <2> QED
    BY <1>1, <2>1 DEF Elems
<1> QED
  BY <1>1, <1>3 DEF Ids

\* What Tail does to the elements of a sequence without repetitions.
LEMMA ElemsTail ==
    ASSUME NEW q \in Seq(Entry), q # << >>, Distinct(q)
    PROVE  /\ Tail(q) \in Seq(Entry)
           /\ Len(Tail(q)) = Len(q) - 1
           /\ Head(q) \in Entry /\ Head(q) \in Elems(q)
           /\ Elems(Tail(q)) \subseteq Elems(q)
           /\ Head(q).id \notin Ids(Tail(q))
           /\ Distinct(Tail(q))
<1>1. /\ Tail(q) \in Seq(Entry)
      /\ Len(Tail(q)) = Len(q) - 1
      /\ Len(q) \in Nat /\ Len(q) >= 1
      /\ Head(q) = q[1] /\ q[1] \in Entry
      /\ \A i \in 1..(Len(q) - 1) : Tail(q)[i] = q[i + 1]
  OBVIOUS
<1>2. \A i \in 1..(Len(q) - 1) : i + 1 \in 1..Len(q) /\ i + 1 # 1
  BY <1>1
<1>3. Head(q) \in Elems(q) /\ Elems(Tail(q)) \subseteq Elems(q)
  BY <1>1, <1>2 DEF Elems
<1>4. \A i \in 1..Len(Tail(q)) : Tail(q)[i].id # q[1].id
  BY <1>1, <1>2 DEF Distinct
<1>5. Head(q).id \notin Ids(Tail(q))
  BY <1>1, <1>4 DEF Ids, Elems
<1>6. Distinct(Tail(q))
  BY <1>1, <1>2 DEF Distinct
<1> QED
  BY <1>1, <1>3, <1>5, <1>6

\* A new job at the end keeps a sequence sound.
LEMMA SoundAppend ==
    ASSUME NEW q \in Seq(Entry), NEW e \in Entry, Sound(q), HasRoom(q), e.id \notin Ids(q)
    PROVE  Len(Append(q, e)) <= Capacity /\ Distinct(Append(q, e))
<1>1. Len(Append(q, e)) <= Capacity
  BY ElemsAppend, EngineAssumption DEF HasRoom, EngineAssumption
<1>2. \A i \in 1..Len(q) : q[i].id # e.id
  BY DEF Ids, Elems
<1>3. Distinct(Append(q, e))
  <2> SUFFICES ASSUME NEW i \in 1..(Len(q) + 1), NEW k \in 1..(Len(q) + 1),
                      Append(q, e)[i].id = Append(q, e)[k].id
               PROVE  i = k
    BY ElemsAppend DEF Distinct
  <2>1. Len(q) \in Nat
    OBVIOUS
  <2>2. CASE i \in 1..Len(q) /\ k \in 1..Len(q)
    BY <2>2, ElemsAppend DEF Sound, Distinct
  <2>3. CASE i = Len(q) + 1 /\ k \in 1..Len(q)
    BY <2>3, <1>2, ElemsAppend
  <2>4. CASE k = Len(q) + 1 /\ i \in 1..Len(q)
    BY <2>4, <1>2, ElemsAppend
  <2> QED
    BY <2>1, <2>2, <2>3, <2>4
<1> QED
  BY <1>1, <1>3

\* The initial state satisfies the invariant.
LEMMA EngineInitInv == EngineInit => EngineInv
<1> SUFFICES ASSUME EngineInit PROVE EngineInv
  OBVIOUS
<1> USE DEF EngineInit
<1>1. EngineTypeOK
  <2>1. 1 \in 1..(Concurrency + 1) /\ << >> \in Seq(Entry)
    BY EngineAssumption DEF EngineAssumption
  <2> QED
    BY <2>1 DEF EngineTypeOK
<1>2. Sound(queue) /\ Sound(file) /\ \A r \in Requests : Sound(snap[r])
  BY SoundEmpty
<1>3. HeldSound /\ DownIsEmpty
  BY DEF HeldSound, DownIsEmpty
<1>4. JobInOnePlace /\ RunsCounted
  BY SoundEmpty DEF JobInOnePlace, RunsCounted, Sound
<1> QED
  BY <1>1, <1>2, <1>3, <1>4 DEF EngineInv

\* A step that changes no sequence, no holder and no count keeps these parts.
LEMMA QuietStep ==
    ASSUME EngineInv, UNCHANGED <<queue, file, snap, held, used, runs>>
    PROVE  /\ Sound(queue)' /\ Sound(file)'
           /\ \A r \in Requests : Sound(snap[r])'
           /\ JobInOnePlace'
           /\ RunsCounted'
  BY DEF EngineInv, Sound, Distinct, Elems, JobInOnePlace, Ids, RunsCounted

\* Starting a process, ending it, and cancelling its context.
LEMMA ProcessSteps ==
    ASSUME EngineInv, Boot \/ Crash \/ Cancel
    PROVE  EngineInv'
<1>1. CASE Boot
  <2> USE <1>1 DEF Boot
  <2>1. EngineTypeOK'
    BY DEF EngineInv, EngineTypeOK, apiVars, poolVars, bookVars
  <2>2. Sound(queue)' /\ Sound(file)' /\ \A r \in Requests : Sound(snap[r])'
    BY DEF EngineInv, Sound, Distinct, Elems, apiVars, bookVars
  <2>3. HeldSound' /\ DownIsEmpty'
    BY DEF EngineInv, HeldSound, DownIsEmpty, poolVars, bookVars
  <2>4. JobInOnePlace' /\ RunsCounted'
    <3>1. \A e \in Elems(file) : e \in Entry
      BY DEF EngineInv, EngineTypeOK, Elems
    <3>2. \A e \in Elems(file) : runs[e.id] = 0 /\ e.attempt \in Nat
      BY <3>1 DEF EngineInv, DownIsEmpty, Entry
    <3> QED
      BY <3>2 DEF EngineInv, DownIsEmpty, JobInOnePlace, RunsCounted, Sound, Elems, Distinct,
                  poolVars, bookVars
  <2>5. \A r \in Requests : req'[r] # "idle" => job'[r] \in JobIds
    BY DEF EngineInv, apiVars
  <2> QED
    BY <2>1, <2>2, <2>3, <2>4, <2>5 DEF EngineInv
<1>2. CASE Crash
  <2> USE <1>2 DEF Crash, NoProcess
  <2>1. EngineTypeOK'
    <3>1. 1 \in 1..(Concurrency + 1) /\ << >> \in Seq(Entry)
      BY EngineAssumption DEF EngineAssumption
    <3> QED
      BY <3>1 DEF EngineInv, EngineTypeOK
  <2>2. Sound(<< >>)' /\ Sound(file)'
    BY EngineAssumption DEF EngineInv, Sound, Distinct, Elems, EngineAssumption
  <2>3. HeldSound' /\ DownIsEmpty'
    BY DEF HeldSound, DownIsEmpty
  <2>4. JobInOnePlace' /\ RunsCounted'
    BY DEF JobInOnePlace, RunsCounted, Elems, Distinct
  <2> QED
    BY <2>1, <2>2, <2>3, <2>4 DEF EngineInv
<1>3. CASE Cancel
  <2> USE <1>3 DEF Cancel, apiVars, poolVars, schedVars, bookVars
  <2>1. EngineTypeOK' /\ HeldSound' /\ DownIsEmpty'
    BY DEF EngineInv, EngineTypeOK, HeldSound, DownIsEmpty
  <2> QED
    BY <2>1, QuietStep DEF EngineInv
<1> QED
  BY <1>1, <1>2, <1>3

\* The steps of a POST /worker/jobs handler.
LEMMA RequestSteps ==
    ASSUME EngineInv, NEW r \in Requests,
           \/ \E j \in JobIds, m \in AttemptInputs : Submit(r, j, m)
           \/ TakeSnapshot(r) \/ SaveSnapshot(r) \/ SaveFails(r) \/ Answer(r)
    PROVE  EngineInv'
<1>1. ASSUME NEW j \in JobIds, NEW m \in AttemptInputs, Submit(r, j, m) PROVE EngineInv'
  <2> DEFINE e == NewEntry(j, m)
  <2> USE <1>1 DEF Submit, poolVars, schedVars
  <2>1. e \in Entry /\ e.id = j /\ e.attempt = 0 /\ e.attempt < e.max
    BY EngineAssumption DEF EngineAssumption, NewEntry, Entry
  <2>2. queue \in Seq(Entry) /\ Sound(queue) /\ j \notin Ids(queue)
    BY DEF EngineInv, EngineTypeOK, Sound, Ids
  <2>3. Sound(file)' /\ \A q \in Requests : Sound(snap[q])'
    BY DEF EngineInv, Sound, Distinct, Elems
  <2>4. HeldSound' /\ DownIsEmpty'
    BY DEF EngineInv, HeldSound, DownIsEmpty
  <2>5. CASE HasRoom(queue)
    <3>1. queue' = Append(queue, e) /\ req' = [req EXCEPT ![r] = "enqueued"]
          /\ job' = [job EXCEPT ![r] = j]
      BY <2>5
    <3> HIDE DEF e
    <3>2. Sound(queue)'
      BY <2>1, <2>2, <2>5, <3>1, ElemsAppend, SoundAppend DEF Sound, Distinct
    <3>3. EngineTypeOK'
      BY <2>1, <2>2, <3>1, ElemsAppend DEF EngineInv, EngineTypeOK
    <3>4. \A q \in Requests : req'[q] # "idle" => job'[q] \in JobIds
      BY <3>1 DEF EngineInv, EngineTypeOK
    <3>5. Elems(queue)' = Elems(queue) \cup {e} /\ Ids(queue)' = Ids(queue) \cup {j}
      BY <2>1, <2>2, <3>1, ElemsAppend DEF Ids
    <3>6. RunsCounted'
      BY <2>1, <3>5 DEF EngineInv, RunsCounted
    <3>7. JobInOnePlace'
      BY <3>2, <3>5 DEF EngineInv, JobInOnePlace, HeldSound, Sound
    <3> QED
      BY <2>3, <2>4, <3>2, <3>3, <3>4, <3>6, <3>7 DEF EngineInv
  <2>6. CASE ~HasRoom(queue)
    <3>1. UNCHANGED <<queue, req, job>>
      BY <2>6
    <3>2. EngineTypeOK' /\ Sound(queue)'
      BY <3>1 DEF EngineInv, EngineTypeOK, Sound, Distinct, Elems
    <3>3. RunsCounted' /\ JobInOnePlace'
      BY <3>1 DEF EngineInv, RunsCounted, JobInOnePlace, Elems, Ids, Distinct
    <3> QED
      BY <2>3, <2>4, <3>1, <3>2, <3>3 DEF EngineInv
  <2> QED
    BY <2>5, <2>6
<1>2. CASE TakeSnapshot(r)
  <2> USE <1>2 DEF TakeSnapshot, poolVars, schedVars, bookVars
  <2>1. EngineTypeOK' /\ HeldSound' /\ DownIsEmpty'
    BY DEF EngineInv, EngineTypeOK, HeldSound, DownIsEmpty
  <2>2. Sound(queue)' /\ Sound(file)' /\ \A q \in Requests : Sound(snap[q])'
    <3>1. Sound(queue)' /\ Sound(file)'
      BY DEF EngineInv, Sound, Distinct, Elems
    <3>2. ASSUME NEW q \in Requests PROVE Sound(snap[q])'
      <4>1. CASE q = r
        <5>1. snap'[q] = queue
          BY <4>1 DEF EngineInv, EngineTypeOK
        <5> QED
          BY <5>1 DEF EngineInv, Sound, Distinct, Elems
      <4>2. CASE q # r
        <5>1. snap'[q] = snap[q]
          BY <4>2 DEF EngineInv, EngineTypeOK
        <5> QED
          BY <5>1 DEF EngineInv, Sound, Distinct, Elems
      <4> QED
        BY <4>1, <4>2
    <3> QED
      BY <3>1, <3>2
  <2>3. RunsCounted' /\ JobInOnePlace'
    BY DEF EngineInv, RunsCounted, JobInOnePlace, Elems, Ids, Distinct
  <2> QED
    BY <2>1, <2>2, <2>3 DEF EngineInv, EngineTypeOK
<1>3. CASE SaveSnapshot(r)
  <2> USE <1>3 DEF SaveSnapshot, poolVars, schedVars
  <2>1. EngineTypeOK' /\ HeldSound' /\ DownIsEmpty'
    BY DEF EngineInv, EngineTypeOK, HeldSound, DownIsEmpty
  <2>2. Sound(queue)' /\ Sound(file)' /\ \A q \in Requests : Sound(snap[q])'
    <3>1. Sound(queue)' /\ \A q \in Requests : Sound(snap[q])'
      BY DEF EngineInv, Sound, Distinct, Elems
    <3>2. Sound(file)'
      BY DEF EngineInv, Sound, Distinct, Elems
    <3> QED
      BY <3>1, <3>2
  <2>3. RunsCounted' /\ JobInOnePlace'
    BY DEF EngineInv, RunsCounted, JobInOnePlace, Elems, Ids, Distinct
  <2> QED
    BY <2>1, <2>2, <2>3 DEF EngineInv, EngineTypeOK
<1>4. CASE SaveFails(r) \/ Answer(r)
  <2> DEFINE Ends == /\ req' = [req EXCEPT ![r] = "idle"]
                     /\ job' = [job EXCEPT ![r] = NoEntry]
                     /\ snap' = [snap EXCEPT ![r] = << >>]
                     /\ UNCHANGED <<up, cancelled, queue, file, poolVars, schedVars, bookVars>>
  <2>0. Ends
    BY <1>4 DEF SaveFails, Answer
  <2> USE <2>0 DEF poolVars, schedVars, bookVars
  <2>1. << >> \in Seq(Entry)
    OBVIOUS
  <2>2. EngineTypeOK' /\ HeldSound' /\ DownIsEmpty'
    <3>1. EngineTypeOK'
      BY <2>1 DEF EngineInv, EngineTypeOK
    <3> QED
      BY <3>1 DEF EngineInv, EngineTypeOK, HeldSound, DownIsEmpty
  <2>3. Sound(queue)' /\ Sound(file)'
    BY DEF EngineInv, Sound, Distinct, Elems
  <2>4. ASSUME NEW q \in Requests PROVE Sound(snap[q])'
    <3>1. CASE q = r
      <4>1. snap'[q] = << >>
        BY <3>1 DEF EngineInv, EngineTypeOK
      <4> QED
        BY <4>1, EngineAssumption DEF Sound, Distinct, Elems, EngineAssumption
    <3>2. CASE q # r
      <4>1. snap'[q] = snap[q]
        BY <3>2 DEF EngineInv, EngineTypeOK
      <4> QED
        BY <4>1 DEF EngineInv, Sound, Distinct, Elems
    <3> QED
      BY <3>1, <3>2
  <2>5. RunsCounted' /\ JobInOnePlace'
    BY DEF EngineInv, RunsCounted, JobInOnePlace, Elems, Ids, Distinct
  <2>6. \A q \in Requests : req'[q] # "idle" => job'[q] \in JobIds
    BY DEF EngineInv, EngineTypeOK
  <2> HIDE <2>0
  <2> QED
    BY <2>2, <2>3, <2>4, <2>5, <2>6 DEF EngineInv
<1> QED
  BY <1>1, <1>2, <1>3, <1>4

\* The steps of the workers and of the pool that starts them and waits.
LEMMA PoolSteps ==
    ASSUME EngineInv, StartCycle \/ PoolReturns \/ \E w \in Workers : Work(w)
    PROVE  EngineInv'
<1>1. CASE StartCycle
  <2> USE <1>1 DEF StartCycle, apiVars, bookVars
  <2>1. EngineTypeOK'
    <3>1. 1 \in 1..(Concurrency + 1)
      BY EngineAssumption DEF EngineAssumption
    <3> QED
      BY <3>1 DEF EngineInv, EngineTypeOK
  <2>2. HeldSound' /\ DownIsEmpty'
    BY DEF EngineInv, HeldSound, DownIsEmpty
  <2>3. Sound(queue)' /\ Sound(file)' /\ \A r \in Requests : Sound(snap[r])'
    BY DEF EngineInv, Sound, Distinct, Elems
  <2>4. JobInOnePlace' /\ RunsCounted'
    BY DEF EngineInv, JobInOnePlace, RunsCounted, Distinct, Elems
  <2> QED
    BY <2>1, <2>2, <2>3, <2>4 DEF EngineInv
<1>2. CASE PoolReturns
  <2> USE <1>2 DEF PoolReturns, apiVars, poolVars, bookVars
  <2>1. EngineTypeOK' /\ HeldSound' /\ DownIsEmpty'
    BY DEF EngineInv, EngineTypeOK, HeldSound, DownIsEmpty
  <2> QED
    BY <2>1, QuietStep DEF EngineInv
<1>3. ASSUME NEW w \in Workers, PollEmpty(w) \/ HandlerReturns(w) PROVE EngineInv'
  <2> USE <1>3 DEF PollEmpty, HandlerReturns, apiVars, schedVars, bookVars
  <2>1. EngineTypeOK'
    <3>1. CASE PollEmpty(w)
      BY <3>1 DEF EngineInv, EngineTypeOK
    <3>2. CASE HandlerReturns(w)
      BY <3>2 DEF EngineInv, EngineTypeOK
    <3> QED
      BY <3>1, <3>2
  <2>2. HeldSound' /\ DownIsEmpty'
    BY DEF EngineInv, EngineTypeOK, HeldSound, DownIsEmpty
  <2> QED
    BY <2>1, <2>2, QuietStep DEF EngineInv
<1>4. ASSUME NEW w \in Workers, PollJob(w) PROVE EngineInv'
  <2> DEFINE head == Head(queue)
             taken == [head EXCEPT !.attempt = @ + 1]
  <2>1. /\ queue \in Seq(Entry) /\ queue # << >> /\ Distinct(queue)
        /\ head \in Entry /\ head \in Elems(queue)
        /\ head.id \in used /\ head.attempt < head.max
    BY <1>4, ElemsTail DEF EngineInv, EngineTypeOK, Sound, PollJob
  <2>2. /\ taken \in Entry /\ taken.id = head.id /\ taken.max = head.max
        /\ taken.attempt = head.attempt + 1 /\ taken.attempt <= taken.max
    BY <2>1 DEF Entry
  <2>3. /\ queue' = Tail(queue)
        /\ held' = [held EXCEPT ![w] = taken]
        /\ result' = [result EXCEPT ![w] = @]
        /\ wpc' = [wpc EXCEPT ![w] = "running"]
        /\ runs' = [runs EXCEPT ![head.id] = @ + 1]
    BY <1>4, <2>1 DEF PollJob
  <2>4. UNCHANGED <<up, cancelled, file, req, job, snap, disp, next, results, used, accepted,
                    ended>>
    BY <1>4 DEF PollJob, apiVars, schedVars
  <2>5. /\ wpc[w] = "polling" /\ held[w] = NoEntry /\ disp = "pool" /\ result[w] = "none"
        /\ up
    BY <1>4 DEF PollJob, EngineInv, HeldSound, DownIsEmpty
  <2>6. taken # NoEntry
    BY <2>2, NoEntryAssumption
  <2>7. /\ Tail(queue) \in Seq(Entry) /\ Len(Tail(queue)) = Len(queue) - 1
        /\ Elems(Tail(queue)) \subseteq Elems(queue)
        /\ head.id \notin Ids(Tail(queue)) /\ Distinct(Tail(queue))
    BY <2>1, ElemsTail
  <2> HIDE DEF head, taken
  <2>8. EngineTypeOK'
    <3>1. head.id \in JobIds
      BY <2>1 DEF Entry
    <3>2. runs' \in [JobIds -> Nat] /\ held' \in [Workers -> Entry \cup {NoEntry}]
      BY <2>2, <2>3, <3>1 DEF EngineInv, EngineTypeOK
    <3> QED
      BY <2>3, <2>4, <2>7, <3>2 DEF EngineInv, EngineTypeOK
  <2>9. HeldSound' /\ DownIsEmpty'
    BY <2>1, <2>2, <2>3, <2>4, <2>5, <2>6 DEF EngineInv, EngineTypeOK, HeldSound, DownIsEmpty
  <2>10. Sound(queue)' /\ Sound(file)' /\ \A r \in Requests : Sound(snap[r])'
    <3>1. Sound(file)' /\ \A r \in Requests : Sound(snap[r])'
      BY <2>4 DEF EngineInv, Sound, Distinct, Elems
    <3>2. Len(Tail(queue)) <= Capacity
      BY <2>1, <2>7, EngineAssumption DEF EngineInv, Sound, EngineAssumption
    <3>3. Sound(queue)'
      BY <2>3, <2>4, <2>7, <3>2 DEF EngineInv, Sound, Distinct, Elems
    <3> QED
      BY <3>1, <3>3
  <2>11. Ids(queue)' = Ids(Tail(queue)) /\ Ids(Tail(queue)) \subseteq Ids(queue)
         /\ Elems(queue)' = Elems(Tail(queue)) /\ head.id \in Ids(queue)
    BY <2>1, <2>3, <2>7 DEF Ids, Elems
  <2>12. \A v \in Workers : held'[v] = IF v = w THEN taken ELSE held[v]
    BY <2>3 DEF EngineInv, EngineTypeOK
  <2>13. JobInOnePlace'
    BY <2>2, <2>5, <2>7, <2>10, <2>11, <2>12 DEF EngineInv, JobInOnePlace, Sound
  <2>14. \A j \in JobIds : runs'[j] = IF j = head.id THEN runs[j] + 1 ELSE runs[j]
    BY <2>3 DEF EngineInv, EngineTypeOK
  <2>15. \A e \in Elems(Tail(queue)) : e.id # head.id /\ e \in Entry
    <3>1. \A e \in Elems(Tail(queue)) : e.id # head.id
      BY <2>7 DEF Ids
    <3>2. \A e \in Elems(queue) : e \in Entry
      BY <2>1 DEF Elems
    <3> QED
      BY <2>7, <3>1, <3>2
  <2>16. RunsCounted'
    <3>1. \A e \in Elems(queue)' : runs'[e.id] <= e.attempt
      BY <2>7, <2>11, <2>14, <2>15 DEF EngineInv, RunsCounted, Entry
    <3>2. runs[head.id] <= head.attempt /\ runs[head.id] \in Nat /\ head.attempt \in Nat
      BY <2>1 DEF EngineInv, EngineTypeOK, RunsCounted, Entry
    <3>3. ASSUME NEW v \in Workers, held'[v] # NoEntry
          PROVE  runs'[held'[v].id] <= held'[v].attempt
      <4>1. CASE v = w
        BY <2>1, <2>2, <2>12, <2>14, <3>2, <4>1 DEF Entry
      <4>2. CASE v # w
        <5>1. held[v] \in Entry /\ held'[v] = held[v]
          BY <2>12, <3>3, <4>2 DEF EngineInv, EngineTypeOK
        <5>2. held[v].id # head.id
          BY <2>11, <3>3, <5>1 DEF EngineInv, JobInOnePlace
        <5> QED
          BY <2>14, <3>3, <5>1, <5>2 DEF EngineInv, RunsCounted, Entry
      <4> QED
        BY <4>1, <4>2
    <3>4. \A j \in JobIds : j \notin used' => runs'[j] = 0
      BY <2>1, <2>4, <2>14 DEF EngineInv, RunsCounted
    <3> QED
      BY <3>1, <3>3, <3>4 DEF RunsCounted
  <2> QED
    BY <2>4, <2>8, <2>9, <2>10, <2>13, <2>16 DEF EngineInv
<1> QED
  BY <1>1, <1>2, <1>3, <1>4 DEF Work

\* The dispatcher's loop over the results, and the scheduler's.
LEMMA DispatchSteps ==
    ASSUME EngineInv,
           \/ SkipResult \/ RetryJob \/ RetryFails \/ CycleReturns \/ SendResult
           \/ SchedulerStops \/ ReadResult
    PROVE  EngineInv'
<1>1. CASE SkipResult
  <2> USE <1>1 DEF SkipResult, apiVars
  <2>1. next \in Workers /\ next + 1 \in 1..(Concurrency + 1)
    BY EngineAssumption DEF EngineInv, EngineTypeOK, Workers, EngineAssumption
  <2>2. result[next] \in {"succeeded", "failed"} => held[next] # NoEntry
    BY <2>1 DEF EngineInv, HeldSound, Workers
  <2>3. EngineTypeOK'
    <3>1. ended' \subseteq JobIds
      BY <2>1, <2>2 DEF EngineInv, EngineTypeOK, Entry
    <3> QED
      BY <2>1, <3>1 DEF EngineInv, EngineTypeOK
  <2>4. \A v \in Workers : held'[v] = IF v = next THEN NoEntry ELSE held[v]
    BY DEF EngineInv, EngineTypeOK
  <2>5. HeldSound' /\ DownIsEmpty'
    BY <2>1, <2>4 DEF EngineInv, HeldSound, DownIsEmpty, Workers
  <2>6. Sound(queue)' /\ Sound(file)' /\ \A r \in Requests : Sound(snap[r])'
    BY DEF EngineInv, Sound, Distinct, Elems
  <2>7. JobInOnePlace' /\ RunsCounted'
    BY <2>4 DEF EngineInv, JobInOnePlace, RunsCounted, Distinct, Elems, Ids
  <2> QED
    BY <2>3, <2>5, <2>6, <2>7 DEF EngineInv
<1>2. CASE RetryJob
  <2> DEFINE e == held[next]
  <2> USE <1>2 DEF RetryJob, apiVars, bookVars
  <2>1. next \in Workers /\ next + 1 \in 1..(Concurrency + 1)
    BY EngineAssumption DEF EngineInv, EngineTypeOK, Workers, EngineAssumption
  <2>2. /\ e # NoEntry /\ e \in Entry /\ e.id \in used /\ e.attempt < e.max
        /\ e.id \notin Ids(queue) /\ runs[e.id] <= e.attempt
    <3>1. e # NoEntry
      BY <2>1 DEF EngineInv, HeldSound, Workers
    <3>2. e \in Entry /\ e.id \in used /\ e.attempt < e.max
      BY <2>1, <3>1 DEF EngineInv, EngineTypeOK, HeldSound, RetryAllowed
    <3>3. e.id \notin Ids(queue) /\ runs[e.id] <= e.attempt
      BY <2>1, <3>1 DEF EngineInv, JobInOnePlace, RunsCounted
    <3> QED
      BY <3>1, <3>2, <3>3
  <2>3. queue \in Seq(Entry) /\ Sound(queue) /\ queue' = Append(queue, e)
    BY DEF EngineInv, EngineTypeOK
  <2>4. \A v \in Workers : held'[v] = IF v = next THEN NoEntry ELSE held[v]
    BY DEF EngineInv, EngineTypeOK
  <2>5. EngineTypeOK'
    BY <2>1, <2>2, <2>3, ElemsAppend DEF EngineInv, EngineTypeOK
  <2>6. HeldSound' /\ DownIsEmpty'
    BY <2>1, <2>4 DEF EngineInv, HeldSound, DownIsEmpty, Workers
  <2>7. Elems(queue)' = Elems(queue) \cup {e} /\ Ids(queue)' = Ids(queue) \cup {e.id}
    <3> HIDE DEF e
    <3> HIDE <1>2
    <3>1. Elems(queue)' = Elems(Append(queue, e)) /\ Ids(queue)' = Ids(Append(queue, e))
      BY <2>3 DEF Ids, Elems
    <3> QED
      BY <2>2, <2>3, <3>1, ElemsAppend
  <2>8. Sound(file)' /\ \A r \in Requests : Sound(snap[r])'
    BY DEF EngineInv, Sound, Distinct, Elems
  <2>9. Sound(queue)'
    <3>1. Len(queue') <= Capacity /\ Distinct(queue)'
      BY <2>2, <2>3, SoundAppend DEF Distinct
    <3> QED
      BY <2>2, <2>3, <2>7, <3>1 DEF Sound
  <2>10. RunsCounted'
    BY <2>2, <2>4, <2>7 DEF EngineInv, RunsCounted
  <2>11. JobInOnePlace'
    BY <2>1, <2>2, <2>4, <2>7, <2>9 DEF EngineInv, JobInOnePlace, Sound
  <2> QED
    BY <2>5, <2>6, <2>8, <2>9, <2>10, <2>11 DEF EngineInv
<1>3. CASE RetryFails
  <2> USE <1>3 DEF RetryFails, apiVars, bookVars
  <2>1. EngineTypeOK' /\ HeldSound' /\ DownIsEmpty'
    BY DEF EngineInv, EngineTypeOK, HeldSound, DownIsEmpty
  <2>2. Sound(queue)' /\ Sound(file)' /\ \A r \in Requests : Sound(snap[r])'
    BY DEF EngineInv, Sound, Distinct, Elems
  <2>3. JobInOnePlace' /\ RunsCounted'
    BY DEF EngineInv, JobInOnePlace, RunsCounted, Distinct, Elems, Ids
  <2> QED
    BY <2>1, <2>2, <2>3 DEF EngineInv
<1>4. CASE CycleReturns \/ SendResult \/ SchedulerStops \/ ReadResult
  <2> USE <1>4 DEF CycleReturns, SendResult, SchedulerStops, ReadResult, apiVars, poolVars,
                   bookVars
  <2>1. EngineTypeOK' /\ HeldSound' /\ DownIsEmpty'
    BY DEF EngineInv, EngineTypeOK, HeldSound, DownIsEmpty
  <2> QED
    BY <2>1, QuietStep DEF EngineInv
<1> QED
  BY <1>1, <1>2, <1>3, <1>4

\* Every step preserves the invariant.
LEMMA EngineStep == EngineInv /\ [EngineNext]_vars => EngineInv'
<1> SUFFICES ASSUME EngineInv, [EngineNext]_vars PROVE EngineInv'
  OBVIOUS
<1>1. CASE EngineNext
  BY <1>1, ProcessSteps, RequestSteps, PoolSteps, DispatchSteps DEF EngineNext, Dispatch
<1>2. CASE UNCHANGED vars
  <2> USE <1>2 DEF vars, apiVars, poolVars, schedVars, bookVars
  <2>1. EngineTypeOK' /\ HeldSound' /\ DownIsEmpty'
    BY DEF EngineInv, EngineTypeOK, HeldSound, DownIsEmpty
  <2> QED
    BY <2>1, QuietStep DEF EngineInv
<1> QED
  BY <1>1, <1>2

\* The inductive invariant holds of every run of queue, pool, dispatcher, scheduler
\* and REST handlers, with crashes between any two of their steps.
THEOREM EngineInvariant == EngineSpec => []EngineInv
  BY EngineInitInv, EngineStep, PTL DEF EngineSpec

\* Every variable of the engine keeps its type.
THEOREM EngineTypes == EngineSpec => []EngineTypeOK
<1>1. EngineInv => EngineTypeOK
  BY DEF EngineInv
<1> QED
  BY <1>1, EngineInvariant, PTL

\* Dequeue, retry, early return and restart from an old queue.json leave a job in
\* one place: queued once or held by one worker.
THEOREM OnePlacePerJob == EngineSpec => []JobInOnePlace
<1>1. EngineInv => JobInOnePlace
  BY DEF EngineInv
<1> QED
  BY <1>1, EngineInvariant, PTL

\* What Submit and the dispatcher's retry enqueue, and what the handlers save, has
\* an attempt left: RunOnce never meets a job it refuses to start.
THEOREM QueuedJobsRunnable == EngineSpec => []QueuedJobsCanRun
<1>1. EngineInv => QueuedJobsCanRun
  BY DEF EngineInv, Sound, QueuedJobsCanRun
<1> QED
  BY <1>1, EngineInvariant, PTL

\* One process starts a job at most max_attempts times.
THEOREM AttemptsBounded == EngineSpec => []RunsWithinAttempts
<1>1. EngineInv => RunsWithinAttempts
  <2> SUFFICES ASSUME EngineInv PROVE RunsWithinAttempts
    OBVIOUS
  <2>1. ASSUME NEW w \in Workers, held[w] # NoEntry
        PROVE  runs[held[w].id] <= held[w].max
    <3>1. held[w] \in Entry
      BY <2>1 DEF EngineInv, EngineTypeOK
    <3>2. runs[held[w].id] <= held[w].attempt /\ held[w].attempt <= held[w].max
      BY <2>1 DEF EngineInv, RunsCounted, HeldSound
    <3> QED
      BY <3>1, <3>2 DEF EngineInv, EngineTypeOK, Entry
  <2> QED
    BY <2>1 DEF EngineInv, RunsCounted, RunsWithinAttempts
<1> QED
  BY <1>1, EngineInvariant, PTL

\* The file never holds more jobs than the queue of the next process takes, so that
\* Restore does not abort its start.
THEOREM RestartsFit == EngineSpec => []RestartFits
<1>1. EngineInv => RestartFits
  BY DEF EngineInv, Sound, RestartFits
<1> QED
  BY <1>1, EngineInvariant, PTL

\* A restart from queue.json comes up, and no worker drops a job it restored.
THEOREM RestoredQueueRuns == EngineSpec => []RestoredJobsRun
<1>1. RestartFits /\ QueuedJobsCanRun => RestoredJobsRun
  BY DEF RestoredJobsRun
<1> QED
  BY <1>1, RestartsFit, QueuedJobsRunnable, PTL
=============================================================================
