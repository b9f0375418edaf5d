--------------------------- MODULE TelemetryProofs ---------------------------
(***************************************************************************)
(* The recorders for every limit: each keeps its newest records without    *)
(* gaps, and the Hub misses no event unless more than the limit came since *)
(* the newest it has, however many flushes are lost.                       *)
(***************************************************************************)
EXTENDS Telemetry, SequenceTheorems, TLAPS

\* What a recorder that has taken p records retains.
Retained(p) == [i \in 1..(p - Evicted(p)) |-> Evicted(p) + i]

LEMMA RetainedType ==
    ASSUME NEW p \in Nat
    PROVE  /\ Evicted(p) \in 0..p
           /\ p - Evicted(p) \in Nat /\ p - Evicted(p) <= RingLimit
           /\ Retained(p) \in Seq(Nat) /\ Len(Retained(p)) = p - Evicted(p)
           /\ Range(Retained(p)) = (Evicted(p) + 1)..p
<1>1. /\ Evicted(p) \in 0..p /\ p - Evicted(p) \in Nat /\ p - Evicted(p) <= RingLimit
  BY TelemetryAssumption DEF Evicted, TelemetryAssumption
<1> DEFINE e == Evicted(p)
           n == p - e
<1> HIDE DEF e, n
<1>2. e \in Nat /\ n \in Nat /\ p = e + n
  BY <1>1 DEF e, n
<1>3. Retained(p) = [i \in 1..n |-> e + i]
  BY DEF Retained, e, n
<1>4. Retained(p) \in [1..n -> Nat]
  BY <1>2, <1>3
<1>5. Retained(p) \in Seq(Nat)
  BY <1>2, <1>4, SeqDef
<1>6. Len(Retained(p)) = n
  <2>1. DOMAIN Retained(p) = 1..Len(Retained(p)) /\ Len(Retained(p)) \in Nat
    BY <1>5, LenProperties
  <2> QED BY <1>2, <1>4, <2>1
<1>7. Range(Retained(p)) = (e + 1)..p
  <2>1. ASSUME NEW k \in (e + 1)..p
        PROVE  k \in Range(Retained(p))
    <3>1. k - e \in 1..n /\ Retained(p)[k - e] = k
      BY <1>2, <1>3
    <3> QED BY <1>4, <3>1 DEF Range
  <2>2. ASSUME NEW k \in Range(Retained(p))
        PROVE  k \in (e + 1)..p
    <3>1. PICK i \in 1..n : k = Retained(p)[i]
      BY <1>4 DEF Range
    <3>2. k = e + i
      BY <1>3, <3>1
    <3> QED BY <1>2, <3>2
  <2> QED BY <2>1, <2>2
<1> QED
  BY <1>1, <1>5, <1>6, <1>7 DEF e, n

\* Trim after Append moves the window by one.
LEMMA TakeRetains ==
    ASSUME NEW p \in Nat, NEW q \in Nat, q = p + 1
    PROVE  Trim(Append(Retained(p), q)) = Retained(q)
<1> DEFINE s == Append(Retained(p), q)
           n == p - Evicted(p)
           m == q - Evicted(q)
           t == Trim(s)
<1>1. /\ Evicted(p) \in 0..p /\ n \in Nat /\ n <= RingLimit
      /\ Retained(p) \in Seq(Nat) /\ Len(Retained(p)) = n
  BY RetainedType
<1>2. /\ Evicted(q) \in Nat /\ m \in Nat
      /\ Retained(q) \in Seq(Nat) /\ Len(Retained(q)) = m
  BY RetainedType
<1>3. /\ s \in Seq(Nat) /\ Len(s) = n + 1 /\ s[n + 1] = q
      /\ \A i \in 1..n : s[i] = Evicted(p) + i
  BY <1>1 DEF Retained
<1>4. \A i \in 1..(n + 1) : s[i] = Evicted(p) + i
  BY <1>1, <1>3
<1>5. CASE n < RingLimit
  <2>1. Evicted(p) = 0 /\ Evicted(q) = 0 /\ n = p
    BY <1>1, <1>5, TelemetryAssumption DEF Evicted, TelemetryAssumption
  <2>2. t = s
    BY <1>1, <1>3, <1>5, TelemetryAssumption DEF Trim, TelemetryAssumption
  <2> HIDE DEF s, t
  <2>3. m = n + 1 /\ \A i \in 1..m : t[i] = Retained(q)[i]
    BY <1>1, <1>4, <2>1, <2>2 DEF Retained
  <2>4. t \in Seq(Nat) /\ Len(t) = m
    BY <1>3, <2>2, <2>3
  <2>5. t = Retained(q)
    BY <1>2, <2>3, <2>4, SeqEqual
  <2> QED BY <2>5 DEF t, s
<1>6. CASE n = RingLimit
  <2>1. Evicted(q) = Evicted(p) + 1 /\ m = n /\ RingLimit \in Nat \ {0}
    BY <1>1, <1>6, TelemetryAssumption DEF Evicted, TelemetryAssumption
  <2>2. t = SubSeq(s, 2, n + 1)
    <3>1. Len(s) > RingLimit /\ Len(s) - RingLimit + 1 = 2
      BY <1>1, <1>3, <1>6
    <3> QED BY <1>3, <3>1 DEF Trim
  <2> HIDE DEF s, t, n
  <2>3. t \in Seq(Nat) /\ Len(t) = n /\ \A i \in 1..n : t[i] = s[i + 1]
    <3>1. 2 \in Int /\ n + 1 \in Int /\ \A i \in 2..(n + 1) : s[i] \in Nat
      BY <1>1, <1>3
    <3>2. SubSeq(s, 2, n + 1) \in Seq(Nat)
      BY <3>1, SubSeqProperties
    <3>3. n >= 1 /\ Len(SubSeq(s, 2, n + 1)) = n
      BY <1>1, <1>6, <2>1, <3>1, SubSeqProperties
    <3>4. \A i \in 1..n : SubSeq(s, 2, n + 1)[i] = s[i + 1]
      BY <1>1, <1>3, <3>3
    <3> QED BY <2>2, <3>2, <3>3, <3>4
  <2>4. ASSUME NEW i \in 1..m
        PROVE  t[i] = Retained(q)[i]
    <3>1. i \in 1..n /\ i + 1 \in 1..(n + 1) /\ Evicted(p) + (i + 1) = Evicted(p) + 1 + i
      BY <1>1, <2>1
    <3>2. t[i] = Evicted(p) + 1 + i
      BY <1>4, <2>3, <3>1
    <3>3. Retained(q)[i] = Evicted(q) + i
      BY DEF Retained
    <3> QED BY <2>1, <3>2, <3>3
  <2>5. t = Retained(q)
    BY <1>2, <2>1, <2>3, <2>4, SeqEqual
  <2> QED BY <2>5 DEF t, s
<1> QED
  BY <1>1, <1>5, <1>6, TelemetryAssumption DEF TelemetryAssumption

\* The window is the one that NewestRetained states.
LEMMA RetainedForm ==
    ASSUME NEW p \in Nat
    PROVE  Retained(p) = LET kept == IF p > RingLimit THEN RingLimit ELSE p
                         IN [i \in 1..kept |-> p - kept + i]
<1>1. CASE p > RingLimit
  <2>1. Evicted(p) = p - RingLimit /\ p - (p - RingLimit) = RingLimit
    BY <1>1, TelemetryAssumption DEF Evicted, TelemetryAssumption
  <2> QED BY <1>1, <2>1 DEF Retained
<1>2. CASE ~ (p > RingLimit)
  <2>1. Evicted(p) = 0 /\ p - p = 0 /\ p - 0 = p
    BY <1>2 DEF Evicted
  <2> QED BY <1>2, <2>1 DEF Retained
<1> QED
  BY <1>1, <1>2

-----------------------------------------------------------------------------
\* The largest number of an interval that starts at one.
LEMMA NewestOfInterval ==
    ASSUME NEW p \in Nat
    PROVE  Newest(1..p) = p
<1>1. CASE p = 0
  <2>1. 1..p = {}
    BY <1>1
  <2> QED BY <1>1, <2>1 DEF Newest
<1>2. CASE p # 0
  <2>1. p \in 1..p /\ \A f \in 1..p : f <= p
    BY <1>2
  <2>2. \A e \in 1..p : (\A f \in 1..p : f <= e) => e = p
    BY <2>1
  <2>3. (CHOOSE e \in 1..p : \A f \in 1..p : f <= e) = p
    BY <2>1, <2>2
  <2> QED BY <2>1, <2>3 DEF Newest
<1> QED
  BY <1>1, <1>2

\* A record moves the window of its recorder.
LEMMA TakeStep ==
    ASSUME TelemetryInv, NEW r \in Recorders, NEW q, q = posted[r] + 1,
           posted' = [posted EXCEPT ![r] = q],
           ring' = [ring EXCEPT ![r] = Trim(Append(ring[r], q))]
    PROVE  posted' \in [Recorders -> Nat] /\ DOMAIN ring' = Recorders /\ NewestRetained'
<1>1. posted[r] \in Nat /\ q \in Nat /\ posted' \in [Recorders -> Nat]
  BY DEF TelemetryInv
<1>2. \A x \in Recorders : ring[x] = Retained(posted[x])
  BY RetainedForm DEF TelemetryInv, NewestRetained
<1>3. Trim(Append(ring[r], q)) = Retained(q)
  BY <1>1, <1>2, TakeRetains
<1>4. \A x \in Recorders : ring'[x] = Retained(posted'[x])
  BY <1>2, <1>3 DEF TelemetryInv
<1>5. NewestRetained'
  BY <1>1, <1>4, RetainedForm DEF NewestRetained
<1> QED
  BY <1>1, <1>5 DEF TelemetryInv

\* The recorders start empty.
LEMMA TelemetryInitial == TelemetryInit => TelemetryInv
<1> SUFFICES ASSUME TelemetryInit PROVE TelemetryInv
  OBVIOUS
<1>1. \A r \in Recorders : posted[r] = 0 /\ ring[r] = <<>>
  BY DEF TelemetryInit
<1>2. Retained(0) = <<>>
  BY RetainedType, EmptySeq
<1>3. NewestRetained
  BY <1>1, <1>2, RetainedForm DEF NewestRetained
<1>4. 1..0 = {} /\ 0 \in 0..0 /\ 0 - 0 <= RingLimit
  BY TelemetryAssumption DEF TelemetryAssumption
<1>5. JoinsOn /\ Phases
  BY <1>1, <1>4 DEF TelemetryInit, JoinsOn, Phases, Recorders
<1> QED
  BY <1>3, <1>5 DEF TelemetryInv, TelemetryInit

\* Every step preserves the invariant.
LEMMA TelemetryStep == TelemetryInv /\ [TelemetryNext]_telemetryVars => TelemetryInv'
<1> SUFFICES ASSUME TelemetryInv, [TelemetryNext]_telemetryVars PROVE TelemetryInv'
  OBVIOUS
<1> DEFINE p == posted["events"]
<1>0. /\ "events" \in Recorders /\ p \in Nat /\ RingLimit \in Nat \ {0}
      /\ ring["events"] = Retained(p) /\ eventsPayload = (Evicted(p) + 1)..p
  <2>1. "events" \in Recorders /\ p \in Nat
    BY DEF Recorders, TelemetryInv
  <2>2. ring["events"] = Retained(p)
    BY <2>1, RetainedForm DEF TelemetryInv, NewestRetained
  <2> QED BY <2>1, <2>2, RetainedType, TelemetryAssumption DEF eventsPayload, TelemetryAssumption
<1>1. CASE RecordEvent
  <2>1. /\ phase = "serving" /\ posted' = [posted EXCEPT !["events"] = p + 1]
        /\ ring' = [ring EXCEPT !["events"] = Trim(Append(ring["events"], p + 1))]
        /\ UNCHANGED <<phase, payload, flushing, received, newest>>
        /\ overrun' = IF posted'["events"] - newest > RingLimit THEN TRUE ELSE overrun
    BY <1>1 DEF RecordEvent, Take, hub
  <2>2. posted' \in [Recorders -> Nat] /\ DOMAIN ring' = Recorders /\ NewestRetained'
    BY <1>0, <2>1, TakeStep
  <2>3. posted'["events"] = p + 1
    BY <1>0, <2>1 DEF TelemetryInv
  <2>4. ASSUME ~ overrun'
        PROVE  /\ newest' \in 0..posted'["events"]
               /\ posted'["events"] - newest' <= RingLimit
               /\ received' = 1..newest'
               /\ flushing' => \E k \in 1..posted'["events"] :
                                  newest' <= k /\ payload' = (Evicted(k) + 1)..k
    <3>1. ~ overrun /\ ~ ((p + 1) - newest > RingLimit)
      <4>1. ~ (posted'["events"] - newest > RingLimit)
        <5>1. SUFFICES ASSUME posted'["events"] - newest > RingLimit
                       PROVE  FALSE
          OBVIOUS
        <5>2. overrun' = TRUE
          BY <2>1, <5>1
        <5> QED BY <2>4, <5>2
      <4>2. overrun' = overrun
        BY <2>1, <4>1
      <4>3. ~ overrun
        BY <2>4, <4>2, Zenon
      <4>4. ~ ((p + 1) - newest > RingLimit)
        BY <2>3, <4>1, Zenon
      <4> QED BY <4>3, <4>4, Zenon
    <3>2. newest \in 0..p /\ received = 1..newest
          /\ (flushing => \E k \in 1..p : newest <= k /\ payload = (Evicted(k) + 1)..k)
      BY <3>1 DEF TelemetryInv, JoinsOn
    <3>3. 1..p \subseteq 1..(p + 1) /\ newest \in 0..(p + 1) /\ (p + 1) - newest <= RingLimit
      <4>1. newest \in Int /\ newest \in 0..p
        BY <1>0, <3>2
      <4>2. p \in Nat /\ RingLimit \in Nat
        BY <1>0
      <4> HIDE DEF p
      <4>3. newest \in 0..(p + 1) /\ (p + 1) - newest <= RingLimit
        BY <3>1, <4>1, <4>2
      <4>4. 1..p \subseteq 1..(p + 1)
        BY <4>2
      <4> QED BY <4>3, <4>4
    <3>4. flushing' => \E k \in 1..(p + 1) : newest' <= k /\ payload' = (Evicted(k) + 1)..k
      BY <2>1, <3>2, <3>3
    <3>5. newest' \in 0..(p + 1) /\ (p + 1) - newest' <= RingLimit /\ received' = 1..newest'
      BY <2>1, <3>2, <3>3
    <3> QED BY <2>3, <3>4, <3>5, Zenon
  <2>5. JoinsOn' /\ Phases'
    BY <1>0, <2>1, <2>3, <2>4 DEF JoinsOn, Phases, Evicted
  <2> QED BY <2>1, <2>2, <2>5 DEF TelemetryInv
<1>2. CASE RecordSpan \/ RecordAudit \/ RecordLog
  <2>1. PICK r \in Recorders \ {"events"} :
          /\ phase = "serving" /\ posted' = [posted EXCEPT ![r] = posted[r] + 1]
          /\ ring' = [ring EXCEPT ![r] = Trim(Append(ring[r], posted[r] + 1))]
          /\ UNCHANGED <<phase, payload, flushing, received, newest, overrun>>
    BY <1>2 DEF RecordSpan, RecordAudit, RecordLog, Take, hub, Recorders
  <2>2. posted' \in [Recorders -> Nat] /\ DOMAIN ring' = Recorders /\ NewestRetained'
    BY <2>1, TakeStep
  <2>3. posted'["events"] = p
    BY <1>0, <2>1 DEF TelemetryInv
  <2>4. JoinsOn' /\ Phases'
    BY <2>1, <2>3 DEF TelemetryInv, JoinsOn, Phases, Evicted
  <2> QED BY <2>1, <2>2, <2>4 DEF TelemetryInv
<1>3. CASE FlushEvents
  <2>1. /\ phase # "down" /\ flushing' = TRUE /\ payload' = (Evicted(p) + 1)..p
        /\ UNCHANGED <<ring, posted, phase, received, newest, overrun>>
    BY <1>0, <1>3 DEF FlushEvents
  <2>2. ASSUME ~ overrun
        PROVE  p \in 1..p /\ newest <= p
    <3>1. newest \in 0..p
      BY <2>2 DEF TelemetryInv, JoinsOn
    <3>2. p # 0
      BY <2>1 DEF TelemetryInv, Phases, JoinsOn, Recorders
    <3> QED BY <1>0, <3>1, <3>2
  <2>3. JoinsOn'
    BY <2>1, <2>2 DEF TelemetryInv, JoinsOn, Evicted
  <2>4. NewestRetained' /\ Phases'
    BY <2>1 DEF TelemetryInv, NewestRetained, Phases
  <2> QED BY <2>1, <2>3, <2>4 DEF TelemetryInv
<1>4. CASE HubReceives
  <2>1. /\ phase = "serving" /\ flushing /\ received' = received \cup payload
        /\ newest' = Newest(received') /\ flushing' = FALSE
        /\ UNCHANGED <<ring, posted, phase, overrun>>
    BY <1>4 DEF HubReceives
  <2>2. ASSUME ~ overrun
        PROVE  /\ newest' \in 0..p /\ p - newest' <= RingLimit
               /\ received' = 1..newest'
    <3>1. newest \in 0..p /\ p - newest <= RingLimit /\ received = 1..newest
      BY <2>2 DEF TelemetryInv, JoinsOn
    <3>2. PICK k \in 1..p : newest <= k /\ payload = (Evicted(k) + 1)..k
      BY <2>1, <2>2 DEF TelemetryInv, JoinsOn
    <3> HIDE DEF p
    <3>3. Evicted(k) \in Nat /\ Evicted(k) <= newest
      BY <1>0, <3>1, <3>2 DEF Evicted
    <3>4. received' = 1..k
      BY <1>0, <2>1, <3>1, <3>2, <3>3
    <3>5. newest' = k
      <4>1. k \in Nat
        BY <1>0
      <4> QED BY <2>1, <3>4, <4>1, NewestOfInterval
    <3> QED BY <1>0, <3>1, <3>2, <3>4, <3>5
  <2>3. JoinsOn'
    BY <2>1, <2>2 DEF JoinsOn
  <2>4. NewestRetained' /\ Phases'
    BY <2>1 DEF TelemetryInv, NewestRetained, Phases
  <2> QED BY <2>1, <2>3, <2>4 DEF TelemetryInv
<1>5. CASE FlushFails
  <2>1. /\ phase = "serving" /\ flushing' = FALSE
        /\ UNCHANGED <<ring, posted, phase, received, newest, overrun>>
    BY <1>5 DEF FlushFails
  <2> QED
    BY <2>1 DEF TelemetryInv, JoinsOn, NewestRetained, Phases
<1>6. CASE ServeRecorders
  <2>1. /\ phase = "down" /\ phase' = "bootstrap" /\ ring' = [r \in Recorders |-> <<1>>]
        /\ posted' = [r \in Recorders |-> 1]
        /\ UNCHANGED <<payload, flushing, received, newest, overrun>>
    BY <1>6 DEF ServeRecorders, hub
  <2>2. ~ overrun /\ newest = 0 /\ ~ flushing /\ received = 1..0
    BY <2>1 DEF TelemetryInv, Phases, JoinsOn
  <2>3. Retained(1) = <<1>>
    <3>1. Evicted(1) = 0
      BY <1>0 DEF Evicted
    <3>2. Retained(1) \in Seq(Nat) /\ Len(Retained(1)) = 1 /\ Retained(1)[1] = 1
      BY <3>1, RetainedType DEF Retained
    <3> QED BY <3>2, SeqEqual
  <2>4. NewestRetained'
    BY <2>1, <2>3, RetainedForm DEF NewestRetained
  <2>5. JoinsOn' /\ Phases'
    BY <1>0, <2>1, <2>2 DEF JoinsOn, Phases, Recorders
  <2> QED BY <2>1, <2>4, <2>5 DEF TelemetryInv
<1>7. CASE ConnectorReady
  <2>1. /\ phase = "bootstrap" /\ flushing /\ phase' = "serving" /\ received' = payload
        /\ newest' = Newest(payload) /\ flushing' = FALSE /\ UNCHANGED overrun
        /\ posted' = [posted EXCEPT !["events"] = 2]
        /\ ring' = [ring EXCEPT !["events"] = Trim(Append(ring["events"], 2))]
    BY <1>7 DEF ConnectorReady
  <2>2. ~ overrun /\ newest = 0 /\ p = 1
    BY <1>0, <2>1 DEF TelemetryInv, Phases
  <2>3. posted' \in [Recorders -> Nat] /\ DOMAIN ring' = Recorders /\ NewestRetained'
    <3>1. 2 = posted["events"] + 1
      BY <2>2
    <3> QED BY <1>0, <2>1, <3>1, TakeStep
  <2>4. payload = 1..1
    <3>1. PICK k \in 1..1 : payload = (Evicted(k) + 1)..k
      BY <2>1, <2>2 DEF TelemetryInv, JoinsOn
    <3>2. k = 1 /\ Evicted(1) = 0
      BY <1>0 DEF Evicted
    <3> QED BY <3>1, <3>2
  <2>5. newest' = 1 /\ posted'["events"] = 2
    BY <1>0, <2>1, <2>4, NewestOfInterval DEF TelemetryInv
  <2>6. JoinsOn' /\ Phases'
    BY <1>0, <2>1, <2>4, <2>5 DEF JoinsOn, Phases
  <2> QED BY <2>1, <2>3, <2>6 DEF TelemetryInv
<1>8. CASE Down
  <2>1. /\ phase' = "down" /\ ring' = [r \in Recorders |-> <<>>]
        /\ posted' = [r \in Recorders |-> 0] /\ flushing' = FALSE
        /\ received' = {} /\ newest' = 0 /\ overrun' = FALSE
    BY <1>8 DEF Down
  <2>2. Retained(0) = <<>>
    BY RetainedType, EmptySeq
  <2>3. NewestRetained'
    BY <2>1, <2>2, RetainedForm DEF NewestRetained
  <2>4. JoinsOn' /\ Phases'
    BY <1>0, <2>1 DEF JoinsOn, Phases, Recorders
  <2> QED BY <2>1, <2>3, <2>4 DEF TelemetryInv
<1>9. CASE UNCHANGED telemetryVars
  BY <1>9 DEF telemetryVars, TelemetryInv, JoinsOn, NewestRetained, Phases
<1> QED
  BY <1>1, <1>2, <1>3, <1>4, <1>5, <1>6, <1>7, <1>8, <1>9 DEF TelemetryNext

-----------------------------------------------------------------------------
\* TelemetryInv holds whatever comes, is flushed, fails or restarts.
THEOREM TelemetryInvariant == TelemetrySpec => []TelemetryInv
  BY TelemetryInitial, TelemetryStep, PTL DEF TelemetrySpec

\* The recorders of server/telemetry.go and internal/observability keep their
\* newest records, whatever the limit.
THEOREM RecordersKeepNewest == TelemetrySpec => []NewestRetained
<1>1. TelemetryInv => NewestRetained
  BY DEF TelemetryInv
<1> QED
  BY <1>1, TelemetryInvariant, PTL

\* The events loop of the connector loses none that the limit does not force
\* it to lose.
THEOREM EventsReachHub == TelemetrySpec => []NoEventLost
<1>1. TelemetryInv => NoEventLost
  <2> SUFFICES ASSUME TelemetryInv, ~ overrun
               PROVE  1..posted["events"] \subseteq received \cup Range(ring["events"])
    BY DEF NoEventLost
  <2> DEFINE p == posted["events"]
  <2>1. p \in Nat /\ ring["events"] = Retained(p)
    BY RetainedForm DEF TelemetryInv, NewestRetained, Recorders
  <2>2. newest \in 0..p /\ p - newest <= RingLimit /\ received = 1..newest
    BY DEF TelemetryInv, JoinsOn
  <2>3. Range(ring["events"]) = (Evicted(p) + 1)..p
    BY <2>1, RetainedType
  <2> HIDE DEF p
  <2>4. Evicted(p) \in Nat /\ Evicted(p) <= newest
    BY <2>1, <2>2, TelemetryAssumption DEF Evicted, TelemetryAssumption
  <2>5. 1..p \subseteq 1..newest \cup (Evicted(p) + 1)..p
    BY <2>1, <2>2, <2>4
  <2> QED BY <2>2, <2>3, <2>5 DEF p
<1> QED
  BY <1>1, TelemetryInvariant, PTL

\* Recorders and events loop together: what is not yet at the Hub is still there.
THEOREM EventsAreKept == TelemetrySpec => []EventsKept
<1>1. NewestRetained /\ NoEventLost => EventsKept
  BY DEF EventsKept
<1> QED
  BY <1>1, RecordersKeepNewest, EventsReachHub, PTL
=============================================================================
