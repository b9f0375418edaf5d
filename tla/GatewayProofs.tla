---------------------------- MODULE GatewayProofs ----------------------------
(***************************************************************************)
(* The gateway's sessions never leak, and what a stream sent is what its   *)
(* close report carries: for every set of streams and sessions, every      *)
(* limit and every bound.                                                  *)
(***************************************************************************)
EXTENDS GatewayRuntime, TLAPS

\* The initial state satisfies the invariant.
LEMMA GatewayInitInv == GatewayInit => GatewayInv
<1> SUFFICES ASSUME GatewayInit PROVE GatewayInv
  OBVIOUS
<1>1. GatewayTypeOK
  BY OpsAssumption DEF GatewayInit, GatewayTypeOK, OpsInit, OpsTypeOK, Closed, Absent, OpsAssumption
<1>2. \A a \in Streams : ~InTracker(a)
  BY DEF GatewayInit, InTracker, Tracked, Proxying
<1>3. StreamsHaveSessions /\ NoLeakedSession
  BY <1>2 DEF GatewayInit, StreamsHaveSessions, NoLeakedSession
<1>4. BytesAreReported /\ CloseReportsAllBytes
  BY DEF GatewayInit, BytesAreReported, CloseReportsAllBytes
<1>5. SessionsAreOwned
  BY <1>2 DEF SessionsAreOwned
<1> QED
  BY <1>1, <1>3, <1>4, <1>5 DEF GatewayInv

\* Every step of one handler keeps the types.
LEMMA GatewayTypeStep ==
    ASSUME GatewayInv, [GatewayNext]_gatewayVars
    PROVE  GatewayTypeOK'
<1> USE DEF GatewayInv, GatewayTypeOK, Absent
<1>1. CASE UNCHANGED gatewayVars
  BY <1>1 DEF gatewayVars, clockVars, streamVars, opsVars, OpsTypeOK
<1>2. CASE Tick
  BY <1>2 DEF Tick, streamVars, opsVars, OpsTypeOK
<1>3. CASE GatewayRestart
  BY <1>3 DEF GatewayRestart, OpsRestart, OpsTypeOK, Closed
<1>4. CASE DrainControl
  BY <1>4 DEF DrainControl, ToggleMarker, RequestDrain, ClearDrain, streamVars, clockVars, OpsTypeOK
<1>5. ASSUME NEW a \in Streams, Handle(a)
      PROVE  GatewayTypeOK'
  <2> USE <1>5 DEF clockVars, opsVars, OpsTypeOK, GotoPoint
  <2>0. {"resolving", "rejected", "refused", "leaving", "copying", "closing", "done"}
              \subseteq Closed \cup Tracked \cup {"resolving"}
    BY DEF Closed, Tracked, Proxying
  <2>1. CASE GatewayAdmission(a)
    BY <2>0, <2>1 DEF GatewayAdmission
  <2>2. CASE ResolveFails(a)
    BY <2>0, <2>2 DEF ResolveFails
  <2>3. CASE Redirect(a)
    BY <2>0, <2>3 DEF Redirect, ReportClose
  <2>4. CASE UpstreamFails(a)
    BY <2>0, <2>4 DEF UpstreamFails, ReportClose
  <2>5. CASE AnswerHead(a)
    <3>1. sess[a] \in Sessions
      BY <2>5 DEF AnswerHead, StreamsHaveSessions, InTracker, Tracked, Proxying
    <3>2. BytesOf(table, sess[a]) \in Nat
      BY <3>1 DEF BytesOf
    <3>3. reported' \in [Streams -> Nat \cup {Absent}]
      <4>1. reported' = reported
                \/ reported' = [reported EXCEPT ![a] = BytesOf(table, sess[a])]
        BY <2>5 DEF AnswerHead, ReportClose
      <4> QED
        BY <3>2, <4>1
    <3>4. hub' \in [Sessions -> {"none", "open", "closed"}]
      BY <2>5 DEF AnswerHead, ReportClose
    <3> QED
      BY <2>0, <2>5, <3>3, <3>4 DEF AnswerHead
  <2>6. CASE BeginCopy(a)
    BY <2>0, <2>6 DEF BeginCopy
  <2>7. CASE WriteChunk(a)
    <3>1. sess[a] \in Sessions
      BY <2>7 DEF WriteChunk, StreamsHaveSessions, InTracker, Tracked, Proxying
    <3>2. BytesOf(table, sess[a]) + 1 \in Nat
      BY <3>1 DEF BytesOf
    <3>3. table' \in [Sessions -> Nat \cup {Absent}]
      BY <2>7, <3>2 DEF WriteChunk, AddBytes
    <3> QED
      BY <2>7, <3>3 DEF WriteChunk
  <2>8. CASE CopyEnds(a)
    <3>1. sess[a] \in Sessions
      BY <2>8 DEF CopyEnds, StreamsHaveSessions, InTracker, Tracked, Proxying
    <3>2. BytesOf(table, sess[a]) \in Nat
      BY <3>1 DEF BytesOf
    <3> QED
      BY <2>0, <2>8, <3>2 DEF CopyEnds
  <2>9. CASE SendClose(a)
    BY <2>0, <2>9 DEF SendClose, ReportClose
  <2>10. CASE Leave(a)
    BY <2>0, <2>10 DEF Leave, CloseSession
  <2> QED
    BY <2>1, <2>2, <2>3, <2>4, <2>5, <2>6, <2>7, <2>8, <2>9, <2>10 DEF Handle
<1>6. ASSUME NEW a \in Streams, ClientLeaves(a) \/ Beat(a) \/ BeatExit(a)
      PROVE  GatewayTypeOK'
  BY <1>6 DEF ClientLeaves, Beat, BeatExit, clockVars, opsVars, OpsTypeOK
<1>7. ASSUME NEW a \in Streams, NEW s \in Sessions, ResolveOk(a, s)
      PROVE  GatewayTypeOK'
  <2>1. {"redirecting", "requesting", "requestingHead"}
              \subseteq Closed \cup Tracked \cup {"resolving"}
    BY DEF Closed, Tracked, Proxying
  <2> QED
    BY <1>7, <2>1 DEF ResolveOk, StartSession, GotoPoint, clockVars, opsVars, OpsTypeOK
<1> QED
  BY <1>1, <1>2, <1>3, <1>4, <1>5, <1>6, <1>7 DEF GatewayNext

\* Each step keeps every entry of the tracker with a handler, and the bytes of a
\* stream with its entry, its final snapshot and its report.
LEMMA GatewayStep ==
    ASSUME GatewayInv, [GatewayNext]_gatewayVars
    PROVE  GatewayInv'
<1>0. GatewayTypeOK'
  BY GatewayTypeStep
<1> DEFINE Rest == /\ StreamsHaveSessions
                   /\ NoLeakedSession
                   /\ BytesAreReported
                   /\ SessionsAreOwned
                   /\ CloseReportsAllBytes
<1> SUFFICES Rest'
  BY <1>0 DEF GatewayInv
<1>a. GatewayTypeOK /\ Rest
  BY DEF GatewayInv
<1> USE DEF StreamsHaveSessions, NoLeakedSession, BytesAreReported, SessionsAreOwned,
            CloseReportsAllBytes, InTracker
<1>1. CASE UNCHANGED gatewayVars
  BY <1>a, <1>1 DEF gatewayVars, clockVars, streamVars
<1>2. CASE Tick
  BY <1>a, <1>2 DEF Tick, streamVars
<1>3. CASE GatewayRestart
  BY <1>3 DEF GatewayRestart, Tracked, Proxying
<1>4. CASE DrainControl
  BY <1>a, <1>4 DEF DrainControl, streamVars
<1>5. ASSUME NEW a \in Streams, Handle(a)
      PROVE  Rest'
  <2> USE <1>a, <1>0 DEF GatewayTypeOK, GotoPoint, Absent, Tracked, Proxying, Closed
  <2>1. CASE GatewayAdmission(a)
    <3> USE <2>1 DEF GatewayAdmission
    <3>1. StreamsHaveSessions'
      OBVIOUS
    <3>2. NoLeakedSession'
      OBVIOUS
    <3>3. BytesAreReported' /\ CloseReportsAllBytes'
      OBVIOUS
    <3>4. SessionsAreOwned'
      OBVIOUS
    <3> QED
      BY <3>1, <3>2, <3>3, <3>4
  <2>2. CASE ResolveFails(a)
    <3> USE <2>2 DEF ResolveFails
    <3>1. StreamsHaveSessions'
      OBVIOUS
    <3>2. NoLeakedSession'
      OBVIOUS
    <3>3. BytesAreReported' /\ CloseReportsAllBytes'
      OBVIOUS
    <3>4. SessionsAreOwned'
      OBVIOUS
    <3> QED
      BY <3>1, <3>2, <3>3, <3>4
  <2>3. CASE Redirect(a)
    <3> USE <2>3 DEF Redirect, ReportClose
    <3>1. StreamsHaveSessions'
      OBVIOUS
    <3>2. NoLeakedSession'
      OBVIOUS
    <3>3. BytesAreReported' /\ CloseReportsAllBytes'
      OBVIOUS
    <3>4. SessionsAreOwned'
      OBVIOUS
    <3> QED
      BY <3>1, <3>2, <3>3, <3>4
  <2>4. CASE UpstreamFails(a)
    <3> USE <2>4 DEF UpstreamFails, ReportClose
    <3>1. StreamsHaveSessions'
      OBVIOUS
    <3>2. NoLeakedSession'
      OBVIOUS
    <3>3. BytesAreReported' /\ CloseReportsAllBytes'
      OBVIOUS
    <3>4. SessionsAreOwned'
      OBVIOUS
    <3> QED
      BY <3>1, <3>2, <3>3, <3>4
  <2>5. CASE AnswerHead(a)
    <3> USE <2>5 DEF AnswerHead, ReportClose
    <3>1. StreamsHaveSessions'
      OBVIOUS
    <3>2. NoLeakedSession'
      OBVIOUS
    <3>3. BytesAreReported' /\ CloseReportsAllBytes'
      OBVIOUS
    <3>4. SessionsAreOwned'
      OBVIOUS
    <3> QED
      BY <3>1, <3>2, <3>3, <3>4
  <2>6. CASE BeginCopy(a)
    <3> USE <2>6 DEF BeginCopy
    <3>1. StreamsHaveSessions'
      OBVIOUS
    <3>2. NoLeakedSession'
      OBVIOUS
    <3>3. BytesAreReported' /\ CloseReportsAllBytes'
      OBVIOUS
    <3>4. SessionsAreOwned'
      OBVIOUS
    <3> QED
      BY <3>1, <3>2, <3>3, <3>4
  <2>7. CASE WriteChunk(a)
    <3> USE <2>7 DEF WriteChunk, AddBytes, BytesOf
    <3>1. StreamsHaveSessions'
      OBVIOUS
    <3>2. NoLeakedSession'
      OBVIOUS
    <3>3. BytesAreReported' /\ CloseReportsAllBytes'
      OBVIOUS
    <3>4. SessionsAreOwned'
      OBVIOUS
    <3> QED
      BY <3>1, <3>2, <3>3, <3>4
  <2>8. CASE CopyEnds(a)
    <3> USE <2>8 DEF CopyEnds, BytesOf
    <3>1. StreamsHaveSessions'
      OBVIOUS
    <3>2. NoLeakedSession'
      OBVIOUS
    <3>3. BytesAreReported' /\ CloseReportsAllBytes'
      OBVIOUS
    <3>4. SessionsAreOwned'
      OBVIOUS
    <3> QED
      BY <3>1, <3>2, <3>3, <3>4
  <2>9. CASE SendClose(a)
    <3> USE <2>9 DEF SendClose, ReportClose
    <3>1. StreamsHaveSessions'
      OBVIOUS
    <3>2. NoLeakedSession'
      OBVIOUS
    <3>3. BytesAreReported' /\ CloseReportsAllBytes'
      OBVIOUS
    <3>4. SessionsAreOwned'
      OBVIOUS
    <3> QED
      BY <3>1, <3>2, <3>3, <3>4
  <2>10. CASE Leave(a)
    <3> USE <2>10 DEF Leave, CloseSession
    <3>1. StreamsHaveSessions'
      OBVIOUS
    <3>2. NoLeakedSession'
      OBVIOUS
    <3>3. BytesAreReported' /\ CloseReportsAllBytes'
      OBVIOUS
    <3>4. SessionsAreOwned'
      OBVIOUS
    <3> QED
      BY <3>1, <3>2, <3>3, <3>4
  <2> QED
    BY <1>5, <2>1, <2>2, <2>3, <2>4, <2>5, <2>6, <2>7, <2>8, <2>9, <2>10 DEF Handle
<1>6. ASSUME NEW a \in Streams, ClientLeaves(a) \/ Beat(a) \/ BeatExit(a)
      PROVE  Rest'
  BY <1>a, <1>6 DEF ClientLeaves, Beat, BeatExit, GatewayTypeOK
<1>7. ASSUME NEW a \in Streams, NEW s \in Sessions, ResolveOk(a, s)
      PROVE  Rest'
  <2> USE <1>a, <1>0, <1>7 DEF GatewayTypeOK, GotoPoint, Absent, Tracked, Proxying, Closed, ResolveOk, StartSession
  <2>1. StreamsHaveSessions'
    OBVIOUS
  <2>2. NoLeakedSession'
    OBVIOUS
  <2>3. BytesAreReported' /\ CloseReportsAllBytes'
    OBVIOUS
  <2>4. SessionsAreOwned'
    OBVIOUS
  <2> QED
    BY <2>1, <2>2, <2>3, <2>4
<1> QED
  BY <1>1, <1>2, <1>3, <1>4, <1>5, <1>6, <1>7 DEF GatewayNext

\* The invariant holds in every reachable state.
THEOREM GatewayInvariant == GatewaySpec => []GatewayInv
<1>1. GatewayInit => GatewayInv
  BY GatewayInitInv
<1>2. GatewayInv /\ [GatewayNext]_gatewayVars => GatewayInv'
  BY GatewayStep
<1> QED
  BY <1>1, <1>2, PTL DEF GatewaySpec

\* Every variable of the gateway keeps its type.
THEOREM GatewayTypes == GatewaySpec => []GatewayTypeOK
<1>1. GatewayInv => GatewayTypeOK
  BY DEF GatewayInv
<1> QED
  BY <1>1, GatewayInvariant, PTL

\* No entry of the session tracker outlives the handlers of its session, whatever
\* sessions the Hub hands out.
THEOREM SessionsDoNotLeak == GatewaySpec => []NoLeakedSession
<1>1. GatewayInv => NoLeakedSession
  BY DEF GatewayInv
<1> QED
  BY <1>1, GatewayInvariant, PTL

\* The close report of a stream carries all the bytes it sent.
THEOREM CloseIsComplete == GatewaySpec => []CloseReportsAllBytes
<1>1. GatewayInv => CloseReportsAllBytes
  BY DEF GatewayInv
<1> QED
  BY <1>1, GatewayInvariant, PTL

\* A step keeps a closed session closed at the Hub for as long as its handler is
\* about to return, since no other handler has the session.
LEMMA HubStep ==
    ASSUME GatewayInv, SessionsEndAtHub, [GatewayNext]_gatewayVars
    PROVE  SessionsEndAtHub'
<1> SUFFICES ASSUME ~SharedSessions, NetworkReliable, NEW b \in Streams,
                    pc'[b] = "leaving",
                    ~gone'[b] \/ wrote'[b] > 0 \/ beat'[b] # "off"
             PROVE  hub'[sess'[b]] = "closed"
  BY DEF SessionsEndAtHub
<1> USE DEF GatewayInv, GatewayTypeOK
<1>0. /\ pc[b] = "leaving" => sess[b] \in Sessions
      /\ pc[b] = "leaving" /\ (~gone[b] \/ wrote[b] > 0 \/ beat[b] # "off")
            => hub[sess[b]] = "closed"
  BY DEF SessionsEndAtHub, StreamsHaveSessions, InTracker, Tracked
<1>1. CASE UNCHANGED gatewayVars \/ Tick \/ DrainControl
  BY <1>0, <1>1 DEF gatewayVars, streamVars, Tick, DrainControl
<1>2. CASE GatewayRestart
  BY <1>2 DEF GatewayRestart
<1>3. ASSUME NEW a \in Streams, Handle(a)
      PROVE  hub'[sess'[b]] = "closed"
  <2> USE DEF GotoPoint
  <2>1. CASE GatewayAdmission(a) \/ ResolveFails(a) \/ BeginCopy(a) \/ WriteChunk(a)
                \/ CopyEnds(a) \/ Leave(a)
    BY <1>0, <2>1
       DEF GatewayAdmission, ResolveFails, BeginCopy, WriteChunk, CopyEnds, Leave, Closed
  <2>2. CASE Redirect(a) \/ UpstreamFails(a) \/ AnswerHead(a)
    <3>1. sess[a] \in Sessions /\ beat[a] = "off" /\ wrote[a] = 0
      BY <2>2 DEF Redirect, UpstreamFails, AnswerHead, StreamsHaveSessions, InTracker,
                  Tracked, Proxying, BytesAreReported
    <3>2. /\ hub' = [hub EXCEPT ![sess[a]] = "closed"] \/ (gone[a] /\ hub' = hub)
          /\ pc' = [pc EXCEPT ![a] = "leaving"]
          /\ UNCHANGED <<sess, gone, beat, wrote>>
      BY <2>2 DEF Redirect, UpstreamFails, AnswerHead, ReportClose
    <3> QED
      BY <1>0, <3>1, <3>2
  <2>3. CASE SendClose(a)
    <3>1. sess[a] \in Sessions
      BY <2>3 DEF SendClose, StreamsHaveSessions, InTracker, Tracked, Proxying
    <3> QED
      BY <1>0, <2>3, <3>1 DEF SendClose, ReportClose
  <2> QED
    BY <1>3, <2>1, <2>2, <2>3 DEF Handle
<1>4. ASSUME NEW a \in Streams, ClientLeaves(a) \/ Beat(a) \/ BeatExit(a)
      PROVE  hub'[sess'[b]] = "closed"
  BY <1>0, <1>4 DEF ClientLeaves, Beat, BeatExit
<1>5. ASSUME NEW a \in Streams, NEW s \in Sessions, ResolveOk(a, s)
      PROVE  hub'[sess'[b]] = "closed"
  <2>1. b # a
    BY <1>5 DEF ResolveOk, GotoPoint
  <2>2. pc[b] = "leaving" /\ sess'[b] = sess[b] /\ sess[b] # s
    BY <1>5, <2>1 DEF ResolveOk, GotoPoint, InTracker, Tracked
  <2> QED
    BY <1>0, <1>5, <2>1, <2>2 DEF ResolveOk
<1> QED
  BY <1>1, <1>2, <1>3, <1>4, <1>5 DEF GatewayNext

\* Only a client that left before its copy began leaves a session open at the Hub.
THEOREM HubToldOfEnd == GatewaySpec => []SessionsEndAtHub
<1>1. GatewayInit => SessionsEndAtHub
  BY DEF GatewayInit, SessionsEndAtHub
<1>2. GatewayInv /\ SessionsEndAtHub /\ [GatewayNext]_gatewayVars => SessionsEndAtHub'
  BY HubStep
<1> QED
  BY <1>1, <1>2, GatewayInvariant, PTL DEF GatewaySpec
=============================================================================
