--------------------------- MODULE GatewayRuntime ---------------------------
(***************************************************************************)
(* The public stream gateway (internal/gateway): the HTTP handler of a     *)
(* handoff request, the proxy with its heartbeat goroutine, the session    *)
(* tracker, and the admission policy of internal/ops.                      *)
(*                                                                         *)
(* A stream is one request handler.  Streams is the set of their           *)
(* identities; one whose handler and heartbeat have returned is used again *)
(* by a later request.  Bytes are counted in chunks of 125000, the amount  *)
(* the admission check calls one megabit, and time in whole seconds.       *)
(***************************************************************************)
EXTENDS OpsRuntime, FiniteSets

CONSTANTS
    Streams,           \* identities of request handlers
    Sessions,          \* session identifiers
    NoSession,         \* the session of a handler that has none
    ManualDrainUsed,   \* something in the process calls RequestDrain and ClearDrain
    SharedSessions,    \* the Hub may name a session that is already in use
    NetworkReliable,   \* no exchange with the Hub is lost
    MaxChunks,         \* bound: chunks one handler writes
    MaxWindow,         \* bound: chunks one process writes
    MaxSeconds         \* bound: age of the process in seconds

ASSUME GatewayAssumption ==
    /\ IsFiniteSet(Sessions)
    /\ NoSession \notin Sessions
    /\ ManualDrainUsed \in BOOLEAN
    /\ SharedSessions \in BOOLEAN
    /\ NetworkReliable \in BOOLEAN
    /\ MaxChunks \in Nat
    /\ MaxWindow \in Nat
    /\ MaxSeconds \in Nat

VARIABLES
    table,       \* Tracker.sessions: bytes of each session, Absent if it has no entry
    window,      \* Tracker.windowBytes (and bytesSent: neither is ever reset)
    seconds,     \* seconds since Tracker.windowStartedAt
    idle,        \* seconds since the last byte was sent
    pc,          \* where each handler is
    sess,        \* its session
    gone,        \* its request context is done
    beat,        \* its heartbeat goroutine
    wrote,       \* chunks it wrote to its client
    final,       \* the snapshot it closes its session with
    reported,    \* bytes in the close report that reached the Hub, or Absent
    hub          \* status of each session at the Hub

streamVars == <<pc, sess, gone, beat, wrote, final, reported>>
clockVars == <<seconds, idle>>
gatewayVars == <<table, window, clockVars, streamVars, hub, opsVars>>

Absent == -1
Closed == {"idle", "rejected", "refused", "done"}
Proxying == {"requesting", "requestingHead", "copying", "closing"}
Tracked == Proxying \cup {"redirecting", "leaving"}

\* The handler has called Tracker.Start, and will call Tracker.Close.
InTracker(a) == pc[a] \in Tracked

\* Every variable holds a value of its type.
GatewayTypeOK ==
    /\ OpsTypeOK
    /\ table \in [Sessions -> Nat \cup {Absent}]
    /\ window \in Nat
    /\ seconds \in Nat
    /\ idle \in Nat
    /\ pc \in [Streams -> Closed \cup Tracked \cup {"resolving"}]
    /\ sess \in [Streams -> Sessions \cup {NoSession}]
    /\ gone \in [Streams -> BOOLEAN]
    /\ beat \in [Streams -> {"off", "starting", "waiting"}]
    /\ wrote \in [Streams -> Nat]
    /\ final \in [Streams -> Nat]
    /\ reported \in [Streams -> Nat \cup {Absent}]
    /\ hub \in [Sessions -> {"none", "open", "closed"}]

GatewayInit ==
    /\ OpsInit
    /\ table = [s \in Sessions |-> Absent]
    /\ window = 0
    /\ seconds = 0
    /\ idle = 0
    /\ pc = [a \in Streams |-> "idle"]
    /\ sess = [a \in Streams |-> NoSession]
    /\ gone = [a \in Streams |-> FALSE]
    /\ beat = [a \in Streams |-> "off"]
    /\ wrote = [a \in Streams |-> 0]
    /\ final = [a \in Streams |-> 0]
    /\ reported = [a \in Streams |-> Absent]
    /\ hub = [s \in Sessions |-> "none"]

-----------------------------------------------------------------------------
(* The session tracker.                                                    *)

ActiveSessions == Cardinality({s \in Sessions : table[s] # Absent})

\* Snapshot of a session that has no entry is the zero record.
BytesOf(t, s) == IF t[s] = Absent THEN 0 ELSE t[s]

StartSession(t, s) == [t EXCEPT ![s] = 0]

\* AddBytes writes the entry back, and so creates one that is absent.
AddBytes(t, s) == [t EXCEPT ![s] = BytesOf(t, s) + 1]
CloseSession(t, s) == [t EXCEPT ![s] = Absent]

\* CurrentEgressBps: all bytes ever sent over the age of the process.
CurrentEgress == IF seconds = 0 THEN 0 ELSE window \div seconds

GatewaySnapshot ==
    [activeJobs |-> 0, maxJobs |-> 0,
     activeSessions |-> ActiveSessions, maxSessions |-> CfgMaxSessions,
     egress |-> CurrentEgress, maxEgress |-> CfgMaxEgressMbps]

-----------------------------------------------------------------------------
(* The request handler.                                                    *)

GotoPoint(a, point) == pc' = [pc EXCEPT ![a] = point]

\* Admission without the policy (mutant).
AdmitAll(a) ==
    /\ pc[a] \in Closed
    /\ beat[a] = "off"
    /\ GotoPoint(a, "resolving")
    /\ gone' = [gone EXCEPT ![a] = FALSE]
    /\ sess' = [sess EXCEPT ![a] = NoSession]
    /\ wrote' = [wrote EXCEPT ![a] = 0]
    /\ final' = [final EXCEPT ![a] = 0]
    /\ reported' = [reported EXCEPT ![a] = Absent]
    /\ UNCHANGED <<table, window, clockVars, beat, hub, opsVars>>

\* A request arrives: the path is parsed and the admission policy asked.
GatewayAdmission(a) ==
    /\ pc[a] \in Closed
    /\ beat[a] = "off"
    /\ GotoPoint(a, IF CanAcceptGatewaySession(GatewaySnapshot) = "allowed"
                    THEN "resolving" ELSE "rejected")
    /\ gone' = [gone EXCEPT ![a] = FALSE]
    /\ sess' = [sess EXCEPT ![a] = NoSession]
    /\ wrote' = [wrote EXCEPT ![a] = 0]
    /\ final' = [final EXCEPT ![a] = 0]
    /\ reported' = [reported EXCEPT ![a] = Absent]
    /\ UNCHANGED <<table, window, clockVars, beat, hub, opsVars>>

\* The client disconnects.
ClientLeaves(a) ==
    /\ pc[a] \notin Closed
    /\ ~gone[a]
    /\ gone' = [gone EXCEPT ![a] = TRUE]
    /\ UNCHANGED <<table, window, clockVars, pc, sess, beat, wrote, final, reported, hub,
                   opsVars>>

\* The node is not registered, the Hub refuses the token, its answer is invalid or
\* lost, or the client left.
ResolveFails(a) ==
    /\ pc[a] = "resolving"
    /\ GotoPoint(a, "refused")
    /\ UNCHANGED <<table, window, clockVars, sess, gone, beat, wrote, final, reported, hub,
                   opsVars>>

\* The Hub answers with a session and a mode, and the tracker starts the session.
ResolveOk(a, s) ==
    /\ pc[a] = "resolving"
    /\ ~gone[a]
    /\ SharedSessions \/ \A b \in Streams : InTracker(b) => sess[b] # s
    /\ hub' = [hub EXCEPT ![s] = "open"]
    /\ table' = StartSession(table, s)
    /\ sess' = [sess EXCEPT ![a] = s]
    /\ \E point \in {"redirecting", "requesting", "requestingHead"} : GotoPoint(a, point)
    /\ UNCHANGED <<window, clockVars, gone, beat, wrote, final, reported, opsVars>>

\* closeSession: the error is ignored, and a dead context sends nothing.
ReportClose(a, bytes, alive) ==
    \/ /\ alive
       /\ reported' = [reported EXCEPT ![a] = bytes]
       /\ hub' = [hub EXCEPT ![sess[a]] = "closed"]
    \/ /\ NetworkReliable => ~alive
       /\ UNCHANGED <<reported, hub>>

\* A redirect (heartbeat, answer and close) or a mode the proxy does not know
\* (answer and close), on the request context.
Redirect(a) ==
    /\ pc[a] = "redirecting"
    /\ ReportClose(a, 0, ~gone[a])
    /\ GotoPoint(a, "leaving")
    /\ UNCHANGED <<table, window, clockVars, sess, gone, beat, wrote, final, opsVars>>

\* A failed upstream request that is answered and not reported (mutant).
UpstreamFailsUnreported(a) ==
    /\ pc[a] \in {"requesting", "requestingHead"}
    /\ GotoPoint(a, "leaving")
    /\ UNCHANGED <<table, window, clockVars, sess, gone, beat, wrote, final, reported, hub,
                   opsVars>>

\* The upstream request cannot be made or fails.
UpstreamFails(a) ==
    /\ pc[a] \in {"requesting", "requestingHead"}
    /\ ReportClose(a, 0, ~gone[a])
    /\ GotoPoint(a, "leaving")
    /\ UNCHANGED <<table, window, clockVars, sess, gone, beat, wrote, final, opsVars>>

\* A HEAD request is answered; its close carries a fresh snapshot.
AnswerHead(a) ==
    /\ pc[a] = "requestingHead"
    /\ ReportClose(a, BytesOf(table, sess[a]), ~gone[a])
    /\ GotoPoint(a, "leaving")
    /\ UNCHANGED <<table, window, clockVars, sess, gone, beat, wrote, final, opsVars>>

\* The upstream answers a GET: the heartbeat goroutine starts, then the copy.
BeginCopy(a) ==
    /\ pc[a] = "requesting"
    /\ ~gone[a]
    /\ beat' = [beat EXCEPT ![a] = "starting"]
    /\ GotoPoint(a, "copying")
    /\ UNCHANGED <<table, window, clockVars, sess, gone, wrote, final, reported, hub, opsVars>>

\* countingResponseWriter: a chunk goes to the client and is counted.
WriteChunk(a) ==
    /\ pc[a] = "copying"
    /\ wrote[a] < MaxChunks
    /\ window < MaxWindow
    /\ wrote' = [wrote EXCEPT ![a] = @ + 1]
    /\ table' = AddBytes(table, sess[a])
    /\ window' = window + 1
    /\ idle' = 0
    /\ UNCHANGED <<seconds, pc, sess, gone, beat, final, reported, hub, opsVars>>

\* A copy that goes on for a client that left (mutant).
CopyIgnoresClient(a) ==
    /\ pc[a] = "copying"
    /\ ~gone[a]
    /\ final' = [final EXCEPT ![a] = BytesOf(table, sess[a])]
    /\ GotoPoint(a, "closing")
    /\ UNCHANGED <<table, window, clockVars, sess, gone, beat, wrote, reported, hub, opsVars>>

\* The body ends or a read or write fails; the snapshot for the close is taken.
CopyEnds(a) ==
    /\ pc[a] = "copying"
    /\ final' = [final EXCEPT ![a] = BytesOf(table, sess[a])]
    /\ GotoPoint(a, "closing")
    /\ UNCHANGED <<table, window, clockVars, sess, gone, beat, wrote, reported, hub, opsVars>>

\* The close on the request context (mutant).
SendCloseOnRequest(a) ==
    /\ pc[a] = "closing"
    /\ ReportClose(a, final[a], ~gone[a])
    /\ GotoPoint(a, "leaving")
    /\ UNCHANGED <<table, window, clockVars, sess, gone, beat, wrote, final, opsVars>>

\* The close after a copy uses context.Background().
SendClose(a) ==
    /\ pc[a] = "closing"
    /\ ReportClose(a, final[a], TRUE)
    /\ GotoPoint(a, "leaving")
    /\ UNCHANGED <<table, window, clockVars, sess, gone, beat, wrote, final, opsVars>>

\* The deferred Tracker.Close; then the server ends the request context.
Leave(a) ==
    /\ pc[a] = "leaving"
    /\ table' = CloseSession(table, sess[a])
    /\ gone' = [gone EXCEPT ![a] = TRUE]
    /\ GotoPoint(a, "done")
    /\ UNCHANGED <<window, clockVars, sess, beat, wrote, final, reported, hub, opsVars>>

-----------------------------------------------------------------------------
(* heartbeatLoop.                                                          *)

\* A heartbeat that marks its session as seen, and so stores the record (mutant).
BeatTouches(a) ==
    /\ beat[a] # "off"
    /\ beat' = [beat EXCEPT ![a] = "waiting"]
    /\ table' = [table EXCEPT ![sess[a]] = BytesOf(table, sess[a])]
    /\ UNCHANGED <<window, clockVars, pc, sess, gone, wrote, final, reported, hub, opsVars>>

\* The first heartbeat, or one per tick; a ready ticker may win over done.
Beat(a) ==
    /\ beat[a] # "off"
    /\ beat' = [beat EXCEPT ![a] = "waiting"]
    /\ UNCHANGED <<table, window, clockVars, pc, sess, gone, wrote, final, reported, hub,
                   opsVars>>

\* A loop that waits for its ticker only (mutant).
BeatForever(a) == beat[a] = "stopped" /\ UNCHANGED gatewayVars

\* heartbeatDone is closed, or the request context is done.
BeatExit(a) ==
    /\ beat[a] = "waiting"
    /\ pc[a] # "copying" \/ gone[a]
    /\ beat' = [beat EXCEPT ![a] = "off"]
    /\ UNCHANGED <<table, window, clockVars, pc, sess, gone, wrote, final, reported, hub,
                   opsVars>>

-----------------------------------------------------------------------------
Tick ==
    /\ seconds < MaxSeconds
    /\ seconds' = seconds + 1
    /\ idle' = idle + 1
    /\ UNCHANGED <<table, window, streamVars, hub, opsVars>>

GatewayRestart ==
    /\ table' = [s \in Sessions |-> Absent]
    /\ window' = 0
    /\ seconds' = 0
    /\ idle' = 0
    /\ pc' = [a \in Streams |-> "idle"]
    /\ sess' = [a \in Streams |-> NoSession]
    /\ gone' = [a \in Streams |-> FALSE]
    /\ beat' = [a \in Streams |-> "off"]
    /\ wrote' = [a \in Streams |-> 0]
    /\ final' = [a \in Streams |-> 0]
    /\ reported' = [a \in Streams |-> Absent]
    /\ OpsRestart
    /\ UNCHANGED hub

\* The marker file changes, or the in-process flag does.
DrainControl ==
    /\ \/ ToggleMarker
       \/ ManualDrainUsed /\ (RequestDrain \/ ClearDrain)
    /\ UNCHANGED <<table, window, clockVars, streamVars, hub>>

Handle(a) ==
    \/ GatewayAdmission(a) \/ ResolveFails(a) \/ Redirect(a) \/ UpstreamFails(a)
    \/ AnswerHead(a) \/ BeginCopy(a) \/ WriteChunk(a) \/ CopyEnds(a) \/ SendClose(a)
    \/ Leave(a)

GatewayNext ==
    \/ Tick \/ GatewayRestart \/ DrainControl
    \/ \E a \in Streams :
        \/ Handle(a) \/ ClientLeaves(a) \/ Beat(a) \/ BeatExit(a)
        \/ \E s \in Sessions : ResolveOk(a, s)

GatewaySpec == GatewayInit /\ [][GatewayNext]_gatewayVars

-----------------------------------------------------------------------------
(* Fairness.  The handler's own steps are taken; an exchange with the Hub  *)
(* ends because the client has a 15 s timeout; upstream requests and reads *)
(* return once the request context is done.  An upstream may stall for as  *)
(* long as its client stays.                                               *)

CodeStep(a) ==
    \/ ResolveFails(a) \/ Redirect(a) \/ SendClose(a) \/ Leave(a)
    \/ gone[a] /\ (UpstreamFails(a) \/ CopyEnds(a))

\* The heartbeat that the goroutine sends before its loop.
FirstBeat(a) == beat[a] = "starting" /\ Beat(a)

\* select picks at random among the ready cases: strong fairness for the exit.
GatewayFairness ==
    \A a \in Streams :
        /\ WF_gatewayVars(CodeStep(a))
        /\ WF_gatewayVars(FirstBeat(a))
        /\ SF_gatewayVars(BeatExit(a))

GatewayFairSpec == GatewaySpec /\ GatewayFairness

-----------------------------------------------------------------------------
(* Properties.                                                             *)

\* No session leaks: an entry of the tracker has a handler that will close it,
\* although AddBytes re-creates the entry that another handler of the same
\* session has closed.
NoLeakedSession ==
    \A s \in Sessions : table[s] # Absent => \E a \in Streams : InTracker(a) /\ sess[a] = s

\* When every session has one handler and the Hub is reachable, a stream that
\* sent bytes is closed at the Hub with exactly these bytes, also when its
\* client disconnected in the middle.
CloseReportsAllBytes ==
    ~SharedSessions /\ NetworkReliable =>
        \A a \in Streams : pc[a] = "done" /\ wrote[a] > 0 => reported[a] = wrote[a]

\* The Hub learns of the end of every session it handed out, on each of the five
\* paths that close one: only a client that left before its copy began leaves a
\* session open there, because those closes use the dead request context.
SessionsEndAtHub ==
    ~SharedSessions /\ NetworkReliable =>
        \A a \in Streams :
            pc[a] = "leaving" /\ (~gone[a] \/ wrote[a] > 0 \/ beat[a] # "off")
                => hub[sess[a]] = "closed"

\* A handler whose client left returns, and its session leaves the tracker, even
\* if the upstream never answers.
DisconnectEndsStream ==
    \A a \in Streams : InTracker(a) /\ gone[a] ~> ~InTracker(a)

\* The heartbeat goroutine of a handler that returned stops.
BeatsStop == \A a \in Streams : pc[a] = "done" ~> beat[a] = "off"

\* Nothing of a request stays behind: its handler and its heartbeat goroutine,
\* which nobody waits for, both return.
HandlersReturn == DisconnectEndsStream /\ BeatsStop

\* Once a drain is requested for good the gateway empties: from some point on the
\* tracker holds only sessions whose upstream is working for a client that stays.
DrainEmptiesGateway ==
    <>[]DrainRequested =>
        <>[](\A s \in Sessions : table[s] # Absent =>
                \E a \in Streams : /\ sess[a] = s /\ ~gone[a]
                                   /\ pc[a] \in {"requesting", "requestingHead", "copying"})

-----------------------------------------------------------------------------
(* The inductive invariant.                                                *)

\* A tracked handler has a session; the heartbeat runs only from the copy on.
StreamsHaveSessions ==
    \A a \in Streams :
        /\ InTracker(a) => sess[a] \in Sessions
        /\ beat[a] # "off" => pc[a] \in {"copying", "closing", "leaving", "done"}

\* Bytes are written during a copy only, and kept for the report.
BytesAreReported ==
    \A a \in Streams :
        /\ pc[a] \notin {"copying", "closing", "leaving", "done"} => wrote[a] = 0
        /\ pc[a] = "closing" /\ ~SharedSessions => final[a] = wrote[a]
        /\ pc[a] = "leaving" /\ ~SharedSessions /\ NetworkReliable /\ wrote[a] > 0
              => reported[a] = wrote[a]

\* Without shared sessions a tracked handler owns its entry.
SessionsAreOwned ==
    ~SharedSessions =>
        \A a \in Streams : InTracker(a) =>
            /\ table[sess[a]] = wrote[a]
            /\ \A b \in Streams : InTracker(b) /\ sess[b] = sess[a] => b = a

GatewayInv ==
    /\ GatewayTypeOK
    /\ StreamsHaveSessions
    /\ NoLeakedSession
    /\ BytesAreReported
    /\ SessionsAreOwned
    /\ CloseReportsAllBytes

-----------------------------------------------------------------------------
(* What documents and comments of the repository say.                      *)

\* "the Agent rejects new claims/sessions once job, session or egress limits
\* are reached": no more than max_sessions sessions are open.
SessionLimit == BackpressureEnabled /\ CfgMaxSessions > 0 => ActiveSessions <= CfgMaxSessions

\* "The runtime tracks bytes sent per session": the tracker counts at least what
\* each open stream of the session has sent.
BytesPerSession == \A a \in Streams : InTracker(a) => BytesOf(table, sess[a]) >= wrote[a]

\* "GatewaySessionHeartbeatPayload updates a stream session while bytes are
\* flowing": no heartbeat is sent for a session that was closed at the Hub.
NoBeatAfterClose ==
    [][\A a \in Streams : Beat(a) => hub[sess[a]] # "closed"]_gatewayVars

\* "CurrentEgressBps returns the current approximate egress speed": it is zero
\* when nothing was sent for two seconds.
EgressIsCurrent == idle >= 2 => CurrentEgress = 0
=============================================================================
