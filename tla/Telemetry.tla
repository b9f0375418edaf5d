----------------------------- MODULE Telemetry -----------------------------
(***************************************************************************)
(* The bounded recorders of events, spans, audit records and central logs  *)
(* (server/telemetry.go, internal/observability) and the loop of the Media *)
(* Hub connector that sends the retained events (mediahub/connector.go).   *)
(*                                                                         *)
(* Each flush sends all events that are retained, so the Hub gets an event *)
(* again and again until it is evicted, and not at all when it is evicted  *)
(* between two flushes that arrive.  A record is its number.               *)
(***************************************************************************)
EXTENDS Naturals, Sequences, FiniteSets, Functions

CONSTANTS
    RingLimit,      \* limit of the recorders, 100 in runServe
    MaxPosts        \* bound on the records of each recorder

ASSUME TelemetryAssumption == RingLimit \in Nat \ {0} /\ MaxPosts \in Nat

Recorders == {"events", "traces", "audit", "logs"}

VARIABLES
    ring,       \* what each recorder retains
    posted,     \* how many records it has taken
    phase,      \* of runServe: down, bootstrap (of the connector) or serving
    payload,    \* events of the flush under way
    flushing,   \* a flush is under way
    received,   \* events of this process the Hub has received
    newest,     \* the newest of them
    overrun     \* at some time more than the limit were newer than it

telemetryVars == <<ring, posted, phase, payload, flushing, received, newest, overrun>>
hub == <<payload, flushing, received, newest>>

(* A record too many is dropped (mutant).                                  *)
TrimShort(s) == IF Len(s) >= RingLimit THEN SubSeq(s, Len(s) - RingLimit + 2, Len(s)) ELSE s

(* The newest records within the limit.                                    *)
Trim(s) == IF Len(s) > RingLimit THEN SubSeq(s, Len(s) - RingLimit + 1, Len(s)) ELSE s

(* A recorder takes a valid record.                                        *)
Take(r) ==
    /\ posted[r] < MaxPosts
    /\ posted' = [posted EXCEPT ![r] = @ + 1]
    /\ ring' = [ring EXCEPT ![r] = Trim(Append(@, posted[r] + 1))]
    /\ UNCHANGED <<phase, hub>>

(* The store handlers of the routes.                                       *)
RecordEvent ==
    /\ phase = "serving" /\ Take("events")
    /\ overrun' = IF posted'["events"] - newest > RingLimit THEN TRUE ELSE overrun
RecordSpan == phase = "serving" /\ Take("traces") /\ UNCHANGED overrun
RecordAudit == phase = "serving" /\ Take("audit") /\ UNCHANGED overrun
RecordLog == phase = "serving" /\ Take("logs") /\ UNCHANGED overrun

eventsPayload == Range(ring["events"])

(* The newest alone is sent (mutant).                                      *)
FlushNewest ==
    /\ phase # "down" /\ ~ flushing
    /\ flushing' = TRUE
    /\ payload' = {e \in eventsPayload : e = posted["events"]}
    /\ UNCHANGED <<ring, posted, phase, received, newest, overrun>>

(* A flush that would send no more events than the Hub has is left out     *)
(* (mutant).                                                               *)
FlushIfMore ==
    /\ phase # "down" /\ ~ flushing
    /\ Cardinality(received) < Len(ring["events"])
    /\ flushing' = TRUE
    /\ payload' = eventsPayload
    /\ UNCHANGED <<ring, posted, phase, received, newest, overrun>>

(* Bootstrap, then the ticker of the events loop: the payload is a         *)
(* snapshot.  Ticks are dropped while a flush is under way.                *)
FlushEvents ==
    /\ phase # "down" /\ ~ flushing
    /\ flushing' = TRUE
    /\ payload' = eventsPayload
    /\ UNCHANGED <<ring, posted, phase, received, newest, overrun>>

Newest(events) == IF events = {} THEN 0 ELSE CHOOSE e \in events : \A f \in events : f <= e

(* The Hub gets the payload.  In the loop it makes no difference whether   *)
(* its answer arrives.                                                     *)
HubReceives ==
    /\ phase = "serving" /\ flushing
    /\ received' = received \cup payload
    /\ newest' = Newest(received')
    /\ flushing' = FALSE /\ payload' = {}
    /\ UNCHANGED <<ring, posted, phase, overrun>>

(* The answer to the flush of Bootstrap: runServe records that the         *)
(* connector is ready, starts its loops and serves the routes.             *)
ConnectorReady ==
    /\ phase = "bootstrap" /\ flushing
    /\ phase' = "serving"
    /\ received' = payload /\ newest' = Newest(payload)
    /\ flushing' = FALSE /\ payload' = {}
    /\ posted' = [posted EXCEPT !["events"] = 2]
    /\ ring' = [ring EXCEPT !["events"] = Trim(Append(@, 2))]
    /\ UNCHANGED overrun

(* The request does not arrive; the loop ignores the error.                *)
FlushFails ==
    /\ phase = "serving" /\ flushing
    /\ flushing' = FALSE /\ payload' = {}
    /\ UNCHANGED <<ring, posted, phase, received, newest, overrun>>

(* The process ends, in Bootstrap also because the flush failed or its     *)
(* answer was lost, and what was recorded is gone.                         *)
Down ==
    /\ phase # "down"
    /\ phase' = "down"
    /\ ring' = [r \in Recorders |-> <<>>]
    /\ posted' = [r \in Recorders |-> 0]
    /\ flushing' = FALSE /\ payload' = {}
    /\ received' = {} /\ newest' = 0 /\ overrun' = FALSE

(* runServe makes the recorders, each with its first record.               *)
ServeRecorders ==
    /\ phase = "down"
    /\ phase' = "bootstrap"
    /\ ring' = [r \in Recorders |-> <<1>>]
    /\ posted' = [r \in Recorders |-> 1]
    /\ UNCHANGED <<hub, overrun>>

TelemetryInit ==
    /\ ring = [r \in Recorders |-> <<>>]
    /\ posted = [r \in Recorders |-> 0]
    /\ phase = "down"
    /\ payload = {} /\ flushing = FALSE
    /\ received = {} /\ newest = 0
    /\ overrun = FALSE

TelemetryNext ==
    \/ RecordEvent \/ RecordSpan \/ RecordAudit \/ RecordLog
    \/ FlushEvents \/ HubReceives \/ FlushFails
    \/ ServeRecorders \/ ConnectorReady \/ Down

(* The ticker fires, and a request of the client ends.                     *)
TelemetryFairness ==
    /\ WF_telemetryVars(FlushEvents)
    /\ WF_telemetryVars(flushing /\ (HubReceives \/ FlushFails \/ ConnectorReady \/ Down))
TelemetrySpec == TelemetryInit /\ [][TelemetryNext]_telemetryVars /\ TelemetryFairness

-----------------------------------------------------------------------------
(* Every recorder keeps its newest records, in order and without gaps, as  *)
(* many as the limit allows.                                               *)
NewestRetained ==
    \A r \in Recorders :
        LET kept == IF posted[r] > RingLimit THEN RingLimit ELSE posted[r]
        IN ring[r] = [i \in 1..kept |-> posted[r] - kept + i]

(* While no more than the limit of events came since the newest the Hub    *)
(* has, none is lost: each one was received or is still retained, however  *)
(* many flushes failed.                                                    *)
NoEventLost ==
    ~ overrun => 1..posted["events"] \subseteq received \cup Range(ring["events"])

(* So an event that is not yet at the Hub is still there to be sent.       *)
EventsKept == NewestRetained /\ NoEventLost

(* What every step preserves, and NoEventLost follows from.  Unless it was *)
(* overrun the Hub has every event up to the newest it has, and the flush  *)
(* under way joins on to that.                                             *)
Evicted(p) == IF p > RingLimit THEN p - RingLimit ELSE 0

JoinsOn ==
    ~ overrun =>
        /\ newest \in 0..posted["events"]
        /\ posted["events"] - newest <= RingLimit
        /\ received = 1..newest
        /\ flushing => \E p \in 1..posted["events"] :
                           newest <= p /\ payload = (Evicted(p) + 1)..p

Phases ==
    IF phase = "serving" THEN posted["events"] > 0
    ELSE
        /\ ~ overrun /\ newest = 0
        /\ phase = "down" => ~ flushing
        /\ posted = [r \in Recorders |-> IF phase = "down" THEN 0 ELSE 1]

TelemetryInv ==
    /\ posted \in [Recorders -> Nat]
    /\ DOMAIN ring = Recorders
    /\ {overrun, flushing} \subseteq BOOLEAN
    /\ phase \in {"down", "bootstrap", "serving"}
    /\ NewestRetained /\ JoinsOn /\ Phases

(* When flushes stop failing and the service stays up, the Hub gets all    *)
(* events that are retained.                                               *)
RetainedArrive ==
    <>[][~ FlushFails /\ ~ Down]_telemetryVars
        => <>[](Range(ring["events"]) \subseteq received)
=============================================================================
