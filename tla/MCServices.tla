----------------------------- MODULE MCServices -----------------------------
(***************************************************************************)
(* Instance for TLC of the parts beside the transfer lanes.  They share no *)
(* state, so one behaviour runs one of them.  The engines have a source    *)
(* whose second version is longer, in parts that leave a remainder.        *)
(***************************************************************************)
EXTENDS Cluster, Telemetry, Console, Configuration, Startup, TransferEngines

VARIABLE running    \* the part this behaviour is about

MCCapacity == (0 :> 2) @@ (1 :> 3)
MCLengths == <<2, 3>>

serviceVars ==
    <<running, clusterVars, telemetryVars, consoleVars, configVars, startupVars, engineVars>>

Init ==
    /\ running \in {"cluster", "telemetry", "console", "configuration", "startup", "engines"}
    /\ ClusterInit /\ TelemetryInit /\ ConsoleInit /\ ConfigInit /\ StartupInit /\ EngineInit
    /\ running # "startup" => cfg = DefaultConfig
    /\ running # "configuration" => written = NoText

Next ==
    /\ UNCHANGED running
    /\ \/ /\ running = "cluster" /\ ClusterNext
          /\ UNCHANGED <<telemetryVars, consoleVars, configVars, startupVars, engineVars>>
       \/ /\ running = "telemetry" /\ TelemetryNext
          /\ UNCHANGED <<clusterVars, consoleVars, configVars, startupVars, engineVars>>
       \/ /\ running = "console" /\ ConsoleNext
          /\ UNCHANGED <<clusterVars, telemetryVars, configVars, startupVars, engineVars>>
       \/ /\ running = "configuration" /\ ConfigNext
          /\ UNCHANGED <<clusterVars, telemetryVars, consoleVars, startupVars, engineVars>>
       \/ /\ running = "startup" /\ StartupNext
          /\ UNCHANGED <<clusterVars, telemetryVars, consoleVars, configVars, engineVars>>
       \/ /\ running = "engines" /\ EngineNext
          /\ UNCHANGED <<clusterVars, telemetryVars, consoleVars, configVars, startupVars>>

Spec == Init /\ [][Next]_serviceVars /\ TelemetryFairness /\ EngineFairness
=============================================================================
