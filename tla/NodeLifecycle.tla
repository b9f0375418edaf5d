--------------------------- MODULE NodeLifecycle ---------------------------
(***************************************************************************)
(* The life of one node: the installer (runBootstrap in                    *)
(* internal/bootstrap/linux_package.go), the service (runServe in          *)
(* internal/bootstrap/bootstrap.go with server.Serve), the identity file   *)
(* (internal/identity), the node state file and the connector              *)
(* (internal/mediahub/state.go, connector.go) and the Hub they register    *)
(* with.                                                                   *)
(*                                                                         *)
(* Installer and service are two processes that share three files.  Every  *)
(* exchange may fail before or after the Hub has acted, every save may     *)
(* fail, both processes may die at any step, the clock may be set, and the *)
(* operator may run the installer at any time with any options.  What the  *)
(* service does once it is connected (jobs, sessions) is in                *)
(* TransferExecutor and GatewayRuntime.                                    *)
(***************************************************************************)
EXTENDS Naturals, FiniteSets

CONSTANTS
    MaxTokens,      \* bound on the registration tokens the Hub issues
    MaxVersion,     \* bound on the versions of the node configuration
    MaxClock,       \* bound on the clock
    MaxRequests,    \* bound on the HTTP requests open at a time
    Overlap         \* the installer may run while the service does

ASSUME NodeAssumption ==
    /\ {MaxTokens, MaxVersion, MaxClock} \subseteq Nat \ {0}
    /\ MaxRequests \in Nat
    /\ Overlap \in BOOLEAN

VARIABLES
    idFile,     \* agent-identity.json: the agent ID, 0 when there is none
    nodeFile,   \* media-hub node state: credentials and configuration version
    cfgFile,    \* agent.yaml: registration token and node UUID
    imported,   \* the environment has node_uuid and node_secret
    issued,     \* tokens the Hub has issued
    spent,      \* tokens a node was registered with
    nodes,      \* nodes the Hub has registered, each with its agent ID
    version,    \* configuration version the Hub serves
    clock,
    pc,         \* where each process is
    opts,       \* the options the installer was called with
    token,      \* registration token of each process
    agent,      \* agent ID of each process
    state,      \* Connector.state of each process
    pending,    \* the state a process is about to save
    stopping,   \* the service has its signal
    open,       \* HTTP requests the service is serving
    orphans     \* nodes of the Hub whose credentials are lost

diskVars == <<idFile, nodeFile, cfgFile>>
hubVars == <<issued, spent, nodes, version>>
memVars == <<token, agent, state, pending>>
runVars == <<opts, stopping, open>>
vars == <<diskVars, imported, hubVars, clock, pc, memVars, runVars, orphans>>

Processes == {"setup", "serve"}
Tokens == 1..MaxTokens
AgentIds == 1..3
ImportedNode == MaxTokens + 1
NodeIds == 1..(MaxTokens + 1)

NoState == [uuid |-> 0, version |-> 0, registeredAt |-> 0, updatedAt |-> 0]
Torn == [NoState EXCEPT !.version = 1]
NoConfig == [token |-> 0, uuid |-> 0, written |-> FALSE]
NoOptions == [token |-> 0, endpoint |-> FALSE, skip |-> FALSE, dry |-> FALSE]

Serving == {"serving", "poll save", "poll rename"}
Running(p) == pc[p] # "idle"
MayStart(p) == ~ Running(p) /\ (Overlap \/ \A q \in Processes : ~ Running(q))
Goto(p, point) == pc' = [pc EXCEPT ![p] = point]

-----------------------------------------------------------------------------
(* NodeState.Empty and NodeState.Validate.                                 *)
Empty(s) == s.uuid = 0
Valid(s) == s.uuid # 0 /\ s.registeredAt # 0 /\ s.updatedAt >= s.registeredAt

(* NewNodeState.                                                           *)
NewNodeState(uuid, v) ==
    [uuid |-> uuid, version |-> v, registeredAt |-> clock, updatedAt |-> clock]

(* StateStore.LoadOrEmpty: a missing file is an empty state, one that      *)
(* cannot be decoded or is not valid is an error.                          *)
Loads(file) == file = NoState \/ Valid(file)

(* The media_hub_state check of runDoctor.                                 *)
Doctor == IF nodeFile = NoState THEN "WARN" ELSE IF Loads(nodeFile) THEN "OK" ELSE "FAIL"

(* Credentials the Hub has given to a process that has not saved them.     *)
Unsaved(p) ==
    IF pc[p] \in {"new save", "new rename"} THEN {pending[p].uuid} \ {ImportedNode} ELSE {}

(* A process returns an error, exits or is killed: its memory is gone.     *)
Exit(p, lost) ==
    /\ Goto(p, "idle")
    /\ token' = [token EXCEPT ![p] = 0]
    /\ agent' = [agent EXCEPT ![p] = 0]
    /\ state' = [state EXCEPT ![p] = NoState]
    /\ pending' = [pending EXCEPT ![p] = NoState]
    /\ orphans' = orphans \cup lost
    /\ IF p = "serve" THEN stopping' = FALSE /\ open' = 0 /\ UNCHANGED opts
                      ELSE opts' = NoOptions /\ UNCHANGED <<stopping, open>>

-----------------------------------------------------------------------------
(* What flags and environment may say.                                     *)
Options == [token : {0} \cup (Tokens \cap 1..issued), endpoint : BOOLEAN,
            skip : BOOLEAN, dry : BOOLEAN]

(* validateBootstrapOptions.                                               *)
ValidOptions(o) == o.token # 0 \/ o.endpoint \/ o.skip

(* runBootstrap up to the registration token: without one, and unless the  *)
(* registration is skipped, the token endpoint is asked.                   *)
SetupStart ==
    /\ MayStart("setup")
    /\ \E o \in Options :
          /\ ValidOptions(o)
          /\ opts' = o
          /\ token' = [token EXCEPT !["setup"] = o.token]
          /\ Goto("setup", IF o.token = 0 /\ ~ o.skip THEN "token" ELSE "configure")
    /\ UNCHANGED <<diskVars, imported, hubVars, clock, agent, state, pending,
                   stopping, open, orphans>>

(* requestBootstrapRegistrationToken: the endpoint issues a token.         *)
RequestToken ==
    /\ pc["setup"] = "token"
    /\ issued < MaxTokens
    /\ issued' = issued + 1
    /\ token' = [token EXCEPT !["setup"] = issued + 1]
    /\ Goto("setup", "configure")
    /\ UNCHANGED <<diskVars, imported, spent, nodes, version, clock, agent,
                   state, pending, runVars, orphans>>

(* It fails, with or without a token issued.                               *)
RequestTokenFails ==
    /\ pc["setup"] = "token"
    /\ issued' \in {issued} \cup ({issued + 1} \cap Tokens)
    /\ Exit("setup", {})
    /\ UNCHANGED <<diskVars, imported, spent, nodes, version, clock>>

(* A dry run registers before it returns (mutant).                         *)
ConfigureLate ==
    /\ pc["setup"] = "configure"
    /\ Goto("setup", IF opts.skip THEN "write" ELSE "identity")
    /\ UNCHANGED <<diskVars, imported, hubVars, clock, memVars, runVars, orphans>>

(* bootstrapConfig, Validate, the end of a dry run, ensureLinuxRuntimeDirs. *)
Configure ==
    /\ pc["setup"] = "configure"
    /\ IF opts.dry
       THEN Exit("setup", {})
       ELSE /\ Goto("setup", IF opts.skip THEN "write" ELSE "identity")
            /\ UNCHANGED <<memVars, runVars, orphans>>
    /\ UNCHANGED <<diskVars, imported, hubVars, clock>>

(* bootstrapConfig: the options over the configuration file there is.      *)
NodeConfig == [token |-> token["setup"], uuid |-> cfgFile.uuid, written |-> TRUE]

(* A registered node is written without its token and secret.              *)
AsRegistered(cfg, s) == [cfg EXCEPT !.token = 0, !.uuid = s.uuid]

(* writeAgentConfig, atomically.  Then the unit may be started: ServeStart. *)
WriteConfig ==
    /\ pc["setup"] = "write"
    /\ cfgFile' = IF opts.skip THEN NodeConfig ELSE AsRegistered(NodeConfig, state["setup"])
    /\ Exit("setup", {})
    /\ UNCHANGED <<idFile, nodeFile, imported, hubVars, clock>>

(* A configuration without a registration token is refused (mutant).       *)
ServeStartWithToken ==
    /\ MayStart("serve")
    /\ cfgFile.token # 0
    /\ token' = [token EXCEPT !["serve"] = cfgFile.token]
    /\ Goto("serve", "identity")
    /\ UNCHANGED <<diskVars, imported, hubVars, clock, agent, state, pending,
                   runVars, orphans>>

(* runServe up to the identity: configuration file and environment.        *)
ServeStart ==
    /\ MayStart("serve")
    /\ cfgFile.written
    /\ token' = [token EXCEPT !["serve"] = cfgFile.token]
    /\ Goto("serve", "identity")
    /\ UNCHANGED <<diskVars, imported, hubVars, clock, agent, state, pending,
                   runVars, orphans>>

-----------------------------------------------------------------------------
(* NewUUID: an identity nobody has.                                        *)
FreshId == CHOOSE id \in AgentIds : id \notin {idFile} \cup {agent[q] : q \in Processes}

(* FileStore.Ensure: the identity of the file, or a fresh one.             *)
Ensure(p) ==
    /\ pc[p] = "identity"
    /\ IF idFile # 0
       THEN /\ agent' = [agent EXCEPT ![p] = idFile]
            /\ Goto(p, "assemble")
       ELSE /\ agent' = [agent EXCEPT ![p] = FreshId]
            /\ Goto(p, "id rename")
    /\ UNCHANGED <<diskVars, imported, hubVars, clock, token, state, pending,
                   runVars, orphans>>

(* FileStore.Save of the new identity: a temporary file is renamed.        *)
SaveIdentity(p) ==
    /\ pc[p] = "id rename"
    /\ idFile' = agent[p]
    /\ Goto(p, "assemble")
    /\ UNCHANGED <<nodeFile, cfgFile, imported, hubVars, clock, memVars, runVars, orphans>>

(* runServe builds pool, dispatcher, scheduler, heartbeat record, security *)
(* services, cluster registry and recorders; any may refuse its options,   *)
(* which is StepFails.                                                     *)
AssembleAgent ==
    /\ pc["serve"] = "assemble"
    /\ Goto("serve", "connect")
    /\ UNCHANGED <<diskVars, imported, hubVars, clock, memVars, runVars, orphans>>

(* registerBootstrapNode builds client and connector only.                 *)
AssembleInstaller ==
    /\ pc["setup"] = "assemble"
    /\ Goto("setup", "connect")
    /\ UNCHANGED <<diskVars, imported, hubVars, clock, memVars, runVars, orphans>>

-----------------------------------------------------------------------------
(* Connector.Bootstrap: the saved state is used; without one, credentials  *)
(* of the configuration are imported; without those the node registers.  A *)
(* state that does not load is an error.                                   *)
Load(p) ==
    /\ pc[p] = "connect"
    /\ IF ~ Loads(nodeFile)
       THEN Exit(p, {})
       ELSE /\ state' = [state EXCEPT ![p] = nodeFile]
            /\ pending' = [pending EXCEPT ![p] =
                   IF Empty(nodeFile) /\ imported THEN NewNodeState(ImportedNode, 0) ELSE @]
            /\ Goto(p, CASE ~ Empty(nodeFile) -> "pull"
                         [] Empty(nodeFile) /\ imported -> "new save"
                         [] Empty(nodeFile) /\ ~ imported -> "register")
            /\ UNCHANGED <<token, agent, runVars, orphans>>
    /\ UNCHANGED <<diskVars, imported, hubVars, clock>>

Registrable(p) == token[p] # 0 /\ token[p] \notin spent

(* The credentials are left to the save of PullConfig (mutant).            *)
RegisterUnsaved(p) ==
    /\ pc[p] = "register"
    /\ Registrable(p)
    /\ spent' = spent \cup {token[p]}
    /\ nodes' = nodes \cup {<<token[p], agent[p]>>}
    /\ \E v \in {0, version} : state' = [state EXCEPT ![p] = NewNodeState(token[p], v)]
    /\ Goto(p, "pull")
    /\ UNCHANGED <<diskVars, imported, issued, version, clock, token, agent,
                   pending, runVars, orphans>>

(* Client.Register: the Hub registers the node of a token it has not seen. *)
Register(p) ==
    /\ pc[p] = "register"
    /\ Registrable(p)
    /\ spent' = spent \cup {token[p]}
    /\ nodes' = nodes \cup {<<token[p], agent[p]>>}
    /\ \E v \in {0, version} :
          pending' = [pending EXCEPT ![p] = NewNodeState(token[p], v)]
    /\ Goto(p, "new save")
    /\ UNCHANGED <<diskVars, imported, issued, version, clock, token, agent,
                   state, runVars, orphans>>

(* No token, or one the Hub knows.                                         *)
RegisterRefused(p) ==
    /\ pc[p] = "register"
    /\ ~ Registrable(p)
    /\ Exit(p, {})
    /\ UNCHANGED <<diskVars, imported, hubVars, clock>>

(* The request is lost, or the answer: the Hub has then registered a node  *)
(* whose credentials nobody has.                                           *)
RegisterFails(p) ==
    /\ pc[p] = "register"
    /\ \/ Exit(p, {}) /\ UNCHANGED <<spent, nodes>>
       \/ /\ Registrable(p)
          /\ spent' = spent \cup {token[p]}
          /\ nodes' = nodes \cup {<<token[p], agent[p]>>}
          /\ Exit(p, {token[p]})
    /\ UNCHANGED <<diskVars, imported, issued, version, clock>>

-----------------------------------------------------------------------------
(* StateStore.Save is called at three places: for new credentials, by      *)
(* PullConfig during Bootstrap, and by PullConfig in the poll loop.        *)
SavePoints == {"new save", "pull save", "poll save"}
RenamePoints == {"new rename", "pull rename", "poll rename"}
RenameOf(point) ==
    CASE point = "new save" -> "new rename"
      [] point = "pull save" -> "pull rename"
      [] point = "poll save" -> "poll rename"

(* The file itself is opened for writing (mutant).                         *)
WriteInPlace(p) ==
    /\ pc[p] \in SavePoints
    /\ Valid(pending[p])
    /\ nodeFile' = Torn
    /\ Goto(p, RenameOf(pc[p]))
    /\ UNCHANGED <<idFile, cfgFile, imported, hubVars, clock, memVars, runVars, orphans>>

(* Save up to the rename: a valid state goes to a temporary file.          *)
WriteTemporary(p) ==
    /\ pc[p] \in SavePoints
    /\ Valid(pending[p])
    /\ Goto(p, RenameOf(pc[p]))
    /\ UNCHANGED <<diskVars, imported, hubVars, clock, memVars, runVars, orphans>>

(* The rename; new credentials become Connector.state, and so does a       *)
(* pulled configuration.                                                   *)
RenameTemporary(p) ==
    /\ pc[p] \in RenamePoints
    /\ nodeFile' = pending[p]
    /\ state' = [state EXCEPT ![p] = pending[p]]
    /\ pending' = [pending EXCEPT ![p] = NoState]
    /\ Goto(p, CASE pc[p] = "new rename" -> "pull"
                 [] pc[p] = "pull rename" -> "heartbeat"
                 [] pc[p] = "poll rename" -> "serving")
    /\ UNCHANGED <<idFile, cfgFile, imported, hubVars, clock, token, agent, runVars, orphans>>

(* Save returns an error: Bootstrap returns it too, the poll loop ignores  *)
(* it.                                                                     *)
SaveError(p) ==
    /\ IF pc[p] \in Serving
       THEN /\ Goto(p, "serving")
            /\ pending' = [pending EXCEPT ![p] = NoState]
            /\ UNCHANGED <<token, agent, state, runVars, orphans>>
       ELSE Exit(p, Unsaved(p))
    /\ UNCHANGED <<diskVars, imported, hubVars, clock>>

(* The state does not validate.                                            *)
SaveRefused(p) == pc[p] \in SavePoints /\ ~ Valid(pending[p]) /\ SaveError(p)

(* The disk refuses.                                                       *)
SaveFails(p) == pc[p] \in SavePoints \cup RenamePoints /\ SaveError(p)

(* An answer without a version clears the saved one (mutant).              *)
PulledAsAnswered(s, v) == [s EXCEPT !.version = v, !.updatedAt = clock]

(* The pulls are counted (mutant).                                         *)
PulledCounted(s, v) == [s EXCEPT !.version = @ + 1, !.updatedAt = clock]

(* PullConfig: the state the answer gives.                                 *)
Pulled(s, v) == [s EXCEPT !.version = IF v = 0 THEN @ ELSE v, !.updatedAt = clock]

(* Connector.state is set before the save (mutant).                        *)
PullConfigSetsFirst(p) ==
    /\ pc[p] \in {"pull", "serving"}
    /\ pc[p] = "serving" => ~ stopping
    /\ \E v \in {0, version} : pending' = [pending EXCEPT ![p] = Pulled(state[p], v)]
    /\ state' = [state EXCEPT ![p] = pending'[p]]
    /\ Goto(p, IF pc[p] = "pull" THEN "pull save" ELSE "poll save")
    /\ UNCHANGED <<diskVars, imported, hubVars, clock, token, agent, runVars, orphans>>

(* PullConfig up to the save, in Bootstrap or at a tick of the poll loop.  *)
PullConfig(p) ==
    /\ pc[p] \in {"pull", "serving"}
    /\ pc[p] = "serving" => ~ stopping
    /\ \E v \in {0, version} : pending' = [pending EXCEPT ![p] = Pulled(state[p], v)]
    /\ Goto(p, IF pc[p] = "pull" THEN "pull save" ELSE "poll save")
    /\ UNCHANGED <<diskVars, imported, hubVars, clock, token, agent, state, runVars, orphans>>

(* FlushHeartbeat, FlushMetrics and FlushEvents of Bootstrap; the ones of  *)
(* the loops change nothing here.                                          *)
Flush(p) ==
    /\ pc[p] \in {"heartbeat", "metrics", "events"}
    /\ Goto(p, CASE pc[p] = "heartbeat" -> "metrics"
                 [] pc[p] = "metrics" -> "events"
                 [] pc[p] = "events" -> IF p = "setup" THEN "write" ELSE "listen")
    /\ UNCHANGED <<diskVars, imported, hubVars, clock, memVars, runVars, orphans>>

(* An exchange of Bootstrap fails or exceeds its 30 or 45 seconds, or an   *)
(* earlier or later step of the process returns an error.                  *)
StepFails(p) ==
    /\ pc[p] \in {"configure", "write", "identity", "id rename", "assemble", "pull",
                  "heartbeat", "metrics", "events", "listen"}
    /\ Exit(p, {})
    /\ UNCHANGED <<diskVars, imported, hubVars, clock>>

-----------------------------------------------------------------------------
(* Connector.Start, Manager.Start and the listener of Serve.               *)
Listen ==
    /\ pc["serve"] = "listen"
    /\ Goto("serve", "serving")
    /\ UNCHANGED <<diskVars, imported, hubVars, clock, memVars, runVars, orphans>>

(* A client's request; a stream may stay open as long as it likes.         *)
RequestOpens ==
    /\ pc["serve"] \in Serving /\ ~ stopping
    /\ open < MaxRequests
    /\ open' = open + 1
    /\ UNCHANGED <<diskVars, imported, hubVars, clock, pc, memVars, opts, stopping, orphans>>

RequestCloses ==
    /\ open > 0
    /\ open' = open - 1
    /\ UNCHANGED <<diskVars, imported, hubVars, clock, pc, memVars, opts, stopping, orphans>>

(* SIGTERM or an interrupt while serving: the loops end, Shutdown closes   *)
(* the listener.  Before that the default action ends the process: Crash.  *)
Signal ==
    /\ pc["serve"] \in Serving
    /\ ~ stopping
    /\ stopping' = TRUE
    /\ UNCHANGED <<diskVars, imported, hubVars, clock, pc, memVars, opts, open, orphans>>

(* Shutdown without its timeout (mutant).                                  *)
ShutdownWaits ==
    /\ pc["serve"] \in Serving
    /\ stopping
    /\ open = 0
    /\ Exit("serve", {})
    /\ UNCHANGED <<diskVars, imported, hubVars, clock>>

(* Shutdown returns when no request is left, or with an error after its    *)
(* timeout; the process ends, whatever its loops are doing.                *)
ShutdownEnds ==
    /\ pc["serve"] \in Serving
    /\ stopping
    /\ Exit("serve", {})
    /\ UNCHANGED <<diskVars, imported, hubVars, clock>>

Crash(p) ==
    /\ Running(p)
    /\ Exit(p, Unsaved(p))
    /\ UNCHANGED <<diskVars, imported, hubVars, clock>>

(* The Hub gets a new configuration for the node.                          *)
Reconfigure ==
    /\ version < MaxVersion
    /\ version' = version + 1
    /\ UNCHANGED <<diskVars, imported, issued, spent, nodes, clock, pc, memVars, runVars, orphans>>

(* Time passes, or the clock is set.                                       *)
SetClock ==
    /\ clock' \in 1..MaxClock \ {clock}
    /\ UNCHANGED <<diskVars, imported, hubVars, pc, memVars, runVars, orphans>>

-----------------------------------------------------------------------------
Init ==
    /\ idFile = 0
    /\ nodeFile = NoState
    /\ cfgFile = NoConfig
    /\ imported \in BOOLEAN
    /\ issued = 1
    /\ spent = {}
    /\ nodes = {}
    /\ version = 1
    /\ clock = 1
    /\ pc = [p \in Processes |-> "idle"]
    /\ opts = NoOptions
    /\ token = [p \in Processes |-> 0]
    /\ agent = [p \in Processes |-> 0]
    /\ state = [p \in Processes |-> NoState]
    /\ pending = [p \in Processes |-> NoState]
    /\ stopping = FALSE
    /\ open = 0
    /\ orphans = {}

Connects(p) ==
    \/ Ensure(p) \/ SaveIdentity(p) \/ Load(p) \/ Register(p) \/ RegisterRefused(p)
    \/ WriteTemporary(p) \/ RenameTemporary(p) \/ SaveRefused(p) \/ PullConfig(p)
    \/ Flush(p)

Serves == ServeStart \/ AssembleAgent \/ Connects("serve") \/ Listen

SetsUp == RequestToken \/ RequestTokenFails \/ Configure \/ AssembleInstaller
          \/ Connects("setup") \/ WriteConfig

Breaks(p) == RegisterFails(p) \/ SaveFails(p) \/ StepFails(p) \/ Crash(p)

Operates == SetupStart \/ Signal \/ SetClock \/ \E p \in Processes : Breaks(p)

Next ==
    \/ Operates \/ SetsUp \/ Serves
    \/ RequestOpens \/ RequestCloses \/ ShutdownEnds
    \/ Reconfigure

Spec == Init /\ [][Next]_vars

(* A running process goes on, systemd restarts the service (Restart=always) *)
(* and a shutdown has a timeout.                                           *)
Fairness == WF_vars(SetsUp) /\ WF_vars(Serves) /\ WF_vars(ShutdownEnds)

FairSpec == Spec /\ Fairness

-----------------------------------------------------------------------------
Points == {"idle", "token", "configure", "write", "identity", "id rename", "assemble", "connect",
           "register", "pull", "heartbeat", "metrics", "events", "listen"}
          \cup SavePoints \cup RenamePoints \cup Serving
NodeStates == [uuid : NodeIds \cup {0}, version : 0..MaxVersion,
               registeredAt : 0..MaxClock, updatedAt : 0..MaxClock]

(* Type correctness of the state.                                          *)
NodeTypeOK ==
    /\ idFile \in AgentIds \cup {0}
    /\ nodeFile \in NodeStates
    /\ cfgFile \in [token : Tokens \cup {0}, uuid : NodeIds \cup {0}, written : BOOLEAN]
    /\ {imported, stopping} \subseteq BOOLEAN
    /\ issued \in Tokens
    /\ spent \subseteq Tokens
    /\ nodes \subseteq Tokens \X AgentIds
    /\ version \in 1..MaxVersion
    /\ clock \in 1..MaxClock
    /\ pc \in [Processes -> Points]
    /\ opts \in [token : Tokens \cup {0}, endpoint : BOOLEAN, skip : BOOLEAN, dry : BOOLEAN]
    /\ token \in [Processes -> Tokens \cup {0}]
    /\ agent \in [Processes -> AgentIds \cup {0}]
    /\ state \in [Processes -> NodeStates]
    /\ pending \in [Processes -> NodeStates]
    /\ open \in 0..MaxRequests
    /\ orphans \subseteq Tokens

(* doctor never reports a node state it cannot read: whatever crashes,     *)
(* failed saves and clock changes there were, the file is absent or holds  *)
(* a whole, valid state, and so the agent can start.                       *)
NodeFileReadable == Doctor # "FAIL"

(* A node the Hub has registered is the one of the file, one whose         *)
(* credentials a process is about to save, or one that was lost on the     *)
(* way.  (With installer and service at once one may overwrite the         *)
(* other's.)                                                               *)
NoNodeForgotten ==
    ~ Overlap =>
        \A n \in nodes : n[1] \in orphans \cup {nodeFile.uuid} \cup UNION {Unsaved(p) : p \in Processes}

(* The service serves under the identity and the credentials of the files, *)
(* and the Hub knows the node by that identity.                            *)
ServesAsRegistered ==
    pc["serve"] \in Serving /\ ~ Overlap =>
        /\ agent["serve"] = idFile
        /\ state["serve"] = nodeFile
        /\ nodeFile.uuid = ImportedNode \/ <<nodeFile.uuid, idFile>> \in nodes

(* Neither restarts, crashes nor a new run of the installer change the     *)
(* identity or the credentials of a node, or take back the configuration   *)
(* version it has reached.                                                 *)
CredentialsKept ==
    [][~ Overlap =>
        /\ idFile # 0 => idFile' = idFile
        /\ nodeFile.uuid # 0 => nodeFile'.uuid = nodeFile.uuid
        /\ nodeFile'.version >= nodeFile.version]_vars

(* bootstrap --dry-run: "print intended actions without writing files":    *)
(* no step of such a run changes a file or registers a node.               *)
DryRunOnlyPrints ==
    [][opts.dry /\ pc'["setup"] # pc["setup"] => UNCHANGED <<diskVars, nodes>>]_vars

(* So in every state the files can be read back, the Hub knows no node the *)
(* agent forgot, and the agent serves as the node the Hub registered.      *)
NodeSound == NodeTypeOK /\ NodeFileReadable /\ NoNodeForgotten /\ ServesAsRegistered

(* So what earlier commands left on disk survives the later ones.          *)
FilesKept == CredentialsKept /\ DryRunOnlyPrints

(* Nothing left to start with: never set up, or not registered and without *)
(* a token the Hub would take.                                             *)
Stranded ==
    \/ ~ cfgFile.written
    \/ /\ Empty(nodeFile) /\ ~ imported
       /\ cfgFile.token = 0 \/ cfgFile.token \in spent

FaultsEnd == <>[][~ Operates]_vars

ClockSane == nodeFile.registeredAt <= clock

(* When nobody interferes any more and the clock is not before the         *)
(* registration, the service comes up and stays up, unless it is stranded. *)
ServiceComesUp ==
    FaultsEnd /\ <>[]ClockSane => <>[](pc["serve"] \in Serving \/ Stranded)

(* A service that has its signal ends, whatever requests are open.         *)
SignalStops == stopping ~> ~ stopping
=============================================================================
