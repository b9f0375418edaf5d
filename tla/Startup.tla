------------------------------- MODULE Startup -------------------------------
(***************************************************************************)
(* The start of `serve` (internal/bootstrap, runServe): config.Validate    *)
(* and then, in order, every constructor that can refuse a value, with the *)
(* three things a start leaves behind on its way (the identity file, the   *)
(* queue snapshot, the registration at the Media Hub).                     *)
(*                                                                         *)
(* A configuration is a function from fields to the few values that the    *)
(* validator and the constructors tell apart; fields they treat alike are  *)
(* one field here.  The operator edits it between starts.                  *)
(***************************************************************************)
EXTENDS Integers, FiniteSets, TLC

CONSTANTS
  WordBits,    \* width of int64, scaled down
  Units,       \* multipliers of the size suffixes (1 for bytes)
  MaxNumber,   \* bound: number written before a size suffix
  DefaultPart, \* defaultAurenPartSize
  MaxEdits     \* bound: edits of the configuration

Word == 2 ^ (WordBits - 1)

ASSUME StartupAssumption ==
  /\ WordBits \in Nat \ {0, 1}
  /\ Units \subseteq Nat \ {0} /\ 1 \in Units
  /\ MaxNumber \in 1..(Word - 1)
  /\ DefaultPart \in 1..(Word - 1)
  /\ MaxEdits \in Nat

(***************************************************************************)
(* Durations: "padded" has blanks around it, "zero" is not positive.       *)
(*   early: queue.poll_interval, heartbeat.interval, security.jwt_ttl      *)
(*   late: server read, write and idle timeout, worker.shutdown_timeout    *)
(*   client: the download client's timeouts and backoffs                   *)
(* Paths: "taken" is the pattern of another GET route.                     *)
(* Endpoints: "text" is no absolute URL, "other" one that is not http.     *)
(***************************************************************************)
Settings ==
  [ storageDriver  |-> {"local", "auren_storage", "s3", "unknown"},
    localPath      |-> {"set", ""},
    endpoint       |-> {"", "url", "text", "other"},
    bucket         |-> {"", "set"},
    accessKeys     |-> {"", "set"},
    hub            |-> {"off", "on"},
    baseURL        |-> {"url", "", "text"},
    transfer       |-> {"off", "on"},
    workDir        |-> {"set", ""},
    apiKeyRequired |-> {"off", "on"},
    apiKey         |-> {"", "set"},
    apiKeyHash     |-> {"", "set"},
    jwt            |-> {"off", "on"},
    jwtSecret      |-> {"", "set"},
    early          |-> {"plain", "padded", "zero"},
    late           |-> {"plain", "padded", "zero"},
    client         |-> {"plain", "padded", "zero"},
    secrets        |-> {"env", "file", "FILE"},
    secretsFile    |-> {"", "readable", "missing"},
    metricsPath    |-> {"own", "taken", "relative"},
    devUI          |-> {"off", "on"},
    devPath        |-> {"own", "taken", "relative"},
    queueDriver    |-> {"memory", "redis_streams", "unknown"},
    queueEndpoint  |-> {"", "set"},
    capacity       |-> {"positive", "zero"},
    concurrency    |-> {"positive", "zero"},
    server         |-> {"off", "on"} ]
Fields == DOMAIN Settings
Sizes == [number : 0..MaxNumber, unit : Units]

\* The built-in defaults, with the HTTP server on.
DefaultConfig ==
  [ storageDriver |-> "local", localPath |-> "set", endpoint |-> "", bucket |-> "",
    accessKeys |-> "", hub |-> "off", baseURL |-> "", transfer |-> "off",
    workDir |-> "set", apiKeyRequired |-> "off", apiKey |-> "", apiKeyHash |-> "",
    jwt |-> "off", jwtSecret |-> "", early |-> "plain", late |-> "plain",
    client |-> "plain", secrets |-> "env", secretsFile |-> "", metricsPath |-> "own",
    devUI |-> "on", devPath |-> "own", queueDriver |-> "memory", queueEndpoint |-> "",
    capacity |-> "positive", concurrency |-> "positive", server |-> "on" ]

\* A production node: Media Hub and Auren Storage.
ProductionConfig ==
  [DefaultConfig EXCEPT !.storageDriver = "auren_storage", !.endpoint = "url",
                        !.bucket = "set", !.hub = "on", !.baseURL = "url", !.transfer = "on"]

VARIABLES
  cfg,       \* the merged configuration
  partSize,  \* upload.part_size as written: [number, unit]
  edits,     \* edits so far
  stage,     \* what runServe does next, or how the start ended
  left,      \* what starts have left behind
  hubTold,   \* this start has registered at or reported to the Media Hub
  adapter    \* part size of the Auren adapter this start built, 0 before

startupVars == <<cfg, partSize, edits, stage, left, hubTold, adapter>>

Ended == {"down", "refused", "failed", "fault", "finished", "serving"}

(***************************************************************************)
(* Sizes: a positive number times a unit, in an int64 that wraps.          *)
(***************************************************************************)
Wrap(n) == ((n + Word) % (2 * Word)) - Word
SizeOK(s) == s.number > 0
ParsePartSize(s) == Wrap(s.number * s.unit)

(***************************************************************************)
(* config.Validate, by the fields above.                                   *)
(***************************************************************************)
requiredString(v) == v # ""
positiveInt(v) == v = "positive"
DurationOK(d) == d # "zero"    \* trims before it parses
PathOK(p) == p # "relative"    \* starts with a slash

\* Mutant: the check of the JWT secret is forgotten.
ValidateSecurityLax == cfg.secrets \in {"file", "FILE"} => requiredString(cfg.secretsFile)

ValidateSecurity ==
  /\ cfg.jwt = "on" => cfg.jwtSecret = "set"
  /\ cfg.secrets \in {"file", "FILE"} => requiredString(cfg.secretsFile)

ValidateStorage ==
  /\ cfg.storageDriver \in {"local", "auren_storage", "s3"}
  /\ CASE cfg.storageDriver = "auren_storage" -> requiredString(cfg.endpoint) /\ requiredString(cfg.bucket)
       [] cfg.storageDriver = "s3"            -> requiredString(cfg.bucket) /\ requiredString(cfg.accessKeys)
       [] OTHER                               -> requiredString(cfg.localPath)

ValidateHub ==
  cfg.hub = "on" =>
    /\ requiredString(cfg.baseURL)
    /\ cfg.transfer = "on" => requiredString(cfg.workDir)

Validate ==
  /\ \A d \in {cfg.early, cfg.late, cfg.client} : DurationOK(d)
  /\ SizeOK(partSize)
  /\ positiveInt(cfg.concurrency) /\ positiveInt(cfg.capacity)
  /\ cfg.queueDriver \in {"memory", "redis_streams"}
  /\ cfg.queueDriver = "redis_streams" => requiredString(cfg.queueEndpoint)
  /\ PathOK(cfg.metricsPath)
  /\ cfg.devUI = "on" => PathOK(cfg.devPath)
  /\ ValidateStorage /\ ValidateSecurity /\ ValidateHub

(***************************************************************************)
(* The constructors' own conditions.                                       *)
(***************************************************************************)
ParseDuration(d) == d = "plain"          \* time.ParseDuration, untrimmed
NewHTTPClient == DurationOK(cfg.client)  \* parsePositiveDuration trims
NewLocalAdapter == cfg.localPath # ""

AurenConfigured == cfg.endpoint # "" /\ cfg.bucket # ""
NewAurenStorageAdapter == cfg.endpoint = "url"
S3Configured == cfg.bucket # "" /\ cfg.accessKeys # ""
NewS3Adapter == cfg.endpoint \in {"", "url", "other"}

NewClient == cfg.baseURL = "url"
NewStateStore == cfg.workDir # ""
\* The three adapters over a broker, which keep the jobs in memory too.
NewRedisStreamsQueue == cfg.queueEndpoint # "" /\ cfg.capacity = "positive"
NewQueue ==
  \/ cfg.queueDriver = "memory" /\ cfg.capacity = "positive"
  \/ cfg.queueDriver = "redis_streams" /\ NewRedisStreamsQueue
NewPool == cfg.concurrency = "positive"
NewAuthenticator == cfg.apiKeyRequired = "on" => cfg.apiKey # ""
NewAPIKeyVerifier == cfg.apiKeyRequired = "on" => cfg.apiKey # "" \/ cfg.apiKeyHash # ""
NewJWTService == cfg.jwt = "on" => cfg.jwtSecret # ""
LoadSecretsFile == cfg.secrets = "file" => cfg.secretsFile # "missing"
NewRouteRegistry ==
  /\ cfg.metricsPath # "taken"
  /\ cfg.devUI = "on" => cfg.devPath # "taken"

(***************************************************************************)
(* Actions.                                                                *)
(***************************************************************************)
Edit ==
  /\ stage \in Ended \ {"serving"}
  /\ edits < MaxEdits
  /\ edits' = edits + 1
  /\ stage' = "down"
  /\ \/ /\ \E f \in Fields : \E v \in Settings[f] \ {cfg[f]} : cfg' = [cfg EXCEPT ![f] = v]
        /\ UNCHANGED partSize
     \/ /\ partSize' \in Sizes \ {partSize}
        /\ UNCHANGED cfg
  /\ hubTold' = FALSE /\ adapter' = 0
  /\ UNCHANGED left

\* One step of runServe: on to next when the constructors accept.
Step(from, accepted, next) ==
  /\ stage = from
  /\ stage' = IF accepted THEN next ELSE "failed"
  /\ UNCHANGED <<cfg, partSize, edits>>

\* config.Load; systemd starts a service that did not come up again.
LoadConfig ==
  /\ stage \in Ended \ {"serving", "finished"}
  /\ stage' = IF Validate THEN "clients" ELSE "refused"
  /\ hubTold' = FALSE /\ adapter' = 0
  /\ UNCHANGED <<cfg, partSize, edits, left>>


AurenPartSize == IF ParsePartSize(partSize) <= 0 THEN DefaultPart ELSE ParsePartSize(partSize)

\* Mutant: the node is registered as soon as there is a client for it.
BuildClientsRegistering ==
  /\ Step("clients",
          /\ NewHTTPClient /\ NewLocalAdapter
          /\ AurenConfigured => NewAurenStorageAdapter
          /\ S3Configured => NewS3Adapter
          /\ cfg.hub = "on" => NewClient
          /\ NewStateStore,
          "queue")
  /\ left' = left \cup {"identity"}
  /\ adapter' = IF AurenConfigured /\ NewAurenStorageAdapter THEN AurenPartSize ELSE 0
  /\ hubTold' = (cfg.hub = "on")

\* Logger, identity, download client, storage adapters, Media Hub client,
\* transfer state store, executor, gateway runtime.
BuildClients ==
  /\ Step("clients",
          /\ NewHTTPClient /\ NewLocalAdapter
          /\ AurenConfigured => NewAurenStorageAdapter
          /\ S3Configured => NewS3Adapter
          /\ cfg.hub = "on" => NewClient
          /\ NewStateStore,
          "queue")
  /\ left' = left \cup {"identity"}
  /\ adapter' = IF AurenConfigured /\ NewAurenStorageAdapter THEN AurenPartSize ELSE 0
  /\ UNCHANGED hubTold

\* The queue and its snapshot on disk, read and written back.
OpenQueue ==
  /\ Step("queue", NewQueue, "workers")
  /\ left' = IF NewQueue THEN left \cup {"queue"} ELSE left
  /\ UNCHANGED <<hubTold, adapter>>

\* Worker pool, dispatcher, scheduler, heartbeat record.
BuildWorkers ==
  /\ Step("workers", NewPool /\ ParseDuration(cfg.early), "security")
  /\ UNCHANGED <<left, hubTold, adapter>>

\* Authenticator, key verifier, JWT service, rate limiter, secrets, cluster.
BuildSecurity ==
  /\ Step("security",
          NewAuthenticator /\ NewAPIKeyVerifier /\ ParseDuration(cfg.early)
            /\ NewJWTService /\ LoadSecretsFile,
          "hub")
  /\ UNCHANGED <<left, hubTold, adapter>>

\* The connector's Bootstrap registers the node, or reports with the stored
\* credentials; nothing happens without a Media Hub.
BootstrapHub ==
  /\ Step("hub", TRUE, "routes")
  /\ left' = IF cfg.hub = "on" THEN left \cup {"registration"} ELSE left
  /\ hubTold' = (cfg.hub = "on")
  /\ UNCHANGED adapter

BuildRoutes ==
  /\ Step("routes", NewRouteRegistry, "listen")
  /\ UNCHANGED <<left, hubTold, adapter>>

\* Without a server the command prints its summary and returns.
Listen ==
  /\ Step("listen", cfg.server = "on" => ParseDuration(cfg.late),
          IF cfg.server = "on" THEN "serving" ELSE "finished")
  /\ UNCHANGED <<left, hubTold, adapter>>

\* A step fails for a reason outside the configuration: disk, Media Hub, port.
Fault ==
  /\ stage \notin Ended
  /\ stage' = "fault"
  /\ UNCHANGED <<cfg, partSize, edits, left, hubTold, adapter>>

StartupInit ==
  /\ cfg \in {DefaultConfig, ProductionConfig}
  /\ partSize = [number |-> 1, unit |-> 1]
  /\ edits = 0
  /\ stage = "down"
  /\ left = {}
  /\ hubTold = FALSE
  /\ adapter = 0

StartupNext ==
  \/ Edit \/ LoadConfig \/ BuildClients \/ OpenQueue \/ BuildWorkers
  \/ BuildSecurity \/ BootstrapHub \/ BuildRoutes \/ Listen \/ Fault

StartupSpec == StartupInit /\ [][StartupNext]_startupVars

-----------------------------------------------------------------------------
(***************************************************************************)
(* The values config.Validate accepts and a constructor refuses.  Those    *)
(* of the second group are met only after the Media Hub was told.          *)
(***************************************************************************)
EarlyGap ==
  \/ cfg.localPath = ""                                    \* needed whatever the driver
  \/ cfg.bucket # "" /\ cfg.endpoint \in {"text", "other"}  \* required, not parsed
  \/ cfg.hub = "on" /\ cfg.baseURL = "text"
  \/ cfg.workDir = ""                                      \* needed without transfers too
  \/ cfg.early = "padded"
  \/ cfg.apiKeyRequired = "on" /\ cfg.apiKey = ""          \* a hash does not do
  \/ cfg.secrets = "file" /\ cfg.secretsFile = "missing"
LateGap ==
  \/ cfg.metricsPath = "taken" \/ (cfg.devUI = "on" /\ cfg.devPath = "taken")
  \/ cfg.server = "on" /\ cfg.late = "padded"

(***************************************************************************)
(* Validate's checks and the constructors' are written twice, in different *)
(* packages.  A start whose configuration is accepted is refused later     *)
(* only for one of the gaps listed above, each gap does stop it, and       *)
(* no start that Validate should refuse gets anywhere.                     *)
(***************************************************************************)
AcceptedStarts ==
  /\ stage = "failed" => Validate /\ (EarlyGap \/ LateGap)
  /\ stage \in {"serving", "finished"} => Validate /\ ~EarlyGap /\ ~LateGap

(***************************************************************************)
(* The Media Hub hears of a start only when every component the jobs need  *)
(* exists: a start that fails after telling it fails in the routes or the  *)
(* listener, not over storage, keys, secrets or workers.                   *)
(***************************************************************************)
HubToldLast ==
  (hubTold /\ stage = "failed") => LateGap

(***************************************************************************)
(* part_size is multiplied in an int64: a product that fits is the size    *)
(* the Auren adapter uses, and one that wraps still gives it a positive    *)
(* one, so that an upload in parts advances.                               *)
(***************************************************************************)
PartSizeUsable ==
  adapter # 0 =>
    /\ adapter > 0
    /\ partSize.number * partSize.unit < Word => adapter = partSize.number * partSize.unit

=============================================================================
