----------------------------- MODULE Resolvers -----------------------------
(***************************************************************************)
(* The URL resolvers (internal/resolver) and the redirect policy of the    *)
(* HTTP client (internal/download/redirect.go, client.go), as the          *)
(* concurrent jobs of the executor use them: resolve the source URL, fall  *)
(* back to it when that fails, then download.                              *)
(*                                                                         *)
(* All jobs share one client, and with it one RedirectEngine, whose list   *)
(* of events the redirect resolver resets, fills and reads without owning  *)
(* it.  A URL is what the resolvers look at, with the redirects its origin *)
(* answers; a position in that chain of redirects stands for the URL there. *)
(***************************************************************************)
EXTENDS Naturals, Sequences, FiniteSets

CONSTANTS
    Jobs,
    Sources,        \* the sources jobs may have, see SourceOK
    MaxRedirects,   \* resolver.max_redirects
    ReadLimit,      \* DefaultManifestReadLimit, in lines
    MaxEvents       \* bound on the events of the RedirectEngine

(* What a URL shows: the shapes the resolvers recognise.                   *)
Features == {"xtream", "api_key", "drive", "drive file", "drive folder", "mega",
             "mega handle", "onedrive", "resid", "m3u8", "master"}

Lines == {"", "#EXTM3U", "#EXT-X-STREAM-INF", "#EXT-X-KEY", "#EXT-X-", "#EXTINF", "uri"}

(* scheme and host are HTTP; strategy is the job's resolver_strategy; the  *)
(* origin redirects chain times, or for ever when loop; it refuses HEAD    *)
(* or not; ok: the last answer is a 2xx, with the given body.              *)
SourceOK(s) ==
    /\ s.look \subseteq Features
    /\ s.chain \in Nat
    /\ {s.http, s.loop, s.head, s.ok} \subseteq BOOLEAN
    /\ s.body \in Seq(Lines)

ASSUME ResolverAssumption ==
    /\ MaxRedirects \in Nat /\ MaxEvents \in Nat /\ ReadLimit \in Nat
    /\ \A s \in Sources : SourceOK(s)

VARIABLES
    follow,     \* resolver.follow_redirects
    doing,         \* where each job is
    origin,     \* its source
    resolver,   \* the resolver that took it
    method,     \* method of its exchange
    url,        \* the URL it downloads: a position in the chain, or Derived
    at,         \* position of its exchange in the chain
    via,        \* redirects its exchange has followed, len(via)
    reported,     \* redirect_count the redirect resolver reported
    events,     \* RedirectEngine.events: the jobs the redirects were of
    disturbed,  \* others used the engine during the resolve of the job
    broken      \* the network failed its download

resolverVars == <<follow, doing, origin, resolver, method, url, at, via, reported, events, disturbed, broken>>

NotReported == MaxEvents + 1
Derived == MaxEvents + 1

-----------------------------------------------------------------------------
(* resolverRequested: the strategy names a resolver.                       *)
Requested(s, name) == s.strategy = name

XtreamCanResolve(s) == s.http /\ "xtream" \in s.look
ShuiCanResolve(s) == s.http /\ "api_key" \in s.look
CloudflareCanResolve(s) == s.http /\ Requested(s, "cloudflare")
HLSCanResolve(s) == s.http /\ (Requested(s, "hls") \/ {"m3u8", "master"} \subseteq s.look)
M3U8CanResolve(s) == s.http /\ (Requested(s, "m3u8") \/ "m3u8" \in s.look)
OneDriveCanResolve(s) == s.http /\ "onedrive" \in s.look
HTTPCanResolve(s) == s.http

(* parseGoogleDriveURL: an id makes a link a file or a folder.             *)
DriveKind(s) ==
    CASE "drive file" \in s.look -> "file"
      [] "drive file" \notin s.look /\ "drive folder" \in s.look -> "folder"
      [] {"drive file", "drive folder"} \cap s.look = {} -> "none"
DriveCanResolve(s) ==
    s.http /\ "drive" \in s.look /\ (DriveKind(s) # "none" \/ Requested(s, "google_drive"))

(* parseMEGAURL finds a handle or not.                                     *)
MEGACanResolve(s) ==
    s.http /\ "mega" \in s.look /\ ("mega handle" \in s.look \/ Requested(s, "mega"))

(* The registry runServe builds.                                           *)
Order == <<"xtream", "shui", "cloudflare", "hls", "m3u8", "google_drive", "mega",
           "onedrive", "redirect", "http">>

CanResolve(name, s) ==
    CASE name = "xtream" -> XtreamCanResolve(s)
      [] name = "shui" -> ShuiCanResolve(s)
      [] name = "cloudflare" -> CloudflareCanResolve(s)
      [] name = "hls" -> HLSCanResolve(s)
      [] name = "m3u8" -> M3U8CanResolve(s)
      [] name = "google_drive" -> DriveCanResolve(s)
      [] name = "mega" -> MEGACanResolve(s)
      [] name = "onedrive" -> OneDriveCanResolve(s)
      [] name \in {"redirect", "http"} -> HTTPCanResolve(s)

(* Registry.Resolve: the first that can.                                   *)
Chosen(s) ==
    LET can == {i \in DOMAIN Order : CanResolve(Order[i], s)}
    IN IF can = {} THEN "none"
       ELSE Order[CHOOSE i \in can : \A k \in can : i <= k]

Local == {"none", "xtream", "shui", "google_drive", "mega", "onedrive"}

(* The resolvers that do not ask the origin: the URL they give, which is   *)
(* the source's own when they fail or have nothing better.                 *)
DriveURL(s) == IF DriveKind(s) = "file" THEN Derived ELSE 0
OneDriveURL(s) == IF "resid" \in s.look THEN Derived ELSE 0
LocalURL(name, s) ==
    CASE name = "google_drive" -> DriveURL(s)
      [] name = "onedrive" -> OneDriveURL(s)
      [] name \in {"none", "xtream", "shui", "mega"} -> 0

(* ParseM3U8Manifest: whether it parses, and the IsHLS it finds.  The      *)
(* check of the first line is skipped when that is blank.                  *)
Parses(body) ==
    /\ body # <<>> => body[1] \in {"", "#EXTM3U"}
    /\ \E i \in DOMAIN body : body[i] = "#EXTM3U"
IsHLS(body) ==
    \E i \in DOMAIN body : body[i] \in {"#EXT-X-", "#EXT-X-STREAM-INF", "#EXT-X-KEY"}

(* fetchManifest after the exchange, and what the HLS resolver adds.       *)
ManifestFetched(s, name) ==
    /\ s.ok
    /\ Len(s.body) <= ReadLimit
    /\ Parses(s.body)
    /\ name = "hls" => IsHLS(s.body)

-----------------------------------------------------------------------------
(* The origin of a job's exchange answers with one more redirect.          *)
Redirects(j) == at[j] # Derived /\ (origin[j].loop \/ at[j] < origin[j].chain)
Next1(j) == IF origin[j].loop THEN at[j] ELSE at[j] + 1

(* The download of the job's URL starts, on the same client.               *)
Download(j, u) ==
    /\ url' = [url EXCEPT ![j] = u]
    /\ at' = [at EXCEPT ![j] = u]
    /\ via' = [via EXCEPT ![j] = 0]
    /\ method' = [method EXCEPT ![j] = "GET"]
    /\ doing' = [doing EXCEPT ![j] = "download"]

(* Others see their engine used.                                           *)
Disturb(j) ==
    disturbed' = [k \in Jobs |-> disturbed[k] \/ (k # j /\ doing[k] \in {"resolve", "answered"})]

(* The executor starts on a claimed job.                                   *)
Claim(j, s) ==
    /\ doing[j] = "idle"
    /\ origin' = [origin EXCEPT ![j] = s]
    /\ doing' = [doing EXCEPT ![j] = "claimed"]
    /\ UNCHANGED <<follow, resolver, method, url, at, via, reported, events, disturbed, broken>>

(* Executor.download asks the registry, always for HEAD; the resolvers of  *)
(* manifests use GET, the redirect resolver resets the engine.             *)
Resolve(j) ==
    LET name == Chosen(origin[j])
    IN /\ doing[j] = "claimed"
       /\ resolver' = [resolver EXCEPT ![j] = name]
       /\ IF name \in Local
          THEN Download(j, LocalURL(name, origin[j])) /\ UNCHANGED <<events, disturbed>>
          ELSE /\ doing' = [doing EXCEPT ![j] = "resolve"]
               /\ method' = [method EXCEPT ![j] = IF name \in {"hls", "m3u8"} THEN "GET" ELSE "HEAD"]
               /\ IF name = "redirect" THEN events' = <<>> /\ Disturb(j)
                                       ELSE UNCHANGED <<events, disturbed>>
               /\ UNCHANGED <<url, at, via>>
       /\ UNCHANGED <<follow, origin, reported, broken>>

(* The limit is off by one (mutant).                                       *)
StopsEarly(n) == n >= MaxRedirects

(* CheckRedirect is never told to stop (mutant).                           *)
NeverStops(n) == FALSE

(* CheckRedirect: the n-th redirect is one too many.                       *)
Stops(n) == n > MaxRedirects

(* CheckRedirect on one more redirect.                                     *)
CheckRedirect(j) ==
    /\ doing[j] \in {"resolve", "download"}
    /\ Redirects(j)
    /\ Len(events) < MaxEvents
    /\ events' = Append(events, j)
    /\ Disturb(j)
    /\ IF ~ follow
       THEN /\ doing' = [doing EXCEPT ![j] = IF @ = "resolve" THEN "answered" ELSE "failed"]
            /\ UNCHANGED <<method, url, at, via>>
       ELSE IF Stops(via[j] + 1)
       THEN IF doing[j] = "resolve"
            THEN Download(j, 0)
            ELSE /\ doing' = [doing EXCEPT ![j] = "failed"]
                 /\ UNCHANGED <<method, url, at, via>>
       ELSE /\ at' = [at EXCEPT ![j] = Next1(j)]
            /\ via' = [via EXCEPT ![j] = @ + 1]
            /\ UNCHANGED <<doing, method, url>>
    /\ UNCHANGED <<follow, origin, resolver, reported, broken>>


(* The retry after a refused HEAD is a HEAD again (mutant).                *)
AnswerHeadAgain(j) ==
    /\ doing[j] = "resolve" /\ ~ Redirects(j)
    /\ IF method[j] = "HEAD" /\ ~ origin[j].head
       THEN /\ at' = [at EXCEPT ![j] = 0]
            /\ via' = [via EXCEPT ![j] = 0]
            /\ events' = <<>> /\ Disturb(j)
            /\ UNCHANGED doing
       ELSE doing' = [doing EXCEPT ![j] = "answered"] /\ UNCHANGED <<at, via, events, disturbed>>
    /\ UNCHANGED <<follow, origin, resolver, url, reported, broken, method>>

(* The answer of a resolver's exchange; a 405 to HEAD is tried with GET    *)
(* from the source's own URL.                                              *)
Answer(j) ==
    /\ doing[j] = "resolve" /\ ~ Redirects(j)
    /\ IF method[j] = "HEAD" /\ ~ origin[j].head
       THEN /\ method' = [method EXCEPT ![j] = "GET"]
            /\ at' = [at EXCEPT ![j] = 0]
            /\ via' = [via EXCEPT ![j] = 0]
            /\ IF resolver[j] = "redirect" THEN events' = <<>> /\ Disturb(j)
                                           ELSE UNCHANGED <<events, disturbed>>
            /\ UNCHANGED doing
       ELSE /\ doing' = [doing EXCEPT ![j] = "answered"]
            /\ UNCHANGED <<method, at, via, events, disturbed>>
    /\ UNCHANGED <<follow, origin, resolver, url, reported, broken>>

(* The rest of Resolve: the URL is that of the response's request; the     *)
(* redirect resolver takes the engine's events for its own.                *)
Finish(j) ==
    /\ doing[j] = "answered"
    /\ reported' = [reported EXCEPT ![j] = IF resolver[j] = "redirect" THEN Len(events) ELSE @]
    /\ LET fails == /\ resolver[j] \in {"hls", "m3u8"}
                    /\ Redirects(j) \/ ~ ManifestFetched(origin[j], resolver[j])
       IN Download(j, IF fails THEN 0 ELSE at[j])
    /\ UNCHANGED <<follow, origin, resolver, events, disturbed, broken>>

(* The exchange of a resolver fails: the source's own URL is downloaded.   *)
ResolveFails(j) ==
    /\ doing[j] = "resolve"
    /\ Download(j, 0)
    /\ UNCHANGED <<follow, origin, resolver, reported, events, disturbed, broken>>

(* The download gets its last answer, or the network fails.                *)
Fetch(j) ==
    /\ doing[j] = "download" /\ ~ Redirects(j)
    /\ doing' = [doing EXCEPT ![j] = IF origin[j].http /\ origin[j].ok THEN "fetched" ELSE "failed"]
    /\ UNCHANGED <<follow, origin, resolver, method, url, at, via, reported, events, disturbed, broken>>

FetchFails(j) ==
    /\ doing[j] = "download"
    /\ doing' = [doing EXCEPT ![j] = "failed"]
    /\ broken' = [broken EXCEPT ![j] = TRUE]
    /\ UNCHANGED <<follow, origin, resolver, method, url, at, via, reported, events, disturbed>>

-----------------------------------------------------------------------------
Ended == {"idle", "fetched", "failed"}

NoSource == [look |-> {}, http |-> FALSE, strategy |-> "", chain |-> 0, loop |-> FALSE,
             head |-> TRUE, ok |-> FALSE, body |-> <<>>]

ResolverInit ==
    /\ follow \in BOOLEAN
    /\ doing = [j \in Jobs |-> "idle"]
    /\ origin = [j \in Jobs |-> NoSource]
    /\ resolver = [j \in Jobs |-> "none"]
    /\ method = [j \in Jobs |-> "HEAD"]
    /\ url = [j \in Jobs |-> 0]
    /\ at = [j \in Jobs |-> 0]
    /\ via = [j \in Jobs |-> 0]
    /\ reported = [j \in Jobs |-> NotReported]
    /\ events = <<>>
    /\ disturbed = [j \in Jobs |-> FALSE]
    /\ broken = [j \in Jobs |-> FALSE]

Goes(j) == Resolve(j) \/ CheckRedirect(j) \/ Answer(j) \/ Finish(j) \/ Fetch(j)

ResolverNext ==
    \E j \in Jobs : \/ \E s \in Sources : Claim(j, s)
                    \/ Goes(j)
                    \/ ResolveFails(j) \/ FetchFails(j)

ResolverSpec == ResolverInit /\ [][ResolverNext]_resolverVars

(* A job's goroutine runs, and its exchanges have timeouts.                *)
ResolverFairness == \A j \in Jobs : WF_resolverVars(Goes(j))
FairResolverSpec == ResolverSpec /\ ResolverFairness

-----------------------------------------------------------------------------
Positions == 0..MaxEvents

(* Type correctness of the state; no exchange follows more redirects than  *)
(* the limit.                                                              *)
ResolverTypeOK ==
    /\ follow \in BOOLEAN
    /\ doing \in [Jobs -> Ended \cup {"claimed", "resolve", "answered", "download"}]
    /\ \A j \in Jobs : origin[j] \in Sources \cup {NoSource}
    /\ \A j \in Jobs : resolver[j] \in {"none"} \cup {Order[i] : i \in DOMAIN Order}
    /\ method \in [Jobs -> {"HEAD", "GET"}]
    /\ \A j \in Jobs : url[j] \in Positions \cup {Derived}
    /\ \A j \in Jobs : at[j] \in Positions \cup {Derived}
    /\ via \in [Jobs -> 0..MaxRedirects]
    /\ reported \in [Jobs -> 0..NotReported]
    /\ events \in Seq(Jobs) /\ Len(events) <= MaxEvents
    /\ disturbed \in [Jobs -> BOOLEAN]
    /\ broken \in [Jobs -> BOOLEAN]

(* The origin can be reached within the redirect policy.                   *)
Reachable(s) == ~ s.loop /\ (IF follow THEN s.chain <= MaxRedirects ELSE s.chain = 0)

(* Whether a job gets its payload depends on its own source alone:         *)
(* whatever the resolvers make of the URL, whether they fail and whatever  *)
(* other jobs do with the shared client, a reachable source is downloaded  *)
(* from the end of its own chain, and one that redirects too often is not. *)
OutcomeIsTheSources ==
    \A j \in Jobs :
        LET s == origin[j]
            good == s.http /\ s.ok /\ (Reachable(s) \/ url[j] = Derived)
        IN /\ doing[j] = "fetched" => good /\ at[j] \in {s.chain, Derived}
           /\ doing[j] = "failed" => broken[j] \/ ~ good

(* The redirect_count the redirect resolver reports is the number of       *)
(* redirects that led to the URL it resolved, a refused HEAD not counted,  *)
(* unless other jobs used the engine meanwhile.                            *)
ChainReported ==
    \A j \in Jobs :
        reported[j] # NotReported /\ ~ disturbed[j] /\ follow => reported[j] = url[j]


(* Redirect loops end: a claimed job is fetched or fails.                  *)
ClaimedEnds == \A j \in Jobs : doing[j] = "claimed" ~> doing[j] \in {"fetched", "failed"}
=============================================================================
