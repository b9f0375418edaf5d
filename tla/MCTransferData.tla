--------------------------- MODULE MCTransferData ---------------------------
(***************************************************************************)
(* Instance of Resolvers and TransferPayload for TLC.  One behaviour is    *)
(* about the URLs of concurrent jobs, another about the payload of one     *)
(* job: the two share no state.  The sources meet every resolver, with     *)
(* chains below, at and above the limit and one loop.                      *)
(***************************************************************************)
EXTENDS Resolvers, TransferPayload

VARIABLE running    \* the part this behaviour is about

MCSizeOf == <<3, 1, 2>>

Plain == [NoSource EXCEPT !.http = TRUE, !.ok = TRUE]
Playlist == [Plain EXCEPT !.look = {"m3u8", "master"}, !.body = <<"#EXTM3U", "#EXT-X-", "uri">>]

MCSources ==
    {[NoSource EXCEPT !.ok = TRUE],
     Plain,
     [Plain EXCEPT !.ok = FALSE, !.chain = 1],
     [Plain EXCEPT !.chain = MaxRedirects, !.head = FALSE],
     [Plain EXCEPT !.chain = MaxRedirects + 1],
     [Plain EXCEPT !.loop = TRUE],
     [Plain EXCEPT !.strategy = "cloudflare", !.chain = 1, !.head = FALSE],
     [Playlist EXCEPT !.chain = 1],
     [Playlist EXCEPT !.look = {"xtream", "m3u8"}],
     [Playlist EXCEPT !.look = {"m3u8"}, !.body = <<"", "uri", "#EXTM3U">>],
     [Playlist EXCEPT !.body = <<"#EXTM3U", "#EXTINF">>],
     [Plain EXCEPT !.strategy = "m3u8", !.chain = 1, !.body = <<"uri">>],
     [Plain EXCEPT !.strategy = "google_drive", !.look = {"drive"}],
     [Plain EXCEPT !.look = {"drive", "drive folder", "drive file"}, !.chain = MaxRedirects + 1],
     [Plain EXCEPT !.look = {"mega", "mega handle", "api_key"}],
     [Plain EXCEPT !.look = {"mega", "mega handle"}],
     [Plain EXCEPT !.look = {"onedrive", "resid"}, !.loop = TRUE],
     [Plain EXCEPT !.look = {"onedrive"}, !.chain = 1]}

(* In a behaviour about URLs the payload rests, with a job that expects a  *)
(* version its source does not serve.                                      *)
Init ==
    /\ ResolverInit /\ PayloadInit
    /\ \/ running = "payload" /\ follow
       \/ running = "resolve" /\ job = [driver |-> "local", resume |-> FALSE, expected |-> 3]

Next ==
    /\ UNCHANGED running
    /\ \/ running = "resolve" /\ ResolverNext /\ UNCHANGED payloadVars
       \/ running = "payload" /\ PayloadNext /\ UNCHANGED resolverVars

Spec == Init /\ [][Next]_<<running, resolverVars, payloadVars>>

FairSpec ==
    /\ Spec
    /\ ResolverFairness
    /\ \A a \in Attempts : WF_payloadVars(running = "payload" /\ Works(a))
=============================================================================
