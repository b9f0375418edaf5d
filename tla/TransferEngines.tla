-------------------------- MODULE TransferEngines --------------------------
(***************************************************************************)
(* The download and upload engines (internal/download, internal/upload):   *)
(* StreamToFile, resume, MultipartToFile, RunWithRetry, the bandwidth      *)
(* controller and the metrics recorder; LocalUploader with Upload,         *)
(* ResumeUpload and MultipartUpload; ValidateIntegrity.                    *)
(*                                                                         *)
(* One caller downloads a source into a file with one of the engines,      *)
(* under a retry policy, and uploads the file to a destination.  The       *)
(* source may change, the origin may refuse, ignore a range or break off,  *)
(* the caller's context may be cancelled and the process may die between   *)
(* any two bytes; what it wrote stays on disk.  A byte is a pair: the      *)
(* version of the source and the position it has there.                    *)
(***************************************************************************)
EXTENDS Integers, Sequences, FiniteSets, Functions

CONSTANTS
    Lengths,        \* the length of each version of the source
    PartSize,       \* part size of the multipart engines
    MaxRetries,     \* download.max_retries
    BytesPerSecond, \* limit of the bandwidth controller, 0 for none
    MaxDownloads    \* bound on the downloads the caller starts

ASSUME EngineAssumption ==
    /\ Lengths \in Seq(Nat \ {0}) /\ Lengths # <<>>
    /\ PartSize \in Nat \ {0}
    /\ {MaxRetries, BytesPerSecond, MaxDownloads} \subseteq Nat

VARIABLES
    origin,     \* version the origin serves
    file,       \* the downloaded file
    parts,      \* the files of the .parts directory
    dest,       \* the destination of the upload
    pc,
    engine,     \* engine of the current download or upload
    total,      \* size of the source the caller knows
    attempt,    \* RunWithRetry: attempt
    cancelled,  \* the caller's context
    served,     \* version and first byte of the response, and where it ends
    got,        \* bytes the response has brought
    elapsed,    \* seconds since the response started
    pos,        \* read offset of the upload
    filled,     \* bytes all attempts of the current operation wrote
    metrics,    \* MemoryMetricsRecorder.Summary
    moved,      \* bytes written since the recorder was made
    started     \* downloads the caller started

disk == <<file, parts, dest>>
stream == <<served, got, elapsed>>
call == <<engine, total, attempt, cancelled>>
book == <<filled, metrics, moved, started>>
engineVars == <<origin, disk, pc, call, stream, pos, book>>

Versions == DOMAIN Lengths
Content(v) == [i \in 1..Lengths[v] |-> <<v, i>>]
Longest == CHOOSE n \in Range(Lengths) : \A m \in Range(Lengths) : m <= n
NoResponse == [version |-> 0, next |-> 0, last |-> 0]
NoParts == <<>>
Goto(point) == pc' = point

-----------------------------------------------------------------------------
(* NewMultipartPlan of the downloads.                                      *)
NewMultipartPlan(size, partSize) ==
    [i \in 1..((size + partSize - 1) \div partSize) |->
        [start |-> (i - 1) * partSize,
         end |-> IF i * partSize - 1 >= size THEN size - 1 ELSE i * partSize - 1]]

(* The remainder of the file is no part (mutant).                         *)
NewPlanOfWholeParts(size, partSize) ==
    IF size < partSize THEN <<[start |-> 0, end |-> size - 1]>>
    ELSE [i \in 1..(size \div partSize) |->
            [start |-> (i - 1) * partSize, end |-> i * partSize - 1]]

(* NewPlan of the uploads: an empty file is one empty part.                *)
NewPlan(size, partSize) ==
    IF size = 0 THEN <<[start |-> 0, end |-> 0 - 1]>> ELSE NewMultipartPlan(size, partSize)

DownloadPlan == NewMultipartPlan(total, PartSize)

(* A file counts as complete whatever the size (mutant).                   *)
ResumeNonEmpty == Len(file) > 0

(* NewResumeState, for the size the caller gives.                          *)
ResumeComplete == Len(file) > 0 /\ total > 0 /\ Len(file) >= total
ResumeFrom == IF Len(file) = 0 THEN 0 ELSE Len(file)

(* DelayFor looks at the last write alone (mutant).                        *)
DelayForLast(bytes, seconds) == BytesPerSecond > 0 /\ 1 > seconds * BytesPerSecond

(* BandwidthController.DelayFor is positive.                               *)
DelayFor(bytes, seconds) == BytesPerSecond > 0 /\ bytes > seconds * BytesPerSecond

-----------------------------------------------------------------------------
(* The caller starts RunWithRetry with one of the engines; it knows the    *)
(* size of the source from an earlier answer.                              *)
Download(e) ==
    /\ pc = "idle" /\ started < MaxDownloads
    /\ started' = started + 1
    /\ engine' = e
    /\ total' = Lengths[origin]
    /\ attempt' = 1
    /\ cancelled' = FALSE
    /\ Goto("operate")
    /\ UNCHANGED <<origin, disk, stream, pos, filled, metrics, moved>>

(* The metric an operation records when it returns; its response is gone.  *)
Recorded(ok, recorded) ==
    /\ metrics' = IF recorded
                  THEN [metrics EXCEPT ![IF ok THEN "succeeded" ELSE "failed"] = @ + 1,
                                       !.bytes = @ + filled]
                  ELSE metrics
    /\ filled' = 0
    /\ served' = NoResponse /\ got' = 0 /\ elapsed' = 0

(* One attempt more than the policy allows (mutant).                       *)
RetryOnceMore(ok) ==
    \/ ok /\ Goto("downloaded") /\ UNCHANGED attempt
    \/ ~ ok /\ (attempt = MaxRetries + 2 \/ cancelled) /\ Goto("failed") /\ UNCHANGED attempt
    \/ ~ ok /\ attempt < MaxRetries + 2 /\ Goto("operate") /\ attempt' = attempt + 1

(* RunWithRetry goes on when the operation returns: success, the last      *)
(* attempt, a cancelled wait, or the next attempt (also when cancelled, if *)
(* the policy has no backoff to wait for).                                 *)
Retry(ok) ==
    \/ ok /\ Goto("downloaded") /\ UNCHANGED attempt
    \/ ~ ok /\ (attempt = MaxRetries + 1 \/ cancelled) /\ Goto("failed") /\ UNCHANGED attempt
    \/ ~ ok /\ attempt < MaxRetries + 1 /\ Goto("operate") /\ attempt' = attempt + 1

Returned(ok, recorded) == Recorded(ok, recorded) /\ Retry(ok)

(* The caller resumes from what is in the file: StreamToFile appends to it. *)
(* A complete file needs no request.                                       *)
OpenResume ==
    /\ pc = "operate" /\ engine = "resume"
    /\ IF ResumeComplete
       THEN Returned(TRUE, FALSE)
       ELSE Goto("request") /\ UNCHANGED <<attempt, stream, filled, metrics>>
    /\ UNCHANGED <<origin, disk, engine, total, cancelled, pos, moved, started>>

(* StreamToFile truncates the file before its request.                     *)
OpenStream ==
    /\ pc = "operate" /\ engine = "stream"
    /\ file' = <<>>
    /\ Goto("request")
    /\ UNCHANGED <<origin, parts, dest, call, stream, pos, book>>


(* MultipartToFile: the .parts directory is made anew, with the first part. *)
OpenParts ==
    /\ pc = "operate" /\ engine = "multipart"
    /\ parts' = <<<<>>>>
    /\ Goto("request")
    /\ UNCHANGED <<origin, file, dest, call, stream, pos, book>>

(* A file or directory cannot be made: no metric.                          *)
OpenFails ==
    /\ pc = "operate"
    /\ parts' \in {parts} \cup (IF engine = "multipart" THEN {NoParts} ELSE {})
    /\ Returned(FALSE, FALSE)
    /\ UNCHANGED <<origin, file, dest, engine, total, cancelled, pos, moved, started>>

(* The range of the request, in positions of bytes; 0 for none.            *)
RangeStart ==
    CASE engine = "multipart" -> DownloadPlan[Len(parts)].start + 1
      [] engine = "resume" /\ ResumeFrom > 0 -> ResumeFrom + 1
      [] OTHER -> 0
RangeEnd == IF engine = "multipart" THEN DownloadPlan[Len(parts)].end + 1 ELSE Lengths[origin]

(* A range that cannot be had, or is answered with 200, is an error.       *)
Response(partial, last) ==
    [version |-> origin, next |-> IF partial THEN RangeStart ELSE 1,
     last |-> IF last > Lengths[origin] THEN Lengths[origin] ELSE last]

(* Stream: the response.  A range is answered with it, or with more than   *)
(* its end.                                                                *)
Respond ==
    /\ pc = "request" /\ ~ cancelled
    /\ RangeStart <= Lengths[origin]
    /\ \E last \in {RangeEnd, Lengths[origin]} :
          served' = Response(RangeStart > 0, last)
    /\ Goto("receive")
    /\ UNCHANGED <<origin, disk, call, got, elapsed, pos, book>>

(* The deferred RemoveAll of MultipartToFile.                              *)
RemoveParts == parts' = IF engine = "multipart" THEN NoParts ELSE parts

(* No response, a status that is not 2xx, or 200 to a range.               *)
RequestFails ==
    /\ pc = "request"
    /\ RemoveParts
    /\ Returned(FALSE, TRUE)
    /\ UNCHANGED <<origin, file, dest, engine, total, cancelled, pos, moved, started>>

(* io.Copy writes a byte of the response, and Wait may hold it up.         *)
Receive ==
    /\ pc = "receive"
    /\ served.next <= served.last
    /\ LET byte == <<served.version, served.next>>
       IN IF engine = "multipart"
          THEN parts' = [parts EXCEPT ![Len(parts)] = Append(@, byte)] /\ UNCHANGED file
          ELSE file' = Append(file, byte) /\ UNCHANGED parts
    /\ served' = [served EXCEPT !.next = @ + 1]
    /\ got' = got + 1
    /\ filled' = filled + 1
    /\ moved' = moved + 1
    /\ Goto(IF DelayFor(got + 1, elapsed) THEN "wait" ELSE "receive")
    /\ UNCHANGED <<origin, dest, call, elapsed, pos, metrics, started>>


(* A second passes, in the wait or in the transfer.                        *)
Tick ==
    /\ pc \in {"receive", "wait"}
    /\ BytesPerSecond > 0 /\ elapsed < Longest
    /\ elapsed' = elapsed + 1
    /\ Goto(IF pc = "wait" /\ DelayFor(got, elapsed + 1) THEN "wait" ELSE "receive")
    /\ UNCHANGED <<origin, disk, call, served, got, pos, book>>

(* The response breaks off, or the context is cancelled in it.             *)
ReceiveFails ==
    /\ pc = "receive" \/ (pc = "wait" /\ cancelled)
    /\ RemoveParts
    /\ Returned(FALSE, TRUE)
    /\ UNCHANGED <<origin, file, dest, engine, total, cancelled, pos, moved, started>>

(* The end of the response of a whole or resumed file.                     *)
EndOfStream ==
    /\ pc = "receive" /\ engine # "multipart"
    /\ served.next > served.last
    /\ Returned(TRUE, TRUE)
    /\ UNCHANGED <<origin, disk, engine, total, cancelled, pos, moved, started>>

(* The end of a part: its size must be the planned one; then the next      *)
(* part, or the merge.                                                     *)
EndOfPart ==
    /\ pc = "receive" /\ engine = "multipart"
    /\ served.next > served.last
    /\ LET part == DownloadPlan[Len(parts)]
       IN IF got # part.end - part.start + 1
          THEN RemoveParts /\ Returned(FALSE, TRUE)
          ELSE /\ served' = NoResponse /\ got' = 0 /\ elapsed' = 0
               /\ IF Len(parts) = Len(DownloadPlan)
                  THEN Goto("merge") /\ UNCHANGED parts
                  ELSE Goto("request") /\ parts' = Append(parts, <<>>)
               /\ UNCHANGED <<attempt, filled, metrics>>
    /\ UNCHANGED <<origin, file, dest, engine, total, cancelled, pos, moved, started>>

(* mergeMultipartParts: the target is truncated, then each part appended;  *)
(* pos counts the merged ones.                                             *)
MergeOpen ==
    /\ pc = "merge"
    /\ file' = <<>> /\ pos' = 0
    /\ Goto("merging")
    /\ UNCHANGED <<origin, parts, dest, call, stream, book>>

MergePart ==
    /\ pc = "merging" /\ pos < Len(parts)
    /\ file' = file \o parts[pos + 1]
    /\ pos' = pos + 1
    /\ UNCHANGED <<origin, parts, dest, pc, call, stream, book>>

(* The bytes of a part are recorded by its stream too (mutant).            *)
AssembledTwice ==
    /\ pc = "merging" /\ pos = Len(parts)
    /\ RemoveParts
    /\ metrics' = [metrics EXCEPT !.succeeded = @ + 1, !.bytes = @ + 2 * filled]
    /\ filled' = 0 /\ served' = NoResponse /\ got' = 0 /\ elapsed' = 0
    /\ Goto("downloaded")
    /\ UNCHANGED <<attempt, origin, file, dest, engine, total, cancelled, pos, moved, started>>

Assembled ==
    /\ pc = "merging" /\ pos = Len(parts)
    /\ RemoveParts
    /\ Returned(TRUE, TRUE)
    /\ UNCHANGED <<origin, file, dest, engine, total, cancelled, pos, moved, started>>

(* A merge may stop within a part.                                         *)
Torn ==
    IF pc = "merging" /\ pos < Len(parts)
    THEN \E n \in 0..Len(parts[pos + 1]) : file' = file \o SubSeq(parts[pos + 1], 1, n)
    ELSE UNCHANGED file

MergeFails ==
    /\ pc \in {"merge", "merging"}
    /\ Torn
    /\ RemoveParts
    /\ Returned(FALSE, TRUE)
    /\ UNCHANGED <<origin, dest, engine, total, cancelled, pos, moved, started>>

-----------------------------------------------------------------------------
(* The source is read from its start (mutant).                             *)
ResumeUnseeked ==
    /\ pc = "downloaded"
    /\ engine' = "upload resume"
    /\ pos' = 0
    /\ Goto(CASE Len(dest) < Len(file) -> "upload"
              [] Len(dest) = Len(file) -> "uploaded"
              [] Len(dest) > Len(file) -> "failed")
    /\ UNCHANGED <<origin, disk, total, attempt, cancelled, stream, book>>

(* ResumeUpload: what is missing is appended; a destination as long as the *)
(* source is taken for complete, a longer one is an error.                 *)
ResumeUpload ==
    /\ pc = "downloaded"
    /\ engine' = "upload resume"
    /\ pos' = Len(dest)
    /\ Goto(CASE Len(dest) < Len(file) -> "upload"
              [] Len(dest) = Len(file) -> "uploaded"
              [] Len(dest) > Len(file) -> "failed")
    /\ UNCHANGED <<origin, disk, total, attempt, cancelled, stream, book>>

(* LocalUploader.Upload and MultipartUpload truncate the destination.      *)
Upload ==
    /\ pc = "downloaded"
    /\ engine' \in {"upload", "upload parts"}
    /\ dest' = <<>> /\ pos' = 0
    /\ Goto("upload")
    /\ UNCHANGED <<origin, file, parts, total, attempt, cancelled, stream, book>>

(* Bytes an upload copies: all there are, or what the plan covers.         *)
UploadEnd ==
    IF engine = "upload parts"
    THEN LET plan == NewPlan(Len(file), PartSize) IN plan[Len(plan)].end + 1
    ELSE Len(file)

CopyByte ==
    /\ pc = "upload" /\ pos < UploadEnd
    /\ dest' = Append(dest, file[pos + 1])
    /\ pos' = pos + 1
    /\ UNCHANGED <<origin, file, parts, pc, call, stream, book>>

Copied ==
    /\ pc = "upload" /\ pos = UploadEnd
    /\ Goto("uploaded")
    /\ UNCHANGED <<origin, disk, call, stream, pos, book>>

UploadFails ==
    /\ pc = "upload"
    /\ Goto("failed")
    /\ UNCHANGED <<origin, disk, call, stream, pos, book>>

(* ValidateIntegrity compares the two files.                               *)
ValidateIntegrity ==
    /\ pc = "uploaded"
    /\ Goto(IF dest = file THEN "valid" ELSE "failed")
    /\ UNCHANGED <<origin, disk, call, stream, pos, book>>

(* The caller is done with the result.                                     *)
Done ==
    /\ pc \in {"valid", "failed", "downloaded"}
    /\ Goto("idle")
    /\ UNCHANGED <<origin, disk, call, stream, pos, book>>

-----------------------------------------------------------------------------
Publish ==
    /\ origin + 1 \in Versions
    /\ origin' = origin + 1
    /\ UNCHANGED <<disk, pc, call, stream, pos, book>>

Cancel ==
    /\ pc \in {"operate", "request", "receive", "wait", "merge", "merging"}
    /\ ~ cancelled
    /\ cancelled' = TRUE
    /\ UNCHANGED <<origin, disk, pc, engine, total, attempt, stream, pos, book>>

(* The process dies: recorder and retry loop are gone, the files stay.     *)
Crash ==
    /\ pc # "idle"
    /\ Goto("idle")
    /\ served' = NoResponse /\ got' = 0 /\ elapsed' = 0
    /\ filled' = 0
    /\ metrics' = [succeeded |-> 0, failed |-> 0, bytes |-> 0]
    /\ moved' = 0
    /\ Torn
    /\ UNCHANGED <<origin, parts, dest, call, pos, started>>

EngineInit ==
    /\ origin = 1
    /\ file = <<>> /\ parts = NoParts /\ dest = <<>>
    /\ pc = "idle"
    /\ engine = "stream" /\ total = 0 /\ attempt = 1 /\ cancelled = FALSE
    /\ served = NoResponse /\ got = 0 /\ elapsed = 0
    /\ pos = 0
    /\ filled = 0 /\ moved = 0
    /\ metrics = [succeeded |-> 0, failed |-> 0, bytes |-> 0]
    /\ started = 0

Downloads ==
    \/ OpenResume \/ OpenStream \/ OpenParts \/ Respond \/ Receive \/ Tick
    \/ EndOfStream \/ EndOfPart \/ MergeOpen \/ MergePart \/ Assembled
Fails == OpenFails \/ RequestFails \/ ReceiveFails \/ MergeFails
Uploads == CopyByte \/ Copied \/ ValidateIntegrity

EngineNext ==
    \/ \E e \in {"stream", "resume", "multipart"} : Download(e)
    \/ Downloads \/ Fails
    \/ ResumeUpload \/ Upload \/ Uploads \/ UploadFails \/ Done
    \/ Publish \/ Cancel \/ Crash

EngineSpec == EngineInit /\ [][EngineNext]_engineVars
EngineFairness == WF_engineVars(Downloads \/ Fails) /\ WF_engineVars(Uploads)
FairEngineSpec == EngineSpec /\ EngineFairness

-----------------------------------------------------------------------------
Bytes == Versions \X (1..Longest)
Vs(f) == {b[1] : b \in Range(f)}

(* Type correctness of the state; RunWithRetry makes at most one attempt   *)
(* more than the retries of its policy.                                    *)
EngineTypeOK ==
    /\ origin \in Versions
    /\ {file, dest} \subseteq Seq(Bytes) /\ parts \in Seq(Seq(Bytes))
    /\ engine \in {"stream", "resume", "multipart", "upload", "upload parts", "upload resume"}
    /\ total \in 0..Longest /\ attempt \in 1..(MaxRetries + 1) /\ cancelled \in BOOLEAN
    /\ served.version \in Versions \cup {0}
    /\ {got, elapsed, pos, served.next, served.last} \subseteq 0..(Longest + 1)
    /\ {filled, moved, metrics.bytes, metrics.failed, metrics.succeeded} \subseteq Nat
    /\ started \in 0..MaxDownloads

(* Whatever breaks, and however often transfers are resumed over what      *)
(* earlier ones left, every byte of the file and of the destination is at  *)
(* the position it has in the source: no byte is lost, doubled or shifted. *)
BytesInPlace ==
    /\ \A i \in DOMAIN file : file[i][2] = i
    /\ \A i \in DOMAIN dest : dest[i][2] = i

(* A download that reports success has the whole source: StreamToFile one  *)
(* version of it, the others unless they mixed versions or were given      *)
(* another version's size.                                                 *)
DownloadedIsWhole ==
    pc = "downloaded" =>
        /\ engine = "stream" => \E v \in Versions : file = Content(v)
        /\ \A v \in Versions : Vs(file) \subseteq {v} /\ total = Lengths[v] => file = Content(v)

(* An upload that reports success has the whole file, unless the           *)
(* destination it resumed held another version.                            *)
UploadedIsWhole ==
    pc = "uploaded" =>
        /\ Len(dest) = Len(file)
        /\ \A v \in Versions : Vs(file) \cup Vs(dest) \subseteq {v} => dest = file

(* Each byte written is in the summary of the metrics once, whether its    *)
(* operation succeeded or failed and however many streams it took.         *)
BytesRecordedOnce == metrics.bytes + filled = moved

(* A throttled response is not read on before its bytes are within the     *)
(* rate, counted from its start.                                           *)
RateKept == pc = "receive" /\ BytesPerSecond > 0 => got <= elapsed * BytesPerSecond

(* MultipartToFile touches the target only when all parts are there in     *)
(* their planned sizes: a failed download leaves the earlier file.         *)
TargetKeptUntilMerge ==
    [][ pc # "idle" /\ engine = "multipart" /\ file' # file =>
            /\ Len(parts) = Len(DownloadPlan)
            /\ \A i \in DOMAIN parts :
                  Len(parts[i]) = DownloadPlan[i].end - DownloadPlan[i].start + 1 ]_engineVars


=============================================================================
