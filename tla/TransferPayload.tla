-------------------------- MODULE TransferPayload --------------------------
(***************************************************************************)
(* The bytes of one transfer job: Executor.download and Executor.upload    *)
(* (internal/transfer/executor.go) with the resume decision                *)
(* (internal/download/resume.go) and the storage adapters                  *)
(* (internal/storage).  TransferExecutor abstracts all this to "it         *)
(* succeeded" or "it failed"; here the job directory, the source and the   *)
(* destination are in the state, and the job may be granted again and      *)
(* again until the Hub has its completion.                                 *)
(*                                                                         *)
(* A file is a sequence of chunks, a chunk is the version of the source it *)
(* came from and its position.  Names and files are apart, as on disk:     *)
(* payload.part and payload.bin each name a file, a rename moves a name,   *)
(* and an open descriptor keeps its file.  A checksum is the content it is *)
(* computed from.                                                          *)
(*                                                                         *)
(* The source may change between and during attempts, every exchange may   *)
(* lose its request or its answer, and the process may die at any step.    *)
(***************************************************************************)
EXTENDS Naturals, Sequences, FiniteSets

CONSTANTS
    Attempts,           \* identities of Execute goroutines for the job
    Versions,           \* successive contents of the source: 1..n
    SizeOf,             \* the number of chunks of each version
    Drivers,            \* destination drivers a job may have
    ResumeSettings,     \* values of resume_enabled a job may have
    ExpectedVersions,   \* what ExpectedSHA256 may stand for; 0 is "not given"
    MinBytes,           \* source.min_bytes or media_hub.min_bytes, in chunks
    MultipartEnabled,   \* upload.multipart_enabled
    PartSize,           \* upload.part_size, in chunks
    RangesSupported,    \* the source answers Range requests with 206
    FramedBodies,       \* the end of a body is told apart from a cut
    LeasesLast          \* the Hub grants the job to one attempt at a time

ASSUME PayloadAssumption ==
    /\ IsFiniteSet(Attempts)
    /\ Versions \subseteq Nat \ {0}
    /\ SizeOf \in [Versions -> Nat \ {0}]
    /\ Drivers \subseteq {"local", "s3", "signed", "auren"}
    /\ ResumeSettings \subseteq BOOLEAN
    /\ ExpectedVersions \subseteq Versions \cup {0}
    /\ MinBytes \in Nat
    /\ PartSize \in Nat \ {0}
    /\ {MultipartEnabled, RangesSupported, FramedBodies, LeasesLast} \subseteq BOOLEAN

VARIABLES
    job,        \* driver, resume setting and expected checksum of the job
    source,     \* the version the source serves now
    changed,    \* the source has changed since the job was created
    files,      \* contents of the files of the job directory
    part,       \* the file payload.part names
    bin,        \* the file payload.bin names
    pc,         \* where each attempt is in download and upload
    existing,   \* ResumeState.ExistingBytes
    ranged,     \* ResumeState.RangeHeader is not empty
    body,       \* the version the open response delivers
    written,    \* chunks io.Copy has written
    fd,         \* the file the attempt has open
    sum,        \* downloadResult.ChecksumSHA256
    declared,   \* the checksum the adapter sends with the object
    sent,       \* chunks of the file already at the destination
    session,    \* the multipart upload of the attempt, at the storage
    uploaded,   \* the parts of that upload, joined
    object,     \* the object at the destination
    orphans,    \* why uploads are open that no attempt can close any more
    report      \* what the Hub was told on completion

diskVars == <<files, part, bin>>
downVars == <<existing, ranged, body, written>>
upVars == <<declared, sent, session, uploaded>>
storeVars == <<object, orphans>>
attemptVars == <<pc, downVars, fd, sum, upVars>>
payloadVars == <<job, source, changed, diskVars, attemptVars, storeVars, report>>

(* One file more than there are names and descriptors, so that O_CREATE    *)
(* always finds a fresh one.                                               *)
NoFile == 0
FileIds == 1..(Cardinality(Attempts) + 3)
Hole == <<0, 0>>
Content(v) == [i \in 1..SizeOf[v] |-> <<v, i>>]
NoObject == <<Hole>>
NoReport == [bytes |-> 0, sum |-> NoObject]

SizeOfName(name) == IF name = NoFile THEN 0 ELSE Len(files[name])
Unused == FileIds \ ({part, bin} \cup {fd[a] : a \in Attempts})

-----------------------------------------------------------------------------
(* The end of an attempt: a failure is recorded, saved and reported as     *)
(* TransferExecutor has it, and the goroutine returns.                     *)
Ends(a) ==
    /\ pc' = [pc EXCEPT ![a] = "idle"]
    /\ fd' = [fd EXCEPT ![a] = NoFile]
    /\ existing' = [existing EXCEPT ![a] = 0]
    /\ ranged' = [ranged EXCEPT ![a] = FALSE]
    /\ body' = [body EXCEPT ![a] = 0]
    /\ written' = [written EXCEPT ![a] = 0]
    /\ sum' = [sum EXCEPT ![a] = <<>>]
    /\ declared' = [declared EXCEPT ![a] = <<>>]
    /\ sent' = [sent EXCEPT ![a] = 0]
    /\ session' = [session EXCEPT ![a] = "none"]
    /\ uploaded' = [uploaded EXCEPT ![a] = <<>>]

Returns(a) ==
    /\ Ends(a)
    /\ orphans' = IF session[a] = "open" THEN orphans \cup {"returned"} ELSE orphans

Goto(a, point) == pc' = [pc EXCEPT ![a] = point]

(* ResumeFromFile with a total of 0: the size of the part file, and a      *)
(* Range header when resuming is enabled and there is something to resume. *)
ResumeFromFile(enabled) ==
    [existing |-> SizeOfName(part), ranged |-> enabled /\ SizeOfName(part) > 0]

(* download up to the request: resolve, make the directory, save the       *)
(* state, look at payload.part.  The Hub grants the job until it is        *)
(* completed.                                                              *)
BeginDownload(a) ==
    /\ pc[a] = "idle"
    /\ report = NoReport
    /\ LeasesLast => \A b \in Attempts : pc[b] = "idle"
    /\ LET resume == ResumeFromFile(job.resume)
       IN /\ existing' = [existing EXCEPT ![a] = resume.existing]
          /\ ranged' = [ranged EXCEPT ![a] = resume.ranged]
    /\ Goto(a, "request")
    /\ UNCHANGED <<job, source, changed, diskVars, body, written, fd, sum,
                   upVars, storeVars, report>>

(* The request fails, or its answer is an error or a blocked HTML page.    *)
RequestFails(a) ==
    /\ pc[a] = "request"
    /\ Returns(a)
    /\ UNCHANGED <<job, source, changed, diskVars, object, report>>

Continues(a) == RangesSupported /\ existing[a] < SizeOf[source]

(* A source without ranges answers a resuming request with 200, one that   *)
(* has nothing beyond the partial file with 416.  Both are errors, and     *)
(* payload.part stays.                                                     *)
RangeRefused(a) ==
    /\ pc[a] = "request"
    /\ ranged[a] /\ ~ Continues(a)
    /\ Returns(a)
    /\ UNCHANGED <<job, source, changed, diskVars, object, report>>

(* payload.part is opened without O_TRUNC (mutant).                        *)
OpenPartKeeping(a) ==
    LET f == IF part = NoFile THEN CHOOSE g \in Unused : TRUE ELSE part
    IN /\ part' = f
       /\ fd' = [fd EXCEPT ![a] = f]
       /\ files' = IF part # NoFile THEN files ELSE [files EXCEPT ![f] = <<>>]

(* The file that payload.part names is opened, made if need be, and        *)
(* truncated unless the response continues it.                             *)
OpenPart(a) ==
    LET f == IF part = NoFile THEN CHOOSE g \in Unused : TRUE ELSE part
    IN /\ part' = f
       /\ fd' = [fd EXCEPT ![a] = f]
       /\ files' = IF ranged[a] /\ part # NoFile THEN files
                   ELSE [files EXCEPT ![f] = <<>>]

(* Only status 206 continues a partial file (mutant: any 2xx but 206).     *)
RespondRefusesPartial(a) ==
    /\ pc[a] = "request"
    /\ ~ ranged[a]
    /\ OpenPart(a)
    /\ body' = [body EXCEPT ![a] = source]
    /\ written' = [written EXCEPT ![a] = 0]
    /\ Goto(a, "copy")
    /\ UNCHANGED <<job, source, changed, bin, existing, ranged, sum, upVars,
                   storeVars, report>>

(* A usable answer: 200 for the whole source, 206 for what follows the     *)
(* existing bytes.  Nothing ties a 206 to the version of the partial file. *)
Respond(a) ==
    /\ pc[a] = "request"
    /\ ranged[a] => Continues(a)
    /\ OpenPart(a)
    /\ body' = [body EXCEPT ![a] = source]
    /\ written' = [written EXCEPT ![a] = 0]
    /\ Goto(a, "copy")
    /\ UNCHANGED <<job, source, changed, bin, existing, ranged, sum, upVars,
                   storeVars, report>>

(* A write at a position: what lies between it and the end reads as zeros. *)
WriteAt(file, position, chunk) ==
    [i \in 1..(IF position > Len(file) THEN position ELSE Len(file)) |->
        IF i = position THEN chunk
        ELSE IF i <= Len(file) THEN file[i] ELSE Hole]

NextChunk(a) == (IF ranged[a] THEN existing[a] ELSE 0) + written[a] + 1

(* One write of io.Copy through progressWriter: O_APPEND adds to the end   *)
(* of the file, otherwise the descriptor has its own position.             *)
CopyChunk(a) ==
    /\ pc[a] = "copy"
    /\ NextChunk(a) <= SizeOf[body[a]]
    /\ LET chunk == <<body[a], NextChunk(a)>>
           file == files[fd[a]]
       IN files' = [files EXCEPT ![fd[a]] =
                       IF ranged[a] THEN Append(file, chunk)
                       ELSE WriteAt(file, written[a] + 1, chunk)]
    /\ written' = [written EXCEPT ![a] = @ + 1]
    /\ UNCHANGED <<job, source, changed, part, bin, pc, existing, ranged,
                   body, fd, sum, upVars, storeVars, report>>

(* The connection breaks, the context is cancelled or the disk is full.    *)
CopyFails(a) ==
    /\ pc[a] = "copy"
    /\ Returns(a)
    /\ UNCHANGED <<job, source, changed, diskVars, object, report>>

(* Only what this attempt wrote is counted (mutant).                       *)
BytesWritten(a) == written[a]

(* The size download reports: what was there and what was written.  It     *)
(* counts the existing bytes also where they were truncated.               *)
BytesOnDisk(a) == existing[a] + written[a]

(* io.Copy saw the end of the body.  A file smaller than the minimum is    *)
(* refused, and stays as payload.part.                                     *)
CopyEnds(a) ==
    /\ pc[a] = "copy"
    /\ FramedBodies => NextChunk(a) > SizeOf[body[a]]
    /\ IF BytesOnDisk(a) < MinBytes
       THEN Returns(a)
       ELSE Goto(a, "rename") /\ UNCHANGED <<downVars, fd, sum, upVars, orphans>>
    /\ UNCHANGED <<job, source, changed, diskVars, object, report>>

(* os.Rename of payload.part to payload.bin; it fails when another attempt *)
(* of the job has renamed it already.  The file that had the name is gone, *)
(* unless it is open.                                                      *)
RenamePart(a) ==
    /\ pc[a] = "rename"
    /\ IF part = NoFile
       THEN Returns(a) /\ UNCHANGED diskVars
       ELSE /\ bin' = part
            /\ part' = NoFile
            /\ files' = IF bin = NoFile \/ \E b \in Attempts : fd[b] = bin THEN files
                        ELSE [files EXCEPT ![bin] = <<>>]
            /\ Goto(a, "verify")
            /\ fd' = [fd EXCEPT ![a] = NoFile]
            /\ UNCHANGED <<downVars, sum, upVars, orphans>>
    /\ UNCHANGED <<job, source, changed, object, report>>

(* The checksum is computed and not compared (mutant).                     *)
VerifyNothing(a) ==
    /\ pc[a] = "verify"
    /\ sum' = [sum EXCEPT ![a] = files[bin]]
    /\ Goto(a, "upload")
    /\ UNCHANGED <<job, source, changed, diskVars, downVars, fd, upVars,
                   storeVars, report>>

(* SHA256File reads payload.bin by name; a checksum that was expected must *)
(* agree.  The bad file stays under its final name.                        *)
Verify(a) ==
    /\ pc[a] = "verify"
    /\ IF job.expected # 0 /\ files[bin] # Content(job.expected)
       THEN Returns(a)
       ELSE /\ sum' = [sum EXCEPT ![a] = files[bin]]
            /\ Goto(a, "upload")
            /\ UNCHANGED <<downVars, fd, upVars, orphans>>
    /\ UNCHANGED <<job, source, changed, diskVars, object, report>>

(* The rename or the checksum fails, the driver is unknown to the agent,   *)
(* or its adapter cannot be built or cannot open payload.bin.                 *)
StepFails(a) ==
    /\ pc[a] \in {"rename", "verify", "upload"}
    /\ Returns(a)
    /\ UNCHANGED <<job, source, changed, diskVars, object, report>>

-----------------------------------------------------------------------------
(* upload up to the first byte: the adapter of the driver is built and     *)
(* looks at payload.bin.  The local adapter truncates its target, S3 and   *)
(* the signed URL open the file, Auren Storage computes the checksum anew  *)
(* and decides between one request and parts.                              *)
BeginUpload(a) ==
    /\ pc[a] = "upload"
    /\ fd' = [fd EXCEPT ![a] = IF job.driver = "auren" THEN NoFile ELSE bin]
    /\ declared' = [declared EXCEPT ![a] =
                       IF job.driver = "auren" THEN files[bin] ELSE sum[a]]
    /\ sent' = [sent EXCEPT ![a] = 0]
    /\ object' = IF job.driver = "local" THEN <<>> ELSE object
    /\ Goto(a, CASE job.driver = "local" -> "local"
                 [] job.driver = "auren" /\ MultipartEnabled
                        /\ Len(files[bin]) > PartSize -> "initiate"
                 [] OTHER -> "put")
    /\ UNCHANGED <<job, source, changed, diskVars, downVars, sum, session,
                   uploaded, orphans, report>>

(* io.Copy of LocalUploader.Upload into the truncated target.              *)
LocalCopy(a) ==
    /\ pc[a] = "local"
    /\ IF sent[a] < Len(files[fd[a]])
       THEN /\ object' = WriteAt(object, sent[a] + 1, files[fd[a]][sent[a] + 1])
            /\ sent' = [sent EXCEPT ![a] = @ + 1]
            /\ UNCHANGED pc
       ELSE Goto(a, "report") /\ UNCHANGED <<object, sent>>
    /\ UNCHANGED <<job, source, changed, diskVars, downVars, fd, sum, declared,
                   session, uploaded, orphans, report>>

(* The disk is full or the target cannot be written: the truncated object  *)
(* stays.                                                                  *)
LocalFails(a) ==
    /\ pc[a] = "local"
    /\ Returns(a)
    /\ UNCHANGED <<job, source, changed, diskVars, object, report>>

(* What one PUT or POST carries.  directUpload opens payload.bin by name   *)
(* when the request is on its way, the others opened it before.            *)
RequestBody(a) == IF job.driver = "auren" THEN files[bin] ELSE files[fd[a]]

(* S3 compares the body with X-Amz-Content-Sha256; the others store it.    *)
Accepted(a) == job.driver = "s3" => RequestBody(a) = declared[a]

(* The object is stored by one request and the answer arrives.             *)
Put(a) ==
    /\ pc[a] = "put"
    /\ Accepted(a)
    /\ object' = RequestBody(a)
    /\ Goto(a, "report")
    /\ UNCHANGED <<job, source, changed, diskVars, downVars, fd, sum, upVars,
                   orphans, report>>

(* The request or its answer is lost, or the storage refuses: an error in  *)
(* each case, though the object may be there.                              *)
PutFails(a) ==
    /\ pc[a] = "put"
    /\ object' \in {object} \cup IF Accepted(a) THEN {RequestBody(a)} ELSE {}
    /\ Returns(a)
    /\ UNCHANGED <<job, source, changed, diskVars, report>>

(* initiateMultipart, and the file is opened.                              *)
Initiate(a) ==
    /\ pc[a] = "initiate"
    /\ session' = [session EXCEPT ![a] = "open"]
    /\ uploaded' = [uploaded EXCEPT ![a] = <<>>]
    /\ fd' = [fd EXCEPT ![a] = bin]
    /\ Goto(a, "parts")
    /\ UNCHANGED <<job, source, changed, diskVars, downVars, sum, declared,
                   sent, storeVars, report>>

(* The exchange fails, or the answer has no upload_id: the storage may     *)
(* hold an upload that nobody can abort.                                   *)
InitiateFails(a) ==
    /\ pc[a] = "initiate"
    /\ orphans' \in {orphans, orphans \cup {"initiate lost"}}
    /\ Ends(a)
    /\ UNCHANGED <<job, source, changed, diskVars, object, report>>

(* payload.bin cannot be opened once the upload is initiated: it is        *)
(* aborted.                                                                *)
OpenSourceFails(a) ==
    /\ pc[a] = "initiate"
    /\ session' = [session EXCEPT ![a] = "open"]
    /\ Goto(a, "abort")
    /\ UNCHANGED <<job, source, changed, diskVars, downVars, fd, sum, declared,
                   sent, uploaded, storeVars, report>>

PartEnd(a) ==
    IF sent[a] + PartSize > Len(declared[a]) THEN Len(declared[a]) ELSE sent[a] + PartSize

(* A plan of full parts only (mutant: the short last part is never sent).  *)
SendFullPart(a) ==
    /\ pc[a] = "parts"
    /\ IF sent[a] + PartSize <= Len(declared[a])
       THEN /\ uploaded' = [uploaded EXCEPT ![a] =
                                @ \o SubSeq(files[fd[a]], sent[a] + 1, sent[a] + PartSize)]
            /\ sent' = [sent EXCEPT ![a] = sent[a] + PartSize]
            /\ UNCHANGED pc
       ELSE Goto(a, "complete") /\ UNCHANGED <<uploaded, sent>>
    /\ UNCHANGED <<job, source, changed, diskVars, downVars, fd, sum, declared,
                   session, storeVars, report>>

(* The loop of multipartUpload: uploadPart for the next part, the last one *)
(* as short as it has to be; then the loop ends.  A file shorter than the  *)
(* size announced breaks the request (PartFails).                          *)
SendPart(a) ==
    /\ pc[a] = "parts"
    /\ IF sent[a] < Len(declared[a])
       THEN /\ PartEnd(a) <= Len(files[fd[a]])
            /\ uploaded' = [uploaded EXCEPT ![a] =
                                @ \o SubSeq(files[fd[a]], sent[a] + 1, PartEnd(a))]
            /\ sent' = [sent EXCEPT ![a] = PartEnd(a)]
            /\ UNCHANGED pc
       ELSE Goto(a, "complete") /\ UNCHANGED <<uploaded, sent>>
    /\ UNCHANGED <<job, source, changed, diskVars, downVars, fd, sum, declared,
                   session, storeVars, report>>

(* The error of a part is returned at once (mutant: without the abort).    *)
PartFailsSilently(a) ==
    /\ pc[a] = "parts"
    /\ Returns(a)
    /\ UNCHANGED <<job, source, changed, diskVars, object, report>>

PartFails(a) ==
    /\ pc[a] = "parts"
    /\ Goto(a, "abort")
    /\ UNCHANGED <<job, source, changed, diskVars, downVars, fd, sum, upVars,
                   storeVars, report>>

(* completeMultipart: the storage joins the parts into the object.         *)
Complete(a) ==
    /\ pc[a] = "complete"
    /\ object' = uploaded[a]
    /\ session' = [session EXCEPT ![a] = "done"]
    /\ Goto(a, "report")
    /\ UNCHANGED <<job, source, changed, diskVars, downVars, fd, sum, declared,
                   sent, uploaded, orphans, report>>

(* The completion or its answer is lost, or it is refused: the adapter     *)
(* aborts, whatever the storage did.                                       *)
CompleteFails(a) ==
    /\ pc[a] = "complete"
    /\ \/ UNCHANGED <<object, session>>
       \/ object' = uploaded[a] /\ session' = [session EXCEPT ![a] = "done"]
    /\ Goto(a, "abort")
    /\ UNCHANGED <<job, source, changed, diskVars, downVars, fd, sum, declared,
                   sent, uploaded, orphans, report>>

(* abortMultipart with a context of its own: an upload that is open is     *)
(* dropped, a completed one is left alone.  Its error is ignored.          *)
Abort(a) ==
    /\ pc[a] = "abort"
    /\ orphans' \in {orphans} \cup IF session[a] = "open"
                                   THEN {orphans \cup {"abort lost"}} ELSE {}
    /\ Ends(a)
    /\ UNCHANGED <<job, source, changed, diskVars, object, report>>

(* The completed callback reaches the Hub; its answer may be lost.         *)
Report(a) ==
    /\ pc[a] = "report"
    /\ report' = [bytes |-> BytesOnDisk(a), sum |-> sum[a]]
    /\ Returns(a)
    /\ UNCHANGED <<job, source, changed, diskVars, object>>

ReportLost(a) ==
    /\ pc[a] = "report"
    /\ Returns(a)
    /\ UNCHANGED <<job, source, changed, diskVars, object, report>>

-----------------------------------------------------------------------------
(* The source serves another version.                                      *)
SourceChanges ==
    /\ \E v \in Versions : v > source /\ source' = v
    /\ changed' = TRUE
    /\ UNCHANGED <<job, diskVars, attemptVars, storeVars, report>>

(* The process dies; job directory, storage and Hub stay.                  *)
Crash ==
    /\ \E a \in Attempts : pc[a] # "idle"
    /\ pc' = [a \in Attempts |-> "idle"]
    /\ fd' = [a \in Attempts |-> NoFile]
    /\ existing' = [a \in Attempts |-> 0]
    /\ ranged' = [a \in Attempts |-> FALSE]
    /\ body' = [a \in Attempts |-> 0]
    /\ written' = [a \in Attempts |-> 0]
    /\ sum' = [a \in Attempts |-> <<>>]
    /\ declared' = [a \in Attempts |-> <<>>]
    /\ sent' = [a \in Attempts |-> 0]
    /\ session' = [a \in Attempts |-> "none"]
    /\ uploaded' = [a \in Attempts |-> <<>>]
    /\ orphans' = IF \E a \in Attempts : session[a] = "open"
                  THEN orphans \cup {"crash"} ELSE orphans
    /\ UNCHANGED <<job, source, changed, diskVars, object, report>>

-----------------------------------------------------------------------------
PayloadInit ==
    /\ job \in [driver : Drivers, resume : ResumeSettings, expected : ExpectedVersions]
    /\ source \in {v \in Versions : \A w \in Versions : v <= w}
    /\ changed = FALSE
    /\ files = [f \in FileIds |-> <<>>]
    /\ part = NoFile
    /\ bin = NoFile
    /\ pc = [a \in Attempts |-> "idle"]
    /\ existing = [a \in Attempts |-> 0]
    /\ ranged = [a \in Attempts |-> FALSE]
    /\ body = [a \in Attempts |-> 0]
    /\ written = [a \in Attempts |-> 0]
    /\ fd = [a \in Attempts |-> NoFile]
    /\ sum = [a \in Attempts |-> <<>>]
    /\ declared = [a \in Attempts |-> <<>>]
    /\ sent = [a \in Attempts |-> 0]
    /\ session = [a \in Attempts |-> "none"]
    /\ uploaded = [a \in Attempts |-> <<>>]
    /\ object = NoObject
    /\ orphans = {}
    /\ report = NoReport

Works(a) ==
    \/ BeginDownload(a) \/ RangeRefused(a) \/ Respond(a) \/ CopyChunk(a)
    \/ CopyEnds(a) \/ RenamePart(a) \/ Verify(a) \/ BeginUpload(a) \/ LocalCopy(a) \/ Put(a)
    \/ Initiate(a) \/ SendPart(a) \/ Complete(a) \/ Abort(a) \/ Report(a)

Breaks(a) ==
    \/ RequestFails(a) \/ CopyFails(a) \/ StepFails(a) \/ LocalFails(a) \/ PutFails(a)
    \/ InitiateFails(a) \/ OpenSourceFails(a) \/ PartFails(a) \/ CompleteFails(a) \/ ReportLost(a)

PayloadNext ==
    \/ \E a \in Attempts : Works(a) \/ Breaks(a)
    \/ SourceChanges
    \/ Crash

PayloadSpec == PayloadInit /\ [][PayloadNext]_payloadVars

(* The goroutine of an attempt runs, and the Hub grants a job again that   *)
(* is not completed.                                                       *)
PayloadFairness == \A a \in Attempts : WF_payloadVars(Works(a))

FairPayloadSpec == PayloadSpec /\ PayloadFairness

-----------------------------------------------------------------------------
Chunks == (Versions \cup {0}) \X Nat
Points == {"idle", "request", "copy", "rename", "verify", "upload", "local",
           "put", "initiate", "parts", "complete", "abort", "report"}

(* Type correctness of the state.                                          *)
PayloadTypeOK ==
    /\ job \in [driver : Drivers, resume : ResumeSettings, expected : ExpectedVersions]
    /\ source \in Versions
    /\ changed \in BOOLEAN
    /\ files \in [FileIds -> Seq(Chunks)]
    /\ {part, bin} \subseteq FileIds \cup {NoFile}
    /\ pc \in [Attempts -> Points]
    /\ existing \in [Attempts -> Nat]
    /\ ranged \in [Attempts -> BOOLEAN]
    /\ body \in [Attempts -> Versions \cup {0}]
    /\ written \in [Attempts -> Nat]
    /\ fd \in [Attempts -> FileIds \cup {NoFile}]
    /\ sum \in [Attempts -> Seq(Chunks)]
    /\ declared \in [Attempts -> Seq(Chunks)]
    /\ sent \in [Attempts -> Nat]
    /\ session \in [Attempts -> {"none", "open", "done"}]
    /\ uploaded \in [Attempts -> Seq(Chunks)]
    /\ object \in Seq(Chunks)
    /\ orphans \subseteq {"returned", "initiate lost", "abort lost", "crash"}
    /\ report \in [bytes : Nat, sum : Seq(Chunks)]

Completed == report # NoReport

(* While the Hub grants a job to one attempt at a time, what it was told   *)
(* is complete is at the destination with the checksum it was told.        *)
(* Report sends the checksum that download computed, the adapters read     *)
(* payload.bin again.                                                      *)
ObjectMatchesReport == LeasesLast /\ Completed => object = report.sum

(* ... and a job with an expected checksum is only completed with exactly  *)
(* that content, whatever retries, resumed versions and cuts came before.  *)
ExpectedContentDelivered ==
    LeasesLast /\ Completed /\ job.expected # 0 => object = Content(job.expected)

(* ... and the object is one whole version of the source, unless a partial *)
(* file was continued after the source had changed.                        *)
OneVersionDelivered ==
    LeasesLast /\ FramedBodies /\ Completed /\ (changed => ~ job.resume)
        => \E v \in Versions : object = Content(v)

(* The number of bytes reported is the size of the object, when resuming   *)
(* is enabled: without it download adds the size of a leftover             *)
(* payload.part that it has just truncated.                                *)
ReportedSizeIsReal ==
    LeasesLast /\ Completed /\ job.resume => report.bytes = Len(object)

(* So the completion tells the truth: content, checksum and size.          *)
DeliveredAsReported == ObjectMatchesReport /\ ExpectedContentDelivered /\ ReportedSizeIsReal

(* transfer-executor.md: "tiny-file guard through media_hub.min_bytes":    *)
(* nothing smaller than the minimum is delivered.                          *)
TinyFileGuard == LeasesLast /\ Completed => Len(object) >= MinBytes

(* An attempt that returns on its own leaves no multipart upload open      *)
(* without having tried to abort it.                                       *)
AbortOnError == "returned" \notin orphans

-----------------------------------------------------------------------------
(* What every step preserves, and the invariants above follow from.        *)

(* Bytes of the part file before the first this attempt writes.            *)
Base(a) == IF ranged[a] THEN existing[a] ELSE 0

(* The files an attempt works on exist.                                    *)
OpenFiles ==
    \A a \in Attempts :
        /\ pc[a] \in {"copy", "local", "parts"} => fd[a] \in FileIds
        /\ pc[a] = "put" /\ job.driver # "auren" => fd[a] \in FileIds
        /\ pc[a] \in {"verify", "upload", "local", "put", "initiate", "parts", "complete", "report"}
              => bin \in FileIds

(* An upload is open at the storage only while its attempt will close it.  *)
SessionInv ==
    /\ \A a \in Attempts : session[a] = "open" => pc[a] \in {"parts", "complete", "abort"}
    /\ "returned" \notin orphans

(* With one attempt at a time: until the rename, the length of             *)
(* payload.part is what the attempt believes.                              *)
DownloadInv(a) ==
    /\ pc[a] \in {"request", "copy"} => (job.resume /\ ~ ranged[a] => existing[a] = 0)
    /\ pc[a] = "request" /\ ranged[a] => part # NoFile /\ Len(files[part]) = existing[a]
    /\ pc[a] = "copy" => fd[a] = part /\ Len(files[part]) = Base(a) + written[a]
    /\ pc[a] = "rename" /\ part # NoFile /\ job.resume => Len(files[part]) = BytesOnDisk(a)
    /\ pc[a] = "verify" /\ job.resume => Len(files[bin]) = BytesOnDisk(a)

(* The checksum of the attempt has been compared, and its size is real.    *)
Checked(a) ==
    /\ job.expected # 0 => sum[a] = Content(job.expected)
    /\ job.resume => Len(sum[a]) = BytesOnDisk(a)

(* From then on payload.bin is what was summed, and the destination has a  *)
(* prefix of it.                                                           *)
UploadInv(a) ==
    /\ pc[a] \in {"upload", "local", "put", "initiate", "parts", "complete"} => sum[a] = files[bin]
    /\ pc[a] \in {"upload", "local", "put", "initiate", "parts", "complete", "report"} => Checked(a)
    /\ pc[a] = "local" => /\ fd[a] = bin /\ sent[a] <= Len(files[bin])
                          /\ object = SubSeq(files[bin], 1, sent[a])
    /\ pc[a] = "put" /\ job.driver # "auren" => fd[a] = bin
    /\ pc[a] = "initiate" => declared[a] = files[bin] /\ sent[a] = 0
    /\ pc[a] \in {"parts", "complete"} =>
          /\ declared[a] = files[bin] /\ sent[a] <= Len(files[bin])
          /\ uploaded[a] = SubSeq(files[bin], 1, sent[a])
    /\ pc[a] = "parts" => fd[a] = bin
    /\ pc[a] = "complete" => sent[a] = Len(files[bin])
    /\ pc[a] = "report" => object = sum[a]

DeliveredInv ==
    Completed =>
        /\ \A a \in Attempts : pc[a] = "idle"
        /\ object = report.sum
        /\ job.expected # 0 => object = Content(job.expected)
        /\ job.resume => report.bytes = Len(object)

Exclusive == \A a, b \in Attempts : pc[a] # "idle" /\ pc[b] # "idle" => a = b

PayloadInv ==
    /\ PayloadTypeOK /\ OpenFiles /\ SessionInv
    /\ LeasesLast => /\ Exclusive /\ DeliveredInv
                     /\ part = NoFile \/ part # bin
                     /\ \A a \in Attempts : DownloadInv(a) /\ UploadInv(a)

-----------------------------------------------------------------------------
(* A partial file that the source cannot continue: download gives up on    *)
(* it, and nothing removes it.                                             *)
Stuck ==
    /\ job.resume
    /\ part # NoFile
    /\ Len(files[part]) > 0
    /\ RangesSupported => Len(files[part]) >= SizeOf[source]

Deliverable == SizeOf[source] >= MinBytes /\ job.expected \in {0, source}

(* From some time on nothing fails.                                        *)
FaultsEnd == <>[][~ (Crash \/ \E a \in Attempts : Breaks(a))]_payloadVars

(* When faults end and the source stays deliverable, the job is completed, *)
(* or its partial file has become one that no retry gets past.             *)
RetriesComplete == FaultsEnd /\ <>[]Deliverable => <>(Completed \/ Stuck)
=============================================================================
