---------------------------- MODULE PayloadProofs ----------------------------
(***************************************************************************)
(* The payload of a job for every set of attempts, every source, every     *)
(* driver and every part size: what the Hub is told is complete is at the  *)
(* destination, with the checksum, the content and the size it was told.   *)
(*                                                                         *)
(* PayloadInv is inductive.  An attempt that works is the only one; until  *)
(* it ends, payload.bin is what it summed, and what the destination has    *)
(* of it is a prefix.                                                      *)
(***************************************************************************)
EXTENDS PayloadDownloadProofs

-----------------------------------------------------------------------------
(* The steps of upload.                                                    *)

\* A step of the upload that leaves the disk, the checksum and the sizes
\* alone: the destination's part of the invariant is left to show.
LEMMA UploadStepOf ==
    ASSUME PayloadInv, NEW a \in Attempts, NEW q \in Points \ {"idle", "request", "copy", "rename", "verify"},
           pc[a] \in {"upload", "local", "put", "initiate", "parts", "complete"},
           pc' = [pc EXCEPT ![a] = q],
           UNCHANGED <<job, source, changed, files, part, bin, existing, ranged, body, written,
                       sum, orphans, report>>,
           fd' \in [Attempts -> FileIds \cup {NoFile}],
           \A b \in Attempts \ {a} : fd'[b] = fd[b] /\ session'[b] = session[b],
           q \in {"local", "parts"} => fd'[a] \in FileIds,
           q = "put" /\ job.driver # "auren" => fd'[a] \in FileIds,
           declared' \in [Attempts -> Seq(Chunks)],
           sent' \in [Attempts -> Nat],
           session' \in [Attempts -> {"none", "open", "done"}],
           session'[a] = "open" => q \in {"parts", "complete", "abort"},
           uploaded' \in [Attempts -> Seq(Chunks)],
           object' \in Seq(Chunks),
           LeasesLast =>
             /\ q \in {"local", "parts"} => fd'[a] = bin
             /\ q = "put" /\ job.driver # "auren" => fd'[a] = bin
             /\ q = "local" => /\ sent'[a] <= Len(files[bin])
                               /\ object' = SubSeq(files[bin], 1, sent'[a])
             /\ q = "initiate" => declared'[a] = files[bin] /\ sent'[a] = 0
             /\ q \in {"parts", "complete"} =>
                   /\ declared'[a] = files[bin] /\ sent'[a] <= Len(files[bin])
                   /\ uploaded'[a] = SubSeq(files[bin], 1, sent'[a])
             /\ q = "complete" => sent'[a] = Len(files[bin])
             /\ q = "report" => object' = files[bin]
    PROVE  PayloadInv'
<1>1. pc'[a] = q /\ \A b \in Attempts \ {a} : pc'[b] = pc[b]
  BY DEF PayloadInv, PayloadTypeOK
<1>2. PayloadTypeOK'
  BY DEF PayloadInv, PayloadTypeOK
<1>3. bin \in FileIds
  BY DEF PayloadInv, OpenFiles
<1>4. OpenFiles'
  BY <1>1, <1>3 DEF PayloadInv, OpenFiles
<1>5. SessionInv'
  BY <1>1 DEF PayloadInv, SessionInv
<1>6. ASSUME LeasesLast
      PROVE  (part' = NoFile \/ part' # bin') /\ DownloadInv(a)' /\ UploadInv(a)'
  <2>1. sum[a] = files[bin] /\ Checked(a)
    BY <1>6 DEF PayloadInv, UploadInv
  <2>2. Checked(a)'
    BY <2>1 DEF Checked, BytesOnDisk, Content
  <2>3. UploadInv(a)'
    BY <1>1, <1>6, <2>1, <2>2 DEF UploadInv
  <2>4. DownloadInv(a)'
    BY <1>1 DEF DownloadInv
  <2> QED BY <1>6, <2>3, <2>4 DEF PayloadInv
<1> QED
  BY <1>2, <1>4, <1>5, <1>6, StepOf, Sole DEF PayloadInv, PayloadTypeOK

LEMMA BeginUploadStep ==
    ASSUME PayloadInv, NEW a \in Attempts, BeginUpload(a)
    PROVE  PayloadInv'
<1> DEFINE q == CASE job.driver = "local" -> "local"
                  [] job.driver = "auren" /\ MultipartEnabled
                         /\ Len(files[bin]) > PartSize -> "initiate"
                  [] OTHER -> "put"
<1>1. /\ pc[a] = "upload" /\ pc' = [pc EXCEPT ![a] = q]
      /\ fd' = [fd EXCEPT ![a] = IF job.driver = "auren" THEN NoFile ELSE bin]
      /\ declared' = [declared EXCEPT ![a] = IF job.driver = "auren" THEN files[bin] ELSE sum[a]]
      /\ sent' = [sent EXCEPT ![a] = 0]
      /\ object' = IF job.driver = "local" THEN <<>> ELSE object
      /\ UNCHANGED <<job, source, changed, files, part, bin, existing, ranged, body, written,
                     sum, session, uploaded, orphans, report>>
  BY DEF BeginUpload, Goto, diskVars, downVars
<1>2. /\ q \in {"local", "initiate", "put"}
      /\ q = "local" <=> job.driver = "local"
      /\ q = "initiate" => job.driver = "auren"
  OBVIOUS
<1> HIDE DEF q
<1>3. bin \in FileIds /\ files[bin] \in Seq(Chunks) /\ sum[a] \in Seq(Chunks)
  BY <1>1 DEF PayloadInv, PayloadTypeOK, OpenFiles
<1>4. /\ fd' \in [Attempts -> FileIds \cup {NoFile}]
      /\ declared' \in [Attempts -> Seq(Chunks)]
      /\ sent' \in [Attempts -> Nat]
      /\ object' \in Seq(Chunks)
      /\ session' \in [Attempts -> {"none", "open", "done"}]
      /\ uploaded' \in [Attempts -> Seq(Chunks)]
      /\ \A b \in Attempts \ {a} : fd'[b] = fd[b] /\ session'[b] = session[b]
      /\ sent'[a] = 0
      /\ job.driver # "auren" => fd'[a] = bin
      /\ job.driver = "auren" => declared'[a] = files[bin]
  BY <1>1, <1>3, ChunkTypes DEF PayloadInv, PayloadTypeOK
<1>5. session'[a] # "open"
  BY <1>1 DEF PayloadInv, SessionInv
<1>6. 0 <= Len(files[bin]) /\ SubSeq(files[bin], 1, 0) = <<>>
  BY <1>3, SubSeqEmpty
<1>7. q = "local" => object' = <<>>
  BY <1>1, <1>2
<1> QED
  BY <1>1, <1>2, <1>3, <1>4, <1>5, <1>6, <1>7, UploadStepOf DEF Points

LEMMA LocalCopyStep ==
    ASSUME PayloadInv, NEW a \in Attempts, LocalCopy(a)
    PROVE  PayloadInv'
<1> DEFINE file == files[fd[a]]
<1>1. /\ pc[a] = "local"
      /\ UNCHANGED <<job, source, changed, files, part, bin, existing, ranged, body, written, fd,
                     sum, declared, session, uploaded, orphans, report>>
  BY DEF LocalCopy, diskVars, downVars
<1>2. /\ fd[a] \in FileIds /\ file \in Seq(Chunks) /\ Len(file) \in Nat /\ sent[a] \in Nat
      /\ object \in Seq(Chunks) /\ Hole \in Chunks
  <2>1. /\ fd[a] \in FileIds /\ files \in [FileIds -> Seq(Chunks)]
        /\ sent[a] \in Nat /\ object \in Seq(Chunks)
    BY <1>1 DEF PayloadInv, PayloadTypeOK, OpenFiles
  <2> QED BY <2>1, ChunkTypes
<1>3. LeasesLast => /\ fd[a] = bin /\ sent[a] <= Len(file)
                    /\ object = SubSeq(file, 1, sent[a])
  BY <1>1 DEF PayloadInv, UploadInv
<1>4. /\ declared' \in [Attempts -> Seq(Chunks)] /\ fd' \in [Attempts -> FileIds \cup {NoFile}]
      /\ session' \in [Attempts -> {"none", "open", "done"}]
      /\ uploaded' \in [Attempts -> Seq(Chunks)]
      /\ session'[a] # "open"
      /\ \A b \in Attempts \ {a} : fd'[b] = fd[b] /\ session'[b] = session[b]
  BY <1>1 DEF PayloadInv, PayloadTypeOK, SessionInv
<1>5. CASE sent[a] < Len(file)
  <2>1. /\ object' = WriteAt(object, sent[a] + 1, file[sent[a] + 1])
        /\ sent' = [sent EXCEPT ![a] = sent[a] + 1] /\ pc' = pc
    BY <1>5 DEF LocalCopy
  <2> HIDE DEF file
  <2>2. sent[a] + 1 \in Nat \ {0} /\ file[sent[a] + 1] \in Chunks /\ sent[a] + 1 <= Len(file)
    BY <1>2, <1>5
  <2>3. object' \in Seq(Chunks)
    BY ONLY <1>2, <2>1, <2>2, WriteAtType, Zenon
  <2>4. LeasesLast => object' = SubSeq(file, 1, sent[a] + 1)
    BY <1>2, <1>3, <1>5, <2>1, WriteNext
  <2>5. sent' \in [Attempts -> Nat] /\ sent'[a] = sent[a] + 1
    BY <2>1, <2>2 DEF PayloadInv, PayloadTypeOK
  <2>6. fd'[a] \in FileIds /\ (LeasesLast => fd'[a] = bin /\ file = files[bin])
    BY <1>1, <1>2, <1>3 DEF file
  <2>7. pc' = [pc EXCEPT ![a] = "local"]
    BY <1>1, <2>1 DEF PayloadInv, PayloadTypeOK
  <2> QED
    BY <1>1, <1>4, <2>2, <2>3, <2>4, <2>5, <2>6, <2>7, UploadStepOf DEF Points
<1>6. CASE ~ (sent[a] < Len(file))
  <2>1. pc' = [pc EXCEPT ![a] = "report"] /\ UNCHANGED <<object, sent>>
    BY <1>6 DEF LocalCopy, Goto
  <2> HIDE DEF file
  <2>2. LeasesLast => object' = file
    <3>1. SubSeq(file, 1, Len(file)) = file
      BY <1>2, SubSeqFull
    <3>2. LeasesLast => sent[a] = Len(file)
      BY <1>2, <1>3, <1>6
    <3> QED BY <1>3, <2>1, <3>1, <3>2
  <2>3. LeasesLast => file = files[bin]
    BY <1>3 DEF file
  <2>4. sent' \in [Attempts -> Nat] /\ object' \in Seq(Chunks)
    BY <1>2, <2>1 DEF PayloadInv, PayloadTypeOK
  <2> QED
    BY <1>1, <1>4, <2>1, <2>2, <2>3, <2>4, UploadStepOf DEF Points
<1> QED
  BY <1>5, <1>6

LEMMA PutStep ==
    ASSUME PayloadInv, NEW a \in Attempts, Put(a)
    PROVE  PayloadInv'
<1>1. /\ pc[a] = "put" /\ object' = RequestBody(a) /\ pc' = [pc EXCEPT ![a] = "report"]
      /\ UNCHANGED <<job, source, changed, files, part, bin, existing, ranged, body, written, fd,
                     sum, declared, sent, session, uploaded, orphans, report>>
  BY DEF Put, Goto, diskVars, downVars, upVars
<1>2. RequestBody(a) \in Seq(Chunks)
  BY <1>1 DEF PayloadInv, PayloadTypeOK, OpenFiles, RequestBody
<1>3. LeasesLast => RequestBody(a) = files[bin]
  BY <1>1 DEF PayloadInv, UploadInv, RequestBody
<1>4. /\ declared' \in [Attempts -> Seq(Chunks)] /\ fd' \in [Attempts -> FileIds \cup {NoFile}]
      /\ sent' \in [Attempts -> Nat] /\ uploaded' \in [Attempts -> Seq(Chunks)]
      /\ session' \in [Attempts -> {"none", "open", "done"}] /\ session'[a] # "open"
      /\ \A b \in Attempts \ {a} : fd'[b] = fd[b] /\ session'[b] = session[b]
  BY <1>1 DEF PayloadInv, PayloadTypeOK, SessionInv
<1> QED
  BY <1>1, <1>2, <1>3, <1>4, UploadStepOf DEF Points

LEMMA InitiateStep ==
    ASSUME PayloadInv, NEW a \in Attempts, Initiate(a) \/ OpenSourceFails(a)
    PROVE  PayloadInv'
<1>1. /\ pc[a] = "initiate" /\ session' = [session EXCEPT ![a] = "open"]
      /\ UNCHANGED <<job, source, changed, files, part, bin, existing, ranged, body, written,
                     sum, declared, sent, object, orphans, report>>
  BY DEF Initiate, OpenSourceFails, diskVars, downVars, storeVars
<1>2. bin \in FileIds /\ files[bin] \in Seq(Chunks)
  BY <1>1 DEF PayloadInv, PayloadTypeOK, OpenFiles
<1>3. /\ declared' \in [Attempts -> Seq(Chunks)] /\ sent' \in [Attempts -> Nat]
      /\ session' \in [Attempts -> {"none", "open", "done"}] /\ object' \in Seq(Chunks)
      /\ \A b \in Attempts \ {a} : session'[b] = session[b]
  BY <1>1 DEF PayloadInv, PayloadTypeOK
<1>4. CASE Initiate(a)
  <2>1. /\ uploaded' = [uploaded EXCEPT ![a] = <<>>] /\ fd' = [fd EXCEPT ![a] = bin]
        /\ pc' = [pc EXCEPT ![a] = "parts"]
    BY <1>4 DEF Initiate, Goto
  <2>2. /\ uploaded' \in [Attempts -> Seq(Chunks)] /\ uploaded'[a] = <<>>
        /\ fd' \in [Attempts -> FileIds \cup {NoFile}] /\ fd'[a] = bin
        /\ \A b \in Attempts \ {a} : fd'[b] = fd[b]
    BY <1>2, <2>1, ChunkTypes DEF PayloadInv, PayloadTypeOK
  <2>3. LeasesLast => declared'[a] = files[bin] /\ sent'[a] = 0
    BY <1>1 DEF PayloadInv, UploadInv
  <2>4. 0 <= Len(files[bin]) /\ SubSeq(files[bin], 1, 0) = <<>>
    BY <1>2, SubSeqEmpty
  <2>5. LeasesLast => /\ fd'[a] = bin /\ declared'[a] = files[bin] /\ sent'[a] <= Len(files[bin])
                      /\ uploaded'[a] = SubSeq(files[bin], 1, sent'[a])
    BY <2>2, <2>3, <2>4
  <2> QED
    BY <1>1, <1>2, <1>3, <2>1, <2>2, <2>5, UploadStepOf DEF Points
<1>5. CASE OpenSourceFails(a)
  <2>1. pc' = [pc EXCEPT ![a] = "abort"] /\ UNCHANGED <<fd, uploaded>>
    BY <1>5 DEF OpenSourceFails, Goto
  <2>2. /\ uploaded' \in [Attempts -> Seq(Chunks)]
        /\ fd' \in [Attempts -> FileIds \cup {NoFile}]
        /\ \A b \in Attempts \ {a} : fd'[b] = fd[b]
    BY <2>1 DEF PayloadInv, PayloadTypeOK
  <2> QED
    BY <1>1, <1>3, <2>1, <2>2, UploadStepOf DEF Points
<1> QED
  BY <1>4, <1>5

LEMMA SendPartStep ==
    ASSUME PayloadInv, NEW a \in Attempts, SendPart(a)
    PROVE  PayloadInv'
<1> DEFINE file == files[fd[a]]
           n == sent[a]
           e == PartEnd(a)
<1>1. /\ pc[a] = "parts"
      /\ UNCHANGED <<job, source, changed, files, part, bin, existing, ranged, body, written, fd,
                     sum, declared, session, object, orphans, report>>
  BY DEF SendPart, diskVars, downVars, storeVars
<1>2. /\ fd[a] \in FileIds /\ file \in Seq(Chunks) /\ n \in Nat /\ Len(declared[a]) \in Nat
      /\ uploaded[a] \in Seq(Chunks)
  <2>1. /\ fd[a] \in FileIds /\ files \in [FileIds -> Seq(Chunks)] /\ sent[a] \in Nat
        /\ declared[a] \in Seq(Chunks) /\ uploaded[a] \in Seq(Chunks)
    BY <1>1 DEF PayloadInv, PayloadTypeOK, OpenFiles
  <2> QED BY <2>1
<1>3. LeasesLast => /\ fd[a] = bin /\ file = files[bin] /\ declared[a] = file
                    /\ n <= Len(file) /\ uploaded[a] = SubSeq(file, 1, n)
  BY <1>1 DEF PayloadInv, UploadInv
<1>4. /\ declared' \in [Attempts -> Seq(Chunks)] /\ fd' \in [Attempts -> FileIds \cup {NoFile}]
      /\ session' \in [Attempts -> {"none", "open", "done"}] /\ object' \in Seq(Chunks)
      /\ \A b \in Attempts \ {a} : fd'[b] = fd[b] /\ session'[b] = session[b]
      /\ fd'[a] \in FileIds
  BY <1>1, <1>2 DEF PayloadInv, PayloadTypeOK
<1>5. CASE n < Len(declared[a])
  <2>1. /\ e <= Len(file) /\ uploaded' = [uploaded EXCEPT ![a] = uploaded[a] \o SubSeq(file, n + 1, e)]
        /\ sent' = [sent EXCEPT ![a] = e] /\ pc' = pc
    BY <1>5 DEF SendPart
  <2>2. e \in Nat /\ n <= e /\ e <= Len(declared[a])
    BY <1>2, <1>5, PayloadAssumption DEF PayloadAssumption, PartEnd
  <2> HIDE DEF file, n, e
  <2>3. SubSeq(file, n + 1, e) \in Seq(Chunks)
    <3>1. \A i \in (n + 1)..e : file[i] \in Chunks
      BY <1>2, <2>1, <2>2
    <3> QED BY <1>2, <2>2, <3>1, SubSeqProperties
  <2>4. uploaded[a] \o SubSeq(file, n + 1, e) \in Seq(Chunks)
    BY <1>2, <2>3, ConcatProperties
  <2>5. LeasesLast => uploaded[a] \o SubSeq(file, n + 1, e) = SubSeq(file, 1, e)
    <3> SUFFICES ASSUME LeasesLast
                 PROVE  SubSeq(file, 1, n) \o SubSeq(file, n + 1, e) = SubSeq(file, 1, e)
      BY <1>3
    <3>1. n \in 1 - 1 .. e /\ 1 \in 1 .. Len(file) + 1 /\ e \in 1 - 1 .. Len(file)
      BY <1>2, <2>1, <2>2
    <3> QED BY <1>2, <3>1, ConcatAdjacentSubSeq
  <2>6. /\ sent' \in [Attempts -> Nat] /\ sent'[a] = e
        /\ uploaded' \in [Attempts -> Seq(Chunks)]
        /\ uploaded'[a] = uploaded[a] \o SubSeq(file, n + 1, e)
    BY <2>1, <2>2, <2>4 DEF PayloadInv, PayloadTypeOK
  <2>7. pc' = [pc EXCEPT ![a] = "parts"]
    BY <1>1, <2>1 DEF PayloadInv, PayloadTypeOK
  <2>8. LeasesLast => /\ fd'[a] = bin /\ declared'[a] = files[bin] /\ sent'[a] <= Len(files[bin])
                      /\ uploaded'[a] = SubSeq(files[bin], 1, sent'[a])
    BY <1>1, <1>3, <2>1, <2>5, <2>6
  <2> QED
    BY <1>1, <1>4, <2>6, <2>7, <2>8, UploadStepOf DEF Points
<1>6. CASE ~ (n < Len(declared[a]))
  <2>1. pc' = [pc EXCEPT ![a] = "complete"] /\ UNCHANGED <<uploaded, sent>>
    BY <1>6 DEF SendPart, Goto
  <2>2. sent' \in [Attempts -> Nat] /\ uploaded' \in [Attempts -> Seq(Chunks)]
    BY <2>1 DEF PayloadInv, PayloadTypeOK
  <2> HIDE DEF file
  <2>3. LeasesLast => /\ declared'[a] = files[bin] /\ sent'[a] = Len(files[bin])
                      /\ sent'[a] <= Len(files[bin])
                      /\ uploaded'[a] = SubSeq(files[bin], 1, sent'[a])
    BY <1>1, <1>2, <1>3, <1>6, <2>1
  <2> QED
    BY <1>1, <1>4, <2>1, <2>2, <2>3, UploadStepOf DEF Points
<1> QED
  BY <1>5, <1>6

LEMMA CompleteStep ==
    ASSUME PayloadInv, NEW a \in Attempts, Complete(a) \/ PartFails(a) \/ CompleteFails(a)
    PROVE  PayloadInv'
<1>1. /\ pc[a] \in {"parts", "complete"}
      /\ UNCHANGED <<job, source, changed, files, part, bin, existing, ranged, body, written, fd,
                     sum, declared, sent, uploaded, orphans, report>>
  BY DEF Complete, PartFails, CompleteFails, diskVars, downVars, upVars, storeVars
<1>2. /\ declared' \in [Attempts -> Seq(Chunks)] /\ sent' \in [Attempts -> Nat]
      /\ uploaded' \in [Attempts -> Seq(Chunks)] /\ fd' \in [Attempts -> FileIds \cup {NoFile}]
      /\ \A b \in Attempts \ {a} : fd'[b] = fd[b]
  BY <1>1 DEF PayloadInv, PayloadTypeOK
<1>3. /\ object' \in {object, uploaded[a]}
      /\ session' = session \/ session' = [session EXCEPT ![a] = "done"]
  BY DEF Complete, PartFails, CompleteFails, upVars, storeVars
<1>4. /\ object' \in Seq(Chunks) /\ session' \in [Attempts -> {"none", "open", "done"}]
      /\ \A b \in Attempts \ {a} : session'[b] = session[b]
  <2>1. /\ session \in [Attempts -> {"none", "open", "done"}]
        /\ object \in Seq(Chunks) /\ uploaded[a] \in Seq(Chunks)
    BY DEF PayloadInv, PayloadTypeOK
  <2> QED BY <1>3, <2>1
<1>5. CASE Complete(a)
  <2>1. /\ pc[a] = "complete" /\ object' = uploaded[a] /\ pc' = [pc EXCEPT ![a] = "report"]
        /\ session' = [session EXCEPT ![a] = "done"]
    BY <1>5 DEF Complete, Goto
  <2>2. session'[a] = "done"
    BY <2>1 DEF PayloadInv, PayloadTypeOK
  <2>3. LeasesLast => object' = files[bin]
    <3>1. files[bin] \in Seq(Chunks)
      BY <2>1 DEF PayloadInv, PayloadTypeOK, OpenFiles
    <3>2. SubSeq(files[bin], 1, Len(files[bin])) = files[bin]
      BY <3>1, SubSeqFull
    <3> QED BY <2>1, <3>2 DEF PayloadInv, UploadInv
  <2> QED
    BY <1>1, <1>2, <1>4, <2>1, <2>2, <2>3, UploadStepOf DEF Points
<1>6. CASE PartFails(a) \/ CompleteFails(a)
  <2>1. pc' = [pc EXCEPT ![a] = "abort"]
    BY <1>6 DEF PartFails, CompleteFails, Goto
  <2> QED
    BY <1>1, <1>2, <1>4, <2>1, UploadStepOf DEF Points
<1> QED
  BY <1>5, <1>6

LEMMA ReportStep ==
    ASSUME PayloadInv, NEW a \in Attempts, Report(a)
    PROVE  PayloadInv'
<1>1. /\ pc[a] = "report" /\ Ends(a) /\ session[a] # "open"
      /\ UNCHANGED <<job, source, changed, diskVars>> /\ object' = object
      /\ report' = [bytes |-> BytesOnDisk(a), sum |-> sum[a]]
  BY DEF Report, Returns, PayloadInv, SessionInv
<1>2. orphans' \subseteq {"initiate lost", "abort lost", "crash"}
  BY <1>1 DEF PayloadInv, PayloadTypeOK, SessionInv, Report, Returns
<1>3. report' \in [bytes : Nat, sum : Seq(Chunks)] /\ object' \in Seq(Chunks)
  <2>1. existing[a] \in Nat /\ written[a] \in Nat /\ sum[a] \in Seq(Chunks) /\ object \in Seq(Chunks)
    BY DEF PayloadInv, PayloadTypeOK
  <2>2. BytesOnDisk(a) \in Nat
    BY <2>1 DEF BytesOnDisk
  <2> QED BY <1>1, <2>1, <2>2
<1>4. ASSUME LeasesLast
      PROVE  DeliveredInv'
  <2>1. object = sum[a] /\ Checked(a)
    BY <1>1, <1>4 DEF PayloadInv, UploadInv
  <2>2. \A b \in Attempts : pc'[b] = "idle"
    BY <1>1, <1>4, Sole DEF Ends, PayloadInv, PayloadTypeOK
  <2>3. /\ object' = report'.sum
        /\ job'.expected # 0 => object' = Content(job'.expected)
        /\ job'.resume => report'.bytes = Len(object')
    BY <1>1, <2>1 DEF Checked
  <2> QED BY <2>2, <2>3 DEF DeliveredInv
<1> QED
  BY <1>1, <1>2, <1>3, <1>4, EndOf

-----------------------------------------------------------------------------
(* The invariant.                                                          *)

\* A job that is created satisfies it.
LEMMA PayloadInitial == PayloadInit => PayloadInv
<1> SUFFICES ASSUME PayloadInit PROVE PayloadInv
  OBVIOUS
<1>1. PayloadTypeOK
  BY ChunkTypes DEF PayloadInit, PayloadTypeOK, Points
<1>2. OpenFiles /\ SessionInv /\ Exclusive
  BY DEF PayloadInit, OpenFiles, SessionInv, Exclusive
<1>3. DeliveredInv /\ part = NoFile
  BY DEF PayloadInit, DeliveredInv, Completed
<1>4. \A a \in Attempts : DownloadInv(a) /\ UploadInv(a)
  BY DEF PayloadInit, DownloadInv, UploadInv
<1> QED
  BY <1>1, <1>2, <1>3, <1>4 DEF PayloadInv

\* The steps that end an attempt without a report.
LEMMA FailureSteps ==
    ASSUME PayloadInv, NEW a \in Attempts,
           \/ RequestFails(a) \/ RangeRefused(a) \/ CopyFails(a) \/ StepFails(a) \/ LocalFails(a)
           \/ PutFails(a) \/ InitiateFails(a) \/ Abort(a) \/ ReportLost(a)
    PROVE  PayloadInv'
<1>1. CASE RequestFails(a) \/ RangeRefused(a) \/ CopyFails(a) \/ StepFails(a) \/ LocalFails(a)
           \/ ReportLost(a)
  <2>1. /\ pc[a] \in {"request", "copy", "rename", "verify", "upload", "local", "report"}
        /\ Returns(a) /\ UNCHANGED <<job, source, changed, diskVars, report>> /\ object' = object
    BY <1>1 DEF RequestFails, RangeRefused, CopyFails, StepFails, LocalFails, ReportLost
  <2>2. pc[a] # "idle" /\ session[a] # "open" /\ object' \in Seq(Chunks)
    BY <2>1 DEF PayloadInv, PayloadTypeOK, SessionInv
  <2> QED BY <2>1, <2>2, ReturnOf
<1>2. CASE PutFails(a)
  <2>1. /\ pc[a] = "put" /\ Returns(a) /\ UNCHANGED <<job, source, changed, diskVars, report>>
        /\ object' \in {object, RequestBody(a)}
    BY <1>2 DEF PutFails
  <2>2. session[a] # "open"
    BY <2>1 DEF PayloadInv, SessionInv
  <2>3. object \in Seq(Chunks) /\ RequestBody(a) \in Seq(Chunks)
    BY <2>1 DEF PayloadInv, PayloadTypeOK, OpenFiles, RequestBody
  <2>4. pc[a] # "idle" /\ object' \in Seq(Chunks)
    BY <2>1, <2>3
  <2> QED BY <2>1, <2>2, <2>4, ReturnOf
<1>3. CASE InitiateFails(a) \/ Abort(a)
  <2>1. /\ pc[a] \in {"initiate", "abort"} /\ Ends(a)
        /\ UNCHANGED <<job, source, changed, diskVars>> /\ object' = object /\ report' = report
        /\ orphans' \subseteq orphans \cup {"initiate lost", "abort lost"}
    BY <1>3 DEF InitiateFails, Abort
  <2>2. orphans' \subseteq {"initiate lost", "abort lost", "crash"}
    BY <2>1 DEF PayloadInv, PayloadTypeOK, SessionInv
  <2>3. object' \in Seq(Chunks) /\ report' \in [bytes : Nat, sum : Seq(Chunks)]
    BY <2>1 DEF PayloadInv, PayloadTypeOK
  <2>4. LeasesLast => DeliveredInv'
    BY <2>1, Sole DEF DeliveredInv, Completed, NoReport
  <2> QED BY <2>1, <2>2, <2>3, <2>4, EndOf
<1> QED
  BY <1>1, <1>2, <1>3

\* The source changes, or the process dies and every attempt with it.
LEMMA EnvironmentSteps ==
    ASSUME PayloadInv, SourceChanges \/ Crash
    PROVE  PayloadInv'
<1>1. CASE SourceChanges
  <2>1. /\ source' \in Versions /\ changed' = TRUE
        /\ UNCHANGED <<job, files, part, bin, pc, existing, ranged, body, written, fd, sum,
                       declared, sent, session, uploaded, object, orphans, report>>
    BY <1>1 DEF SourceChanges, diskVars, attemptVars, downVars, upVars, storeVars
  <2>2. PayloadTypeOK'
    BY <2>1 DEF PayloadInv, PayloadTypeOK
  <2>3. OpenFiles' /\ SessionInv'
    BY <2>1 DEF PayloadInv, OpenFiles, SessionInv
  <2>4. ASSUME LeasesLast
        PROVE  Exclusive' /\ DeliveredInv' /\ (part' = NoFile \/ part' # bin')
    BY <2>1, <2>4 DEF PayloadInv, Exclusive, DeliveredInv, Completed, Content
  <2>5. ASSUME LeasesLast, NEW a \in Attempts
        PROVE  DownloadInv(a)' /\ UploadInv(a)'
    BY <2>1, <2>5 DEF PayloadInv, DownloadInv, UploadInv, Base, BytesOnDisk, Checked, Content
  <2> QED BY <2>2, <2>3, <2>4, <2>5 DEF PayloadInv
<1>2. CASE Crash
  <2>1. /\ pc' = [a \in Attempts |-> "idle"] /\ session' = [a \in Attempts |-> "none"]
        /\ UNCHANGED <<job, source, changed, files, part, bin, object, report>>
    BY <1>2 DEF Crash, diskVars
  <2>2. PayloadTypeOK'
    <3>1. /\ existing' \in [Attempts -> Nat] /\ written' \in [Attempts -> Nat]
          /\ sent' \in [Attempts -> Nat] /\ ranged' \in [Attempts -> BOOLEAN]
          /\ body' \in [Attempts -> Versions \cup {0}]
          /\ fd' \in [Attempts -> FileIds \cup {NoFile}]
      BY <1>2 DEF Crash
    <3>2. /\ sum' \in [Attempts -> Seq(Chunks)] /\ declared' \in [Attempts -> Seq(Chunks)]
          /\ uploaded' \in [Attempts -> Seq(Chunks)]
      BY <1>2, ChunkTypes DEF Crash
    <3>3. orphans' \subseteq {"returned", "initiate lost", "abort lost", "crash"}
      BY <1>2 DEF Crash, PayloadInv, PayloadTypeOK
    <3> QED BY <2>1, <3>1, <3>2, <3>3 DEF PayloadInv, PayloadTypeOK, Points
  <2>3. OpenFiles' /\ SessionInv' /\ Exclusive'
    BY <1>2, <2>1 DEF Crash, PayloadInv, OpenFiles, SessionInv, Exclusive
  <2>4. ASSUME LeasesLast
        PROVE  DeliveredInv' /\ (part' = NoFile \/ part' # bin')
    BY <1>2, <2>1, <2>4, Sole DEF Crash, PayloadInv, DeliveredInv, Completed, NoReport
  <2>5. \A a \in Attempts : DownloadInv(a)' /\ UploadInv(a)'
    BY <2>1 DEF DownloadInv, UploadInv
  <2> QED BY <2>2, <2>3, <2>4, <2>5 DEF PayloadInv
<1> QED
  BY <1>1, <1>2

\* Every step preserves it.
LEMMA PayloadStep == PayloadInv /\ [PayloadNext]_payloadVars => PayloadInv'
<1> SUFFICES ASSUME PayloadInv, [PayloadNext]_payloadVars
             PROVE  PayloadInv'
  OBVIOUS
<1>1. ASSUME NEW a \in Attempts, Works(a) \/ Breaks(a)
      PROVE  PayloadInv'
  <2>1. CASE BeginDownload(a) \/ Respond(a) \/ CopyChunk(a) \/ CopyEnds(a) \/ RenamePart(a)
             \/ Verify(a)
    BY <2>1, BeginDownloadStep, RespondStep, CopyChunkStep, CopyEndsStep, RenamePartStep, VerifyStep
  <2>2. CASE BeginUpload(a) \/ LocalCopy(a) \/ Put(a) \/ Initiate(a) \/ OpenSourceFails(a)
             \/ SendPart(a) \/ Complete(a) \/ PartFails(a) \/ CompleteFails(a) \/ Report(a)
    BY <2>2, BeginUploadStep, LocalCopyStep, PutStep, InitiateStep, SendPartStep, CompleteStep,
       ReportStep
  <2>3. CASE \/ RequestFails(a) \/ RangeRefused(a) \/ CopyFails(a) \/ StepFails(a) \/ LocalFails(a)
             \/ PutFails(a) \/ InitiateFails(a) \/ Abort(a) \/ ReportLost(a)
    BY <2>3, FailureSteps
  <2> QED
    BY <1>1, <2>1, <2>2, <2>3 DEF Works, Breaks
<1>2. CASE UNCHANGED payloadVars
  <2>1. UNCHANGED <<job, source, changed, files, part, bin, pc, existing, ranged, body, written,
                    fd, sum, declared, sent, session, uploaded, object, orphans, report>>
    BY <1>2 DEF payloadVars, diskVars, attemptVars, downVars, upVars, storeVars
  <2>2. PayloadTypeOK' /\ OpenFiles' /\ SessionInv'
    BY <2>1 DEF PayloadInv, PayloadTypeOK, OpenFiles, SessionInv
  <2>3. ASSUME LeasesLast
        PROVE  Exclusive' /\ DeliveredInv' /\ (part' = NoFile \/ part' # bin')
    BY <2>1, <2>3 DEF PayloadInv, Exclusive, DeliveredInv, Completed, Content
  <2>4. ASSUME LeasesLast, NEW a \in Attempts
        PROVE  DownloadInv(a)' /\ UploadInv(a)'
    BY <2>1, <2>4 DEF PayloadInv, DownloadInv, UploadInv, Base, BytesOnDisk, Checked, Content
  <2> QED BY <2>2, <2>3, <2>4 DEF PayloadInv
<1> QED
  BY <1>1, <1>2, EnvironmentSteps DEF PayloadNext

\* PayloadInv holds whatever the attempts, the source, the storage and the
\* Hub do (Executor.download, Executor.upload and the storage adapters).
THEOREM PayloadInvariance == PayloadSpec => []PayloadInv
  BY PayloadInitial, PayloadStep, PTL DEF PayloadSpec

\* The state of download and upload keeps its type.
THEOREM PayloadTypeCorrect == PayloadSpec => []PayloadTypeOK
<1>1. PayloadInv => PayloadTypeOK
  BY DEF PayloadInv
<1> QED
  BY <1>1, PayloadInvariance, PTL

\* The completed callback's checksum is the checksum of the object at the
\* destination, for each driver, part size and number of retries.
THEOREM PayloadDelivered == PayloadSpec => []ObjectMatchesReport
<1>1. PayloadInv => ObjectMatchesReport
  BY DEF PayloadInv, DeliveredInv, ObjectMatchesReport
<1> QED
  BY <1>1, PayloadInvariance, PTL

\* A job with an expected checksum is completed with that content only.
THEOREM ExpectedPayloadDelivered == PayloadSpec => []ExpectedContentDelivered
<1>1. PayloadInv => ExpectedContentDelivered
  BY DEF PayloadInv, DeliveredInv, ExpectedContentDelivered
<1> QED
  BY <1>1, PayloadInvariance, PTL

\* The size in the completed callback is the size of the object, for a job
\* that resumes.
THEOREM PayloadSizeReported == PayloadSpec => []ReportedSizeIsReal
<1>1. PayloadInv => ReportedSizeIsReal
  BY DEF PayloadInv, DeliveredInv, ReportedSizeIsReal
<1> QED
  BY <1>1, PayloadInvariance, PTL

\* multipartUpload returns only after it has completed its upload or tried
\* to abort it, with and without leases that last.
THEOREM MultipartClosed == PayloadSpec => []AbortOnError
<1>1. PayloadInv => AbortOnError
  BY DEF PayloadInv, SessionInv, AbortOnError
<1> QED
  BY <1>1, PayloadInvariance, PTL

\* What the completed callback says of the object, its checksum and its size, is
\* true of the object at the destination.
THEOREM CompletionTellsTruth == PayloadSpec => []DeliveredAsReported
<1>1. ObjectMatchesReport /\ ExpectedContentDelivered /\ ReportedSizeIsReal
         => DeliveredAsReported
  BY DEF DeliveredAsReported
<1> QED
  BY <1>1, PayloadDelivered, ExpectedPayloadDelivered, PayloadSizeReported, PTL
=============================================================================
