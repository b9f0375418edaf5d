------------------------ MODULE PayloadDownloadProofs ------------------------
(***************************************************************************)
(* The first half of the proof that PayloadInv is inductive: facts about   *)
(* files and chunks, what a step of one attempt leaves to show, and the    *)
(* steps of Executor.download.  PayloadProofs has the other half.          *)
(***************************************************************************)
EXTENDS TransferPayload, SequenceTheorems, FiniteSetTheorems, TLAPS

-----------------------------------------------------------------------------
(* Files.                                                                  *)

\* O_CREATE finds a file: there are more files than names and descriptors.
LEMMA FreshFile ==
    ASSUME fd \in [Attempts -> FileIds \cup {NoFile}]
    PROVE  Unused # {}
<1> DEFINE F == {fd[a] : a \in Attempts}
           n == Cardinality(Attempts)
<1>1. n \in Nat
  BY FS_CardinalityType, PayloadAssumption DEF PayloadAssumption
<1>2. fd \in Surjection(Attempts, F)
  BY DEF Surjection
<1>3. IsFiniteSet(F) /\ Cardinality(F) <= n
  <2>1. IsFiniteSet(Attempts)
    BY PayloadAssumption DEF PayloadAssumption
  <2> HIDE DEF F
  <2> QED BY <1>2, <2>1, FS_Surjection
<1>4. Cardinality(F) \in Nat
  BY <1>3, FS_CardinalityType
<1>5. IsFiniteSet(F \cup {part}) /\ Cardinality(F \cup {part}) \in 0..(n + 1)
  <2> HIDE DEF F
  <2> QED BY <1>1, <1>3, <1>4, FS_AddElement
<1>6. IsFiniteSet((F \cup {part}) \cup {bin}) /\ Cardinality((F \cup {part}) \cup {bin}) \in 0..(n + 2)
  <2> DEFINE G == F \cup {part}
  <2>1. IsFiniteSet(G) /\ Cardinality(G) \in 0..(n + 1)
    BY <1>5
  <2> HIDE DEF F, G
  <2>2. IsFiniteSet(G \cup {bin}) /\ Cardinality(G \cup {bin}) \in 0..(n + 2)
    BY <1>1, <2>1, FS_AddElement
  <2> QED BY <2>2 DEF G
<1>7. Cardinality(FileIds) = n + 3
  <2>1. 1 \in Int /\ n + 3 \in Int /\ ~ (1 > n + 3)
    BY <1>1
  <2> QED BY <1>1, <2>1, FS_Interval DEF FileIds
<1>8. SUFFICES ASSUME FileIds \subseteq (F \cup {part}) \cup {bin}
               PROVE  FALSE
  BY DEF Unused
<1>9. Cardinality(FileIds) <= Cardinality((F \cup {part}) \cup {bin})
  <2> HIDE DEF F
  <2> QED BY <1>6, <1>8, FS_Subset
<1> QED
  BY <1>1, <1>6, <1>7, <1>9

\* What a write at a position makes of a file.
LEMMA WriteAtType ==
    ASSUME NEW S, NEW file \in Seq(S), NEW k \in Nat \ {0}, NEW c \in S, Hole \in S
    PROVE  /\ WriteAt(file, k, c) \in Seq(S)
           /\ Len(WriteAt(file, k, c)) = IF k > Len(file) THEN k ELSE Len(file)
<1> DEFINE n == IF k > Len(file) THEN k ELSE Len(file)
           g == WriteAt(file, k, c)
<1>1. Len(file) \in Nat /\ \A i \in 1..Len(file) : file[i] \in S
  OBVIOUS
<1>2. n \in Nat
  BY <1>1
<1>3. \A i \in 1..n : (IF i = k THEN c ELSE IF i <= Len(file) THEN file[i] ELSE Hole) \in S
  BY <1>1, <1>2
<1>4. g \in [1..n -> S]
  BY <1>3 DEF WriteAt
<1>5. g \in Seq(S)
  <2> HIDE DEF g, n
  <2> QED BY <1>2, <1>4, SeqDef
<1>6. DOMAIN g = 1..n
  BY <1>4
<1>7. Len(g) = n
  <2> HIDE DEF g, n
  <2>1. DOMAIN g = 1..Len(g) /\ Len(g) \in Nat
    BY <1>5, LenProperties
  <2> QED BY <1>2, <1>6, <2>1
<1> QED
  BY <1>5, <1>7

\* A write just past the end of a prefix makes the prefix longer by one.
LEMMA WriteNext ==
    ASSUME NEW S, NEW file \in Seq(S), NEW k \in Nat, k < Len(file), Hole \in S
    PROVE  WriteAt(SubSeq(file, 1, k), k + 1, file[k + 1]) = SubSeq(file, 1, k + 1)
<1> DEFINE p == SubSeq(file, 1, k)
           q == SubSeq(file, 1, k + 1)
           w == WriteAt(p, k + 1, file[k + 1])
<1>1. Len(file) \in Nat /\ \A i \in 1..Len(file) : file[i] \in S
  OBVIOUS
<1>2. p \in Seq(S) /\ Len(p) = k /\ \A i \in 1..k : p[i] = file[i]
  <2>1. 1 \in Int /\ k \in Int /\ \A i \in 1..k : file[i] \in S
    BY <1>1
  <2> QED BY <2>1, SubSeqProperties
<1>3. q \in Seq(S) /\ Len(q) = k + 1 /\ \A i \in 1..(k + 1) : q[i] = file[i]
  <2>1. 1 \in Int /\ k + 1 \in Int /\ \A i \in 1..(k + 1) : file[i] \in S
    BY <1>1
  <2> QED BY <2>1, SubSeqProperties
<1>4. w \in Seq(S) /\ Len(w) = k + 1
  <2>1. file[k + 1] \in S /\ k + 1 \in Nat \ {0} /\ k + 1 > k
    BY <1>1
  <2> HIDE DEF p
  <2>2. /\ WriteAt(p, k + 1, file[k + 1]) \in Seq(S)
        /\ Len(WriteAt(p, k + 1, file[k + 1])) = IF k + 1 > Len(p) THEN k + 1 ELSE Len(p)
    <3>1. p \in Seq(S) /\ k + 1 \in Nat \ {0} /\ file[k + 1] \in S /\ Hole \in S
      BY <1>2, <2>1
    <3> QED BY ONLY <3>1, WriteAtType, ZenonT(60)
  <2> QED BY <1>2, <2>1, <2>2
<1>5. \A i \in 1..(k + 1) : w[i] = file[i]
  <2> HIDE DEF p
  <2> QED BY <1>2 DEF WriteAt
<1> HIDE DEF q, w
<1> QED
  BY <1>3, <1>4, <1>5, SeqEqual DEF q, w

-----------------------------------------------------------------------------
(* Frames: what a step of one attempt leaves to show.                      *)

\* The chunks a file can be made of.
LEMMA ChunkTypes ==
    /\ Hole \in Chunks
    /\ NoObject \in Seq(Chunks)
    /\ <<>> \in Seq(Chunks)
    /\ NoReport \in [bytes : Nat, sum : Seq(Chunks)]
    /\ \A v \in Versions \cup {0}, k \in Nat : <<v, k>> \in Chunks
<1>1. Hole \in Chunks
  BY DEF Hole, Chunks
<1>2. NoObject \in Seq(Chunks)
  BY <1>1 DEF NoObject
<1> QED
  BY <1>1, <1>2 DEF NoReport, Chunks

\* While the job is granted to one attempt at a time, an attempt that works
\* is the only one, and the Hub has not been told yet.
LEMMA Sole ==
    ASSUME PayloadInv, LeasesLast, NEW a \in Attempts, pc[a] # "idle"
    PROVE  /\ \A b \in Attempts \ {a} : pc[b] = "idle"
           /\ report = NoReport
  BY DEF PayloadInv, Exclusive, DeliveredInv, Completed

\* A step that moves one attempt and reports nothing has only the invariant
\* of that attempt to preserve.
LEMMA StepOf ==
    ASSUME NEW a \in Attempts, NEW q,
           pc \in [Attempts -> Points], pc' = [pc EXCEPT ![a] = q],
           LeasesLast => (\A b \in Attempts \ {a} : pc[b] = "idle") /\ report' = NoReport,
           PayloadTypeOK', OpenFiles', SessionInv',
           LeasesLast => /\ part' = NoFile \/ part' # bin'
                         /\ DownloadInv(a)'
                         /\ UploadInv(a)'
    PROVE  PayloadInv'
<1> SUFFICES ASSUME LeasesLast
             PROVE  /\ Exclusive' /\ DeliveredInv'
                    /\ \A b \in Attempts : DownloadInv(b)' /\ UploadInv(b)'
  BY DEF PayloadInv
<1>1. \A b \in Attempts \ {a} : pc'[b] = "idle"
  OBVIOUS
<1>2. Exclusive'
  BY <1>1 DEF Exclusive
<1>3. DeliveredInv'
  BY DEF DeliveredInv, Completed, NoReport
<1>4. ASSUME NEW b \in Attempts \ {a}
      PROVE  DownloadInv(b)' /\ UploadInv(b)'
  BY <1>1 DEF DownloadInv, UploadInv
<1> QED
  BY <1>2, <1>3, <1>4

\* The end of an attempt, with the report or without it.
LEMMA EndOf ==
    ASSUME PayloadInv, NEW a \in Attempts, pc[a] # "idle", Ends(a),
           UNCHANGED <<job, source, changed, diskVars>>,
           object' \in Seq(Chunks),
           orphans' \subseteq {"initiate lost", "abort lost", "crash"},
           report' \in [bytes : Nat, sum : Seq(Chunks)],
           LeasesLast => DeliveredInv'
    PROVE  PayloadInv'
<1>1. PayloadTypeOK'
  <2> USE ChunkTypes DEF PayloadInv, PayloadTypeOK, Ends, diskVars
  <2>1. /\ (job \in [driver : Drivers, resume : ResumeSettings, expected : ExpectedVersions])'
        /\ (source \in Versions)' /\ (changed \in BOOLEAN)'
        /\ (files \in [FileIds -> Seq(Chunks)])'
        /\ ({part, bin} \subseteq FileIds \cup {NoFile})'
    OBVIOUS
  <2>2. pc' \in [Attempts -> Points]
    BY DEF Points
  <2>3. ranged' \in [Attempts -> BOOLEAN]
    OBVIOUS
  <2>4. /\ existing' \in [Attempts -> Nat] /\ written' \in [Attempts -> Nat]
        /\ sent' \in [Attempts -> Nat]
        /\ body' \in [Attempts -> Versions \cup {0}]
        /\ fd' \in [Attempts -> FileIds \cup {NoFile}]
    OBVIOUS
  <2>5. /\ sum' \in [Attempts -> Seq(Chunks)] /\ declared' \in [Attempts -> Seq(Chunks)]
        /\ uploaded' \in [Attempts -> Seq(Chunks)]
        /\ session' \in [Attempts -> {"none", "open", "done"}]
    OBVIOUS
  <2>6. (orphans \subseteq {"returned", "initiate lost", "abort lost", "crash"})'
    OBVIOUS
  <2> QED BY <2>1, <2>2, <2>3, <2>4, <2>5, <2>6
<1>2. pc'[a] = "idle" /\ \A b \in Attempts \ {a} : pc'[b] = pc[b]
  BY DEF PayloadInv, PayloadTypeOK, Ends
<1>3. OpenFiles'
  BY <1>2 DEF PayloadInv, PayloadTypeOK, OpenFiles, Ends, diskVars
<1>4. SessionInv'
  BY <1>2 DEF PayloadInv, PayloadTypeOK, SessionInv, Ends
<1>5. ASSUME LeasesLast
      PROVE  /\ Exclusive'
             /\ part' = NoFile \/ part' # bin'
             /\ \A b \in Attempts : DownloadInv(b)' /\ UploadInv(b)'
  <2>1. \A b \in Attempts : pc'[b] = "idle"
    BY <1>2, <1>5, Sole
  <2>2. Exclusive'
    BY <2>1 DEF Exclusive
  <2>3. part' = NoFile \/ part' # bin'
    BY <1>5 DEF PayloadInv, diskVars
  <2> QED
    BY <2>1, <2>2, <2>3 DEF DownloadInv, UploadInv
<1> QED
  BY <1>1, <1>3, <1>4, <1>5 DEF PayloadInv

\* An attempt that returns without having told the Hub.
LEMMA ReturnOf ==
    ASSUME PayloadInv, NEW a \in Attempts, pc[a] # "idle", session[a] # "open", Returns(a),
           UNCHANGED <<job, source, changed, diskVars, report>>,
           object' \in Seq(Chunks)
    PROVE  PayloadInv'
<1>1. orphans' \subseteq {"initiate lost", "abort lost", "crash"}
  BY DEF PayloadInv, PayloadTypeOK, SessionInv, Returns
<1>2. LeasesLast => DeliveredInv'
  BY Sole DEF DeliveredInv, Completed, NoReport
<1>3. Ends(a) /\ report' \in [bytes : Nat, sum : Seq(Chunks)]
  BY DEF Returns, PayloadInv, PayloadTypeOK
<1>4. UNCHANGED <<job, source, changed, diskVars>>
  BY DEF diskVars
<1> QED
  BY <1>1, <1>2, <1>3, <1>4, EndOf

-----------------------------------------------------------------------------
(* The steps of download.                                                  *)

LEMMA BeginDownloadStep ==
    ASSUME PayloadInv, NEW a \in Attempts, BeginDownload(a)
    PROVE  PayloadInv'
<1> DEFINE n == SizeOfName(part)
<1>1. n \in Nat /\ (part # NoFile => n = Len(files[part])) /\ (part = NoFile => n = 0)
  <2>1. files \in [FileIds -> Seq(Chunks)] /\ part \in FileIds \cup {NoFile}
    BY DEF PayloadInv, PayloadTypeOK
  <2>2. part # NoFile => Len(files[part]) \in Nat
    BY <2>1
  <2> QED BY <2>2 DEF SizeOfName
<1>2. job.resume \in BOOLEAN
  BY PayloadAssumption DEF PayloadAssumption, PayloadInv, PayloadTypeOK
<1> HIDE DEF n
<1>3. /\ existing' = [existing EXCEPT ![a] = n]
      /\ ranged' = [ranged EXCEPT ![a] = (job.resume /\ n > 0)]
      /\ pc' = [pc EXCEPT ![a] = "request"]
      /\ UNCHANGED <<job, source, changed, files, part, bin, body, written, fd, sum,
                     declared, sent, session, uploaded, object, orphans, report>>
  BY DEF BeginDownload, ResumeFromFile, Goto, diskVars, upVars, storeVars, n
<1>4. ranged' \in [Attempts -> BOOLEAN]
  BY <1>3 DEF PayloadInv, PayloadTypeOK
<1>5. PayloadTypeOK'
  BY <1>1, <1>3, <1>4 DEF PayloadInv, PayloadTypeOK, Points
<1>6. OpenFiles' /\ SessionInv'
  BY <1>3, ZenonT(60) DEF PayloadInv, PayloadTypeOK, OpenFiles, SessionInv, BeginDownload
<1>7. LeasesLast => (\A b \in Attempts \ {a} : pc[b] = "idle") /\ report' = NoReport
  BY <1>3 DEF BeginDownload
<1>8. ASSUME LeasesLast
      PROVE  (part' = NoFile \/ part' # bin') /\ DownloadInv(a)' /\ UploadInv(a)'
  <2>1. pc'[a] = "request" /\ existing'[a] = n /\ ranged'[a] = (job.resume /\ n > 0)
    BY <1>3 DEF PayloadInv, PayloadTypeOK
  <2>2. /\ ranged'[a] => part' # NoFile /\ Len(files'[part']) = existing'[a]
        /\ job'.resume /\ ~ ranged'[a] => existing'[a] = 0
    <3>1. (n > 0 => part # NoFile) /\ (~ (n > 0) => n = 0)
      BY <1>1
    <3> QED BY <1>1, <1>3, <2>1, <3>1, Zenon
  <2>3. DownloadInv(a)'
    BY <2>1, <2>2 DEF DownloadInv
  <2>4. UploadInv(a)'
    BY <2>1 DEF UploadInv
  <2> QED BY <1>3, <1>8, <2>3, <2>4 DEF PayloadInv
<1> QED
  BY <1>3, <1>5, <1>6, <1>7, <1>8, StepOf DEF PayloadInv, PayloadTypeOK

LEMMA RespondStep ==
    ASSUME PayloadInv, NEW a \in Attempts, Respond(a)
    PROVE  PayloadInv'
<1>1. PICK f \in FileIds :
        /\ part = NoFile => f \in Unused
        /\ part # NoFile => f = part
        /\ part' = f /\ fd' = [fd EXCEPT ![a] = f]
        /\ files' = IF ranged[a] /\ part # NoFile THEN files ELSE [files EXCEPT ![f] = <<>>]
  <2>1. (CHOOSE g \in Unused : TRUE) \in Unused /\ Unused \subseteq FileIds
    BY FreshFile DEF PayloadInv, PayloadTypeOK, Unused
  <2> QED BY <2>1 DEF Respond, OpenPart, PayloadInv, PayloadTypeOK
<1>2. /\ pc[a] = "request" /\ pc' = [pc EXCEPT ![a] = "copy"]
      /\ body' = [body EXCEPT ![a] = source] /\ written' = [written EXCEPT ![a] = 0]
      /\ UNCHANGED <<job, source, changed, bin, existing, ranged, sum, declared, sent, session,
                     uploaded, object, orphans, report>>
  BY DEF Respond, Goto, upVars, storeVars
<1>3. files' \in [FileIds -> Seq(Chunks)]
  BY <1>1, ChunkTypes DEF PayloadInv, PayloadTypeOK
<1>4. PayloadTypeOK'
  BY <1>1, <1>2, <1>3 DEF PayloadInv, PayloadTypeOK, Points
<1>5. OpenFiles' /\ SessionInv'
  BY <1>1, <1>2 DEF PayloadInv, PayloadTypeOK, OpenFiles, SessionInv
<1>6. ASSUME LeasesLast
      PROVE  (part' = NoFile \/ part' # bin') /\ DownloadInv(a)' /\ UploadInv(a)'
  <2>1. /\ pc'[a] = "copy" /\ existing'[a] = existing[a] /\ ranged'[a] = ranged[a]
        /\ written'[a] = 0 /\ fd'[a] = f
    BY <1>1, <1>2 DEF PayloadInv, PayloadTypeOK
  <2>2. part' # bin'
    BY <1>1, <1>2, <1>6 DEF PayloadInv, Unused
  <2>3. existing[a] \in Nat /\ (ranged[a] => part # NoFile /\ Len(files[part]) = existing[a])
    BY <1>2, <1>6 DEF PayloadInv, PayloadTypeOK, DownloadInv
  <2>4. Len(files'[part']) = IF ranged[a] THEN existing[a] ELSE 0
    BY <1>1, <2>3 DEF PayloadInv, PayloadTypeOK
  <2>5. job.resume /\ ~ ranged[a] => existing[a] = 0
    BY <1>2, <1>6 DEF PayloadInv, DownloadInv
  <2>6. DownloadInv(a)'
    BY <1>1, <1>2, <2>1, <2>3, <2>4, <2>5 DEF DownloadInv, Base
  <2>7. UploadInv(a)'
    BY <2>1 DEF UploadInv
  <2> QED BY <2>2, <2>6, <2>7
<1> QED
  BY <1>2, <1>4, <1>5, <1>6, StepOf, Sole DEF PayloadInv, PayloadTypeOK

LEMMA CopyChunkStep ==
    ASSUME PayloadInv, NEW a \in Attempts, CopyChunk(a)
    PROVE  PayloadInv'
<1> DEFINE file == files[fd[a]]
           c == <<body[a], NextChunk(a)>>
           new == IF ranged[a] THEN Append(file, c) ELSE WriteAt(file, written[a] + 1, c)
<1>1. /\ pc[a] = "copy" /\ files' = [files EXCEPT ![fd[a]] = new]
      /\ written' = [written EXCEPT ![a] = written[a] + 1]
      /\ UNCHANGED <<job, source, changed, part, bin, pc, existing, ranged, body, fd, sum,
                     declared, sent, session, uploaded, object, orphans, report>>
  BY DEF CopyChunk, upVars, storeVars
<1>2. /\ fd[a] \in FileIds /\ file \in Seq(Chunks) /\ written[a] \in Nat /\ existing[a] \in Nat
      /\ c \in Chunks
  <2>1. fd[a] \in FileIds /\ written[a] \in Nat /\ existing[a] \in Nat
        /\ body[a] \in Versions \cup {0}
    BY <1>1 DEF PayloadInv, PayloadTypeOK, OpenFiles
  <2>2. NextChunk(a) \in Nat
    BY <2>1 DEF NextChunk
  <2> QED BY <2>1, <2>2, ChunkTypes DEF PayloadInv, PayloadTypeOK
<1>3. /\ new \in Seq(Chunks)
      /\ (ranged[a] \/ Len(file) = written[a]) => Len(new) = Len(file) + 1
  <2> HIDE DEF file, c
  <2>1. written[a] + 1 \in Nat \ {0} /\ Hole \in Chunks /\ Len(file) \in Nat
    BY <1>2, ChunkTypes
  <2>2. /\ WriteAt(file, written[a] + 1, c) \in Seq(Chunks)
        /\ Len(WriteAt(file, written[a] + 1, c))
              = IF written[a] + 1 > Len(file) THEN written[a] + 1 ELSE Len(file)
    BY ONLY <1>2, <2>1, WriteAtType, ZenonT(60)
  <2>3. Append(file, c) \in Seq(Chunks) /\ Len(Append(file, c)) = Len(file) + 1
    BY <1>2
  <2> QED BY <1>2, <2>1, <2>2, <2>3
<1> HIDE DEF new
<1>4. PayloadTypeOK'
  <2>1. files' \in [FileIds -> Seq(Chunks)]
    BY <1>1, <1>2, <1>3 DEF PayloadInv, PayloadTypeOK
  <2>2. written' \in [Attempts -> Nat]
    <3>1. written \in [Attempts -> Nat]
      BY DEF PayloadInv, PayloadTypeOK
    <3> QED BY ONLY <1>1, <3>1, a \in Attempts
  <2> QED BY <1>1, <2>1, <2>2 DEF PayloadInv, PayloadTypeOK
<1>5. OpenFiles' /\ SessionInv'
  BY <1>1 DEF PayloadInv, OpenFiles, SessionInv
<1>6. ASSUME LeasesLast
      PROVE  (part' = NoFile \/ part' # bin') /\ DownloadInv(a)' /\ UploadInv(a)'
  <2>1. /\ fd[a] = part /\ Len(file) = Base(a) + written[a]
        /\ job.resume /\ ~ ranged[a] => existing[a] = 0
    BY <1>1, <1>6 DEF PayloadInv, DownloadInv
  <2>2. files'[part'] = new /\ written'[a] = written[a] + 1
    BY <1>1, <1>2, <2>1 DEF PayloadInv, PayloadTypeOK
  <2>3. Len(new) = Base(a) + written[a] + 1
    BY <1>2, <1>3, <2>1 DEF Base
  <2>4. DownloadInv(a)'
    BY <1>1, <1>2, <2>1, <2>2, <2>3 DEF DownloadInv, Base
  <2>5. UploadInv(a)'
    BY <1>1 DEF UploadInv
  <2> QED BY <1>1, <1>6, <2>4, <2>5 DEF PayloadInv
<1>7. pc' = [pc EXCEPT ![a] = "copy"]
  BY <1>1 DEF PayloadInv, PayloadTypeOK
<1> QED
  BY <1>1, <1>4, <1>5, <1>6, <1>7, StepOf, Sole DEF PayloadInv, PayloadTypeOK

LEMMA CopyEndsStep ==
    ASSUME PayloadInv, NEW a \in Attempts, CopyEnds(a)
    PROVE  PayloadInv'
<1>1. pc[a] = "copy" /\ UNCHANGED <<job, source, changed, files, part, bin, object, report>>
  BY DEF CopyEnds, diskVars
<1>2. CASE Returns(a)
  BY <1>1, <1>2, ReturnOf DEF diskVars, PayloadInv, PayloadTypeOK, SessionInv
<1>3. CASE Goto(a, "rename") /\ UNCHANGED <<downVars, fd, sum, upVars, orphans>>
  <2>1. /\ pc' = [pc EXCEPT ![a] = "rename"]
        /\ UNCHANGED <<existing, ranged, body, written, fd, sum, declared, sent, session,
                       uploaded, orphans>>
    BY <1>3 DEF Goto, downVars, upVars
  <2>2. PayloadTypeOK'
    BY <1>1, <2>1 DEF PayloadInv, PayloadTypeOK, Points
  <2>3. OpenFiles' /\ SessionInv'
    BY <1>1, <2>1 DEF PayloadInv, PayloadTypeOK, OpenFiles, SessionInv
  <2>4. ASSUME LeasesLast
        PROVE  (part' = NoFile \/ part' # bin') /\ DownloadInv(a)' /\ UploadInv(a)'
    <3>1. /\ Len(files[part]) = Base(a) + written[a]
          /\ job.resume /\ ~ ranged[a] => existing[a] = 0
      BY <1>1, <2>4 DEF PayloadInv, DownloadInv
    <3>2. job.resume => Len(files[part]) = existing[a] + written[a]
      BY <3>1 DEF Base
    <3>3. pc'[a] = "rename"
      BY <2>1 DEF PayloadInv, PayloadTypeOK
    <3>4. DownloadInv(a)'
      BY <1>1, <2>1, <3>2, <3>3 DEF DownloadInv, BytesOnDisk
    <3>5. UploadInv(a)'
      BY <3>3 DEF UploadInv
    <3> QED BY <1>1, <2>4, <3>4, <3>5 DEF PayloadInv
  <2> QED
    BY <1>1, <2>1, <2>2, <2>3, <2>4, StepOf, Sole DEF PayloadInv, PayloadTypeOK
<1> QED
  BY <1>2, <1>3 DEF CopyEnds

LEMMA RenamePartStep ==
    ASSUME PayloadInv, NEW a \in Attempts, RenamePart(a)
    PROVE  PayloadInv'
<1>1. pc[a] = "rename" /\ UNCHANGED <<job, source, changed, object, report>>
  BY DEF RenamePart
<1>2. CASE part = NoFile
  <2>1. Returns(a) /\ UNCHANGED diskVars
    BY <1>2 DEF RenamePart
  <2> QED BY <1>1, <2>1, ReturnOf DEF PayloadInv, PayloadTypeOK, SessionInv
<1>3. CASE part # NoFile
  <2>1. /\ part \in FileIds /\ bin' = part /\ part' = NoFile
        /\ files' = IF bin = NoFile \/ \E b \in Attempts : fd[b] = bin THEN files
                    ELSE [files EXCEPT ![bin] = <<>>]
        /\ pc' = [pc EXCEPT ![a] = "verify"] /\ fd' = [fd EXCEPT ![a] = NoFile]
        /\ UNCHANGED <<existing, ranged, body, written, sum, declared, sent, session,
                       uploaded, orphans>>
    BY <1>3 DEF RenamePart, Goto, downVars, upVars, PayloadInv, PayloadTypeOK
  <2>2. files' \in [FileIds -> Seq(Chunks)] /\ (part # bin => files'[part] = files[part])
    BY <2>1, ChunkTypes DEF PayloadInv, PayloadTypeOK
  <2>3. PayloadTypeOK'
    BY <1>1, <2>1, <2>2 DEF PayloadInv, PayloadTypeOK, Points
  <2>4. OpenFiles' /\ SessionInv'
    BY <1>1, <2>1 DEF PayloadInv, PayloadTypeOK, OpenFiles, SessionInv
  <2>5. ASSUME LeasesLast
        PROVE  (part' = NoFile \/ part' # bin') /\ DownloadInv(a)' /\ UploadInv(a)'
    <3>1. part # bin /\ (job.resume => Len(files[part]) = BytesOnDisk(a))
      BY <1>1, <1>3, <2>5 DEF PayloadInv, DownloadInv
    <3>2. pc'[a] = "verify"
      BY <2>1 DEF PayloadInv, PayloadTypeOK
    <3>3. DownloadInv(a)'
      BY <1>1, <2>1, <2>2, <3>1, <3>2 DEF DownloadInv, BytesOnDisk
    <3>4. UploadInv(a)'
      BY <3>2 DEF UploadInv
    <3> QED BY <2>1, <3>3, <3>4
  <2> QED
    BY <1>1, <2>1, <2>3, <2>4, <2>5, StepOf, Sole DEF PayloadInv, PayloadTypeOK
<1> QED
  BY <1>2, <1>3

LEMMA VerifyStep ==
    ASSUME PayloadInv, NEW a \in Attempts, Verify(a)
    PROVE  PayloadInv'
<1>1. pc[a] = "verify" /\ UNCHANGED <<job, source, changed, files, part, bin, object, report>>
  BY DEF Verify, diskVars
<1>2. CASE Returns(a)
  BY <1>1, <1>2, ReturnOf DEF diskVars, PayloadInv, PayloadTypeOK, SessionInv
<1>3. CASE /\ job.expected # 0 => files[bin] = Content(job.expected)
           /\ sum' = [sum EXCEPT ![a] = files[bin]]
           /\ Goto(a, "upload")
           /\ UNCHANGED <<downVars, fd, upVars, orphans>>
  <2>1. /\ pc' = [pc EXCEPT ![a] = "upload"]
        /\ UNCHANGED <<existing, ranged, body, written, fd, declared, sent, session,
                       uploaded, orphans>>
    BY <1>3 DEF Goto, downVars, upVars
  <2>2. files[bin] \in Seq(Chunks)
    BY <1>1 DEF PayloadInv, PayloadTypeOK, OpenFiles
  <2>3. PayloadTypeOK'
    BY <1>1, <1>3, <2>1, <2>2 DEF PayloadInv, PayloadTypeOK, Points
  <2>4. OpenFiles' /\ SessionInv'
    BY <1>1, <2>1 DEF PayloadInv, PayloadTypeOK, OpenFiles, SessionInv
  <2>5. ASSUME LeasesLast
        PROVE  (part' = NoFile \/ part' # bin') /\ DownloadInv(a)' /\ UploadInv(a)'
    <3>1. job.resume => Len(files[bin]) = BytesOnDisk(a)
      BY <1>1, <2>5 DEF PayloadInv, DownloadInv
    <3>2. pc'[a] = "upload" /\ sum'[a] = files[bin]
      BY <1>3, <2>1 DEF PayloadInv, PayloadTypeOK
    <3>3. DownloadInv(a)'
      BY <3>2 DEF DownloadInv
    <3>4. Checked(a)'
      BY <1>1, <1>3, <2>1, <3>1, <3>2 DEF Checked, BytesOnDisk, Content
    <3>5. UploadInv(a)'
      BY <1>1, <3>2, <3>4 DEF UploadInv
    <3> QED BY <1>1, <2>5, <3>3, <3>5 DEF PayloadInv
  <2> QED
    BY <1>1, <2>1, <2>3, <2>4, <2>5, StepOf, Sole DEF PayloadInv, PayloadTypeOK
<1> QED
  BY <1>2, <1>3 DEF Verify
=============================================================================
