------------------------- MODULE StorReceiverProofs -------------------------
(***************************************************************************)
(* StorReceiver for every value of its constants.  The first part shows    *)
(* what the control of a command is (ControlInv: types, threads, session), *)
(* the second what the temp file holds (DataInv).  Together they are       *)
(* InductiveInv, from which the safety properties follow.                  *)
(***************************************************************************)
EXTENDS StorReceiver, FiniteSetTheorems, TLAPS

-----------------------------------------------------------------------------
(* Facts about the operators of TransferSession *)

(* AnyId is a transfer id. *)
LEMMA AnyIdType == AnyId \in Ids
BY SessionAssumption DEF AnyId

(* A fresh temp file is an image. *)
LEMMA EmptyImageType == EmptyImage \in Image
BY SessionAssumption DEF EmptyImage, Image

(* ChecksumComputer yields a checksum of the chunk, never "no record". *)
LEMMA ChunkSumType ==
  ASSUME NEW image \in Image, NEW c \in Chunks
  PROVE  ChunkSum(image, c) \in Sums(c) /\ ChunkSum(image, c) # NoRecord
BY SessionAssumption DEF ChunkSum, Sums, Image, ChunkRange

(* An empty record list is a record list. *)
LEMMA NoRecordsType == NoRecords \in Records
BY DEF NoRecords, Records

(* A record list with a checksum added (recordVerifiedChunk) is one. *)
LEMMA RecordAddedType ==
  ASSUME NEW records \in Records, NEW c \in Chunks, NEW sum \in Sums(c)
  PROVE  [records EXCEPT ![c] = sum] \in Records
<1>1. sum \in AnySum
  BY DEF AnySum
<1>2. [records EXCEPT ![c] = sum] \in [Chunks -> AnySum \cup {NoRecord}]
  BY <1>1 DEF Records
<1>3. \A d \in Chunks : [records EXCEPT ![c] = sum][d] \in Sums(d) \cup {NoRecord}
  BY DEF Records
<1> QED
  BY <1>2, <1>3 DEF Records

(* A record list with some records dropped (verifyTempChunks) is one. *)
LEMMA RecordsDroppedType ==
  ASSUME NEW records \in Records, NEW dropped
  PROVE  [c \in Chunks |-> IF c \in dropped THEN NoRecord ELSE records[c]] \in Records
BY DEF Records

(* createNew leaves a session. *)
LEMMA CreateNewType == \A i \in Ids : CreateNew(i) \in Sessions
BY NoRecordsType DEF CreateNew, Sessions

(* Before its SessionInit the server has no session. *)
LEMMA NoSessionType == NoSession \in Sessions /\ ~NoSession.open
BY AnyIdType, NoRecordsType DEF NoSession, CreateNew, Sessions

(* resume opens a session from any manifest. *)
LEMMA ResumeType == \A m \in Manifests : Resume(m) \in Sessions /\ Resume(m).open
BY DEF Resume, Manifests, Sessions

(* save leaves a session. *)
LEMMA SavedType ==
  \A session \in Sessions : Saved(session) \in Sessions
BY DEF Saved, Sessions

(* recordVerifiedChunk leaves a session. *)
LEMMA RecordVerifiedType ==
  ASSUME NEW session \in Sessions, NEW c \in Chunks, NEW sum \in Sums(c)
  PROVE  RecordVerifiedChunk(session, c, sum) \in Sessions
<1> DEFINE added == [session.records EXCEPT ![c] = sum]
<1>1. added \in Records
  BY RecordAddedType DEF Sessions
<1>2. session.dirty + 1 \in Nat
  BY DEF Sessions
<1> HIDE DEF added
<1>3. [session EXCEPT !.records = added, !.dirty = session.dirty + 1] \in Sessions
  BY <1>1, <1>2 DEF Sessions
<1> QED
  BY <1>3 DEF RecordVerifiedChunk, added

(* verifyTempChunks leaves a session. *)
LEMMA DropRecordsType ==
  ASSUME NEW session \in Sessions, NEW dropped
  PROVE  DropRecords(session, dropped) \in Sessions
<1> DEFINE kept == [c \in Chunks |-> IF c \in dropped THEN NoRecord ELSE session.records[c]]
<1>1. kept \in Records
  BY RecordsDroppedType DEF Sessions
<1>2. (session.removed \/ dropped # {}) \in BOOLEAN
  OBVIOUS
<1> HIDE DEF kept
<1>3. [session EXCEPT !.records = kept, !.removed = session.removed \/ dropped # {}] \in Sessions
  BY <1>1, <1>2 DEF Sessions
<1> QED
  BY <1>3 DEF DropRecords, kept

(* save changes the dirty count only. *)
LEMMA SavedFields ==
  ASSUME NEW session \in Sessions
  PROVE  /\ Saved(session).open = session.open
         /\ Saved(session).id = session.id
         /\ Saved(session).records = session.records
         /\ Saved(session).loaded = session.loaded
         /\ Saved(session).removed = session.removed
BY DEF Saved, Sessions

(* recordVerifiedChunk adds the record and nothing else of note. *)
LEMMA RecordVerifiedFields ==
  ASSUME NEW session \in Sessions, NEW c \in Chunks, NEW sum \in Sums(c)
  PROVE  /\ RecordVerifiedChunk(session, c, sum).open = session.open
         /\ RecordVerifiedChunk(session, c, sum).id = session.id
         /\ RecordVerifiedChunk(session, c, sum).records = [session.records EXCEPT ![c] = sum]
<1>1. session.records \in [Chunks -> AnySum \cup {NoRecord}]
  BY DEF Sessions, Records
<1>2. session.records[c] = sum => session.records = [session.records EXCEPT ![c] = sum]
  BY <1>1
<1> QED
  BY <1>2 DEF RecordVerifiedChunk, Sessions

(* verifyTempChunks drops records and nothing else of note. *)
LEMMA DropRecordsFields ==
  ASSUME NEW session \in Sessions, NEW dropped
  PROVE  /\ DropRecords(session, dropped).open = session.open
         /\ DropRecords(session, dropped).id = session.id
         /\ DropRecords(session, dropped).records =
              [c \in Chunks |-> IF c \in dropped THEN NoRecord ELSE session.records[c]]
BY DEF DropRecords, Sessions

(* Dropping at least the corrupt records leaves nothing corrupt. *)
LEMMA KeptIsClean ==
  ASSUME NEW session \in Sessions, NEW image, NEW dropped,
         CorruptRecords(session, image) \subseteq dropped
  PROVE  CorruptRecords(DropRecords(session, dropped), image) = {}
<1> DEFINE kept == DropRecords(session, dropped).records
<1>1. kept = [c \in Chunks |-> IF c \in dropped THEN NoRecord ELSE session.records[c]]
  BY DropRecordsFields
<1> HIDE DEF kept
<1>2. ASSUME NEW c \in Recorded(kept) PROVE ChunkSum(image, c) = kept[c]
  <2>1. c \in Chunks /\ c \notin dropped /\ kept[c] = session.records[c]
    BY <1>1, <1>2 DEF Recorded
  <2>2. c \in Recorded(session.records)
    BY <1>2, <2>1 DEF Recorded
  <2> QED
    BY <2>1, <2>2 DEF CorruptRecords
<1> QED
  BY <1>2 DEF CorruptRecords, kept

(* The manifest that save writes. *)
LEMMA ManifestOfType ==
  \A session \in Sessions : \A state \in ManifestStates :
     ManifestOf(session, state) \in Manifests
BY DEF ManifestOf, Sessions, Manifests

(* A temp file with some blocks overwritten is an image. *)
LEMMA OverlayType ==
  ASSUME NEW image \in Image, NEW acc \in Image, NEW lo, NEW hi
  PROVE  Overlay(image, acc, lo, hi) \in Image
BY DEF Overlay, Image

(* A chunk in progress is a connection state. *)
LEMMA ChunkType ==
  ASSUME NEW a \in BOOLEAN, NEW c \in Chunks \cup {0}, NEW start \in Nat,
         NEW next \in Nat, NEW flushed \in Nat, NEW acc \in Image
  PROVE  Chunk(a, c, start, next, flushed, acc) \in InChunk
BY DEF Chunk, InChunk

(* Between two chunks a connection is well typed. *)
LEMMA NoChunkType == NoChunk \in InChunk
BY EmptyImageType DEF NoChunk, Chunk, InChunk

-----------------------------------------------------------------------------
(* Type correctness *)

(* The facts of TypeOK that relate the block counters of a connection. *)
Counters == \A s \in Streams : /\ rx[s].start <= rx[s].flushed
                               /\ rx[s].flushed <= rx[s].next
                               /\ rx[s].next <= TotalBlocks

(* What Exit leaves of the process is well typed. *)
LEMMA ExitType ==
  ASSUME TypeOK, NEW how \in {"ok", "failed", "killed"}, Exit(how)
  PROVE  /\ phase' \in Phases
         /\ sess' \in Sessions
         /\ conn' \in [Streams -> Conns]
         /\ rx' \in [Streams -> InChunk]
         /\ outcome' \in {"none", "ok", "failed", "killed", "rejected"}
         /\ Counters'
<1>1. conn' \in [Streams -> Conns]
  BY DEF Exit, Closed, Conns
<1>2. rx' \in [Streams -> InChunk]
  BY NoChunkType DEF Exit
<1>3. Counters'
  BY SessionAssumption DEF Exit, Counters, NoChunk, Chunk
<1> QED
  BY <1>1, <1>2, <1>3, NoSessionType DEF Exit, Phases

(* Sending a status frame to the open connections. *)
LEMMA FrameToAllType ==
  ASSUME TypeOK, NEW kind \in {"Error", "Complete"}
  PROVE  FrameToAll(kind) \in [Streams -> {"none", "Error", "Complete"}]
BY DEF FrameToAll, TypeOK

(* Writing blocks lo .. hi-1 of a connection keeps the temp files images. *)
LEMMA WriteType ==
  ASSUME TypeOK, NEW acc \in Image, NEW lo, NEW hi, Write(acc, lo, hi),
         temp[sess.id] # NoFile
  PROVE  temp' \in [Ids -> Image \cup {NoFile}]
<1>1. temp[sess.id] \in Image
  BY DEF TypeOK, Sessions
<1>2. Overlay(temp[sess.id], acc, lo, hi) \in Image
  BY <1>1, OverlayType
<1> QED
  BY <1>2 DEF Write, TypeOK

-----------------------------------------------------------------------------
(* Control: types, the connections' life cycle and the phases are preserved  *)
(* by every action.                                                          *)

ControlInv == TypeOK /\ ConnInv /\ PhaseInv

(* The first state satisfies ControlInv. *)
LEMMA ControlInit == Init => ControlInv
<1> SUFFICES ASSUME Init PROVE ControlInv
  OBVIOUS
<1>1. TypeOK
  <2>1. /\ phase \in Phases /\ opts \in Options /\ initBy \in Streams
        /\ outcome = "none" /\ faults \in Nat
    BY DEF Init, Phases
  <2>2. sess \in Sessions /\ conn \in [Streams -> Conns] /\ rx \in [Streams -> InChunk]
    BY NoSessionType, NoChunkType DEF Init, Closed, Conns
  <2>3. /\ resp \in [Streams -> [known : BOOLEAN, missing : SUBSET Chunks]]
        /\ final \in [Streams -> {"none", "Error", "Complete"}]
    BY DEF Init, NoReply
  <2>4. output \in Image \cup {NoFile} /\ temp \in [Ids -> Image \cup {NoFile}]
    BY ReceiverAssumption DEF Init
  <2>5. manifest \in Manifests
    BY AnyIdType, NoRecordsType DEF Init, NoManifest, Manifests, ManifestStates
  <2>6. Counters
    BY SessionAssumption DEF Init, Counters, NoChunk, Chunk
  <2> QED
    BY <2>1, <2>2, <2>3, <2>4, <2>5, <2>6 DEF TypeOK, Counters
<1>2. ConnInv
  BY NoSessionType DEF Init, ConnInv, Closed, NoChunk, Chunk
<1>3. PhaseInv
  BY NoSessionType DEF Init, PhaseInv, Committing
<1> QED
  BY <1>1, <1>2, <1>3 DEF ControlInv

(* validateServerOutputState admits or rejects a server. *)
LEMMA StartControl ==
  ASSUME ControlInv, NEW o \in Options, StartServer(o) \/ RejectServer(o)
  PROVE  ControlInv'
<1>1. CASE StartServer(o)
  <2>1. TypeOK'
    BY <1>1 DEF ControlInv, TypeOK, StartServer, NoReply, disk, Phases
  <2>2. ConnInv'
    BY <1>1 DEF ControlInv, ConnInv, StartServer, disk
  <2>3. PhaseInv'
    BY <1>1 DEF ControlInv, ConnInv, PhaseInv, StartServer, OutputStateValid, disk, Committing, Committed
  <2> QED
    BY <2>1, <2>2, <2>3 DEF ControlInv
<1>2. CASE RejectServer(o)
  <2>1. TypeOK'
    BY <1>2 DEF ControlInv, TypeOK, RejectServer, NoReply, disk, process
  <2>2. ConnInv'
    BY <1>2 DEF ControlInv, ConnInv, RejectServer, disk, process
  <2>3. PhaseInv'
    BY <1>2 DEF ControlInv, ConnInv, PhaseInv, RejectServer, disk, process, Committing, Committed
  <2> QED
    BY <2>1, <2>2, <2>3 DEF ControlInv
<1> QED
  BY <1>1, <1>2

(* A connection is accepted. *)
LEMMA AcceptControl ==
  ASSUME ControlInv, NEW s \in Streams, Accept(s)
  PROVE  ControlInv'
<1>1. TypeOK'
  BY DEF ControlInv, TypeOK, Accept, Conns, replies, disk
<1>2. ConnInv'
  BY DEF ControlInv, TypeOK, Conns, ConnInv, Accept, disk
<1>3. PhaseInv'
  BY DEF ControlInv, PhaseInv, Accept, disk, Committing, Committed
<1> QED
  BY <1>1, <1>2, <1>3 DEF ControlInv

(* Every step into the failing phase: it may have changed the temp file, the *)
(* records and the manifest, but neither opened nor closed anything.         *)
LEMMA FailControl ==
  ASSUME ControlInv,
         phase \notin {"down", "complete"},
         phase' = "failing",
         final' \in [Streams -> {"none", "Error", "Complete"}],
         UNCHANGED <<opts, initBy, conn, rx, resp, outcome>>,
         output' = output,
         sess' \in Sessions, sess'.open = sess.open,
         temp' \in [Ids -> Image \cup {NoFile}],
         \/ manifest' = manifest
         \/ manifest' \in Manifests /\ sess.open /\ manifest'.state = "Transferring",
         faults' \in Nat
  PROVE  ControlInv'
<1>1. TypeOK'
  BY DEF ControlInv, TypeOK, Phases
<1>2. ConnInv'
  BY DEF ControlInv, ConnInv
<1>3. PhaseInv'
  BY DEF ControlInv, PhaseInv, Committing, Committed
<1> QED
  BY <1>1, <1>2, <1>3 DEF ControlInv

(* A handler refuses what it was sent, or the event loop fails. *)
LEMMA RefuseControl ==
  ASSUME ControlInv, NEW s \in Streams,
         \/ \E init \in Inits : InitRejected(s, init)
         \/ \E c \in Chunks, p \in Positions : RefuseData(s, c, p)
         \/ \E c \in Chunks : RefuseChunk(s, c)
         \/ ConnectionFails(s)
         \/ LoopFails
  PROVE  ControlInv'
<1>1. /\ phase = "serving"
      /\ phase' = "failing"
      /\ final' \in {final, FrameToAll("Error")}
      /\ UNCHANGED <<opts, sess, initBy, conn, rx, resp, outcome, output, temp, manifest>>
  BY DEF InitRejected, RefuseData, RefuseChunk, ConnectionFails, LoopFails,
         Receiving, Abort, disk, replies
<1>2. faults' \in Nat
  BY DEF InitRejected, RefuseData, RefuseChunk, ConnectionFails, LoopFails,
         Fault, ControlInv, TypeOK
<1>3. final' \in [Streams -> {"none", "Error", "Complete"}]
  BY <1>1, FrameToAllType DEF ControlInv, TypeOK
<1>4. sess' \in Sessions /\ temp' \in [Ids -> Image \cup {NoFile}]
  BY <1>1 DEF ControlInv, TypeOK
<1> QED
  BY <1>1, <1>2, <1>3, <1>4, FailControl

(* The missing chunks sent in a ResumeResponse are chunks of the plan. *)
LEMMA MissingType ==
  ASSUME NEW records PROVE Missing(records) \in SUBSET Chunks
BY DEF Missing

(* A SessionInit that joins the open session. *)
LEMMA InitJoinsControl ==
  ASSUME ControlInv, NEW s \in Streams, NEW init \in Inits, InitJoins(s, init)
  PROVE  ControlInv'
<1>1. CASE RespondFails
  <2>1. /\ phase = "serving"
        /\ phase' = "failing"
        /\ final' = FrameToAll("Error")
        /\ UNCHANGED <<opts, sess, initBy, conn, rx, resp, outcome, output, temp, manifest, faults>>
    BY <1>1 DEF RespondFails, Abort, InitJoins, Receiving, disk
  <2> QED
    BY <2>1, FailControl, FrameToAllType DEF ControlInv, TypeOK
<1>2. CASE Respond(s)
  <2>1. /\ phase = "serving" /\ phase' = "serving"
        /\ sess.open /\ conn[s].open /\ ~conn[s].fin
        /\ conn' = [conn EXCEPT ![s].ready = TRUE]
        /\ resp' = [resp EXCEPT ![s] = [known |-> TRUE, missing |-> Missing(sess.records)]]
        /\ UNCHANGED <<opts, sess, initBy, rx, final, outcome, output, temp, manifest, faults>>
    BY <1>2 DEF InitJoins, Respond, Receiving, Continue, disk
  <2>2. TypeOK'
    BY <2>1, MissingType DEF ControlInv, TypeOK, Conns
  <2>3. ConnInv'
    BY <2>1 DEF ControlInv, TypeOK, Conns, ConnInv
  <2>4. PhaseInv'
    BY <2>1 DEF ControlInv, PhaseInv, Committing, Committed
  <2> QED
    BY <2>2, <2>3, <2>4 DEF ControlInv
<1> QED
  BY <1>1, <1>2 DEF InitJoins

(* A SessionInit that opens the session. *)
LEMMA InitOpensControl ==
  ASSUME ControlInv, NEW s \in Streams, NEW init \in Inits, InitOpens(s, init)
  PROVE  ControlInv'
<1>1. /\ phase = "serving" /\ phase' = "open" /\ ~sess.open
      /\ initBy' = s /\ conn[s].open
      /\ sess' = IF init.resume THEN Resume(manifest) ELSE CreateNew(init.id)
      /\ UNCHANGED <<opts, conn, rx, resp, final, outcome, output, temp, manifest, faults>>
  BY DEF InitOpens, Receiving, replies, disk
<1>2. sess' \in Sessions /\ sess'.open
  <2>1. CreateNew(init.id) \in Sessions /\ CreateNew(init.id).open
    BY CreateNewType DEF CreateNew, Inits
  <2> QED
    BY <1>1, <2>1, ResumeType DEF ControlInv, TypeOK
<1>3. ~Committed
  BY <1>1 DEF InitOpens, InitAcceptable, LoadedManifestValid, ControlInv, PhaseInv, Committed
<1>4. TypeOK'
  BY <1>1, <1>2 DEF ControlInv, TypeOK, Phases
<1>5. ConnInv'
  BY <1>1, <1>2 DEF ControlInv, ConnInv
<1>6. PhaseInv'
  BY <1>1, <1>2, <1>3 DEF ControlInv, PhaseInv, Committing, Committed
<1> QED
  BY <1>4, <1>5, <1>6 DEF ControlInv

(* openOutputForSession. *)
LEMMA OpenOutputControl ==
  ASSUME ControlInv, OpenOutput
  PROVE  ControlInv'
<1>1. /\ phase = "open" /\ sess.open
      /\ UNCHANGED <<opts, sess, initBy, conn, rx, resp, outcome, output, manifest>>
  BY DEF OpenOutput, ControlInv, PhaseInv, Committing
<1>2. sess \in Sessions /\ sess.id \in Ids
  BY DEF ControlInv, TypeOK, Sessions
<1>3. CreateTemp => temp' \in [Ids -> Image \cup {NoFile}] /\ temp'[sess.id] # NoFile
  BY <1>2, EmptyImageType, SessionAssumption DEF CreateTemp, ControlInv, TypeOK
<1>4. CASE phase' = "failing"
  <2>1. faults' \in Nat
    BY DEF OpenOutput, Fault, ControlInv, TypeOK
  <2>2. temp' \in [Ids -> Image \cup {NoFile}]
    BY <1>3 DEF OpenOutput, ControlInv, TypeOK
  <2>3. final' = FrameToAll("Error")
    BY <1>4 DEF OpenOutput, Continue, Abort
  <2> QED
    BY <1>1, <1>2, <1>4, <2>1, <2>2, <2>3, FailControl, FrameToAllType DEF ControlInv
<1>5. CASE phase' # "failing"
  <2>1. /\ phase' \in {"precheck", "save"}
        /\ temp' \in [Ids -> Image \cup {NoFile}]
        /\ temp'[sess.id] # NoFile
        /\ UNCHANGED <<final, faults>>
    BY <1>3, <1>5 DEF OpenOutput, Continue, Abort, ControlInv, TypeOK
  <2>2. TypeOK'
    BY <1>1, <2>1 DEF ControlInv, TypeOK, Phases
  <2>3. ConnInv'
    BY <1>1, <2>1 DEF ControlInv, ConnInv
  <2>4. PhaseInv'
    BY <1>1, <2>1 DEF ControlInv, PhaseInv, Committing, Committed
  <2> QED
    BY <2>2, <2>3, <2>4 DEF ControlInv
<1> QED
  BY <1>4, <1>5

(* A session that was saved, or verified and saved, or verified only, and    *)
(* what that does to the manifest.                                           *)
LEMMA SaveControl ==
  ASSUME ControlInv, sess.open, phase \notin {"down", "complete"},
         NEW session \in Sessions, session.open, session.id = sess.id,
         Save(session, "Transferring") \/ SaveFails(session)
  PROVE  /\ sess' \in Sessions /\ sess'.open /\ sess'.id = sess.id
         /\ sess'.records = session.records
         /\ manifest' \in Manifests
         /\ manifest' = manifest \/ manifest'.state = "Transferring"
         /\ manifest'.state # "Committed"
         /\ faults' \in Nat
<1>1. manifest \in Manifests /\ faults \in Nat /\ manifest.state # "Committed"
  BY DEF ControlInv, TypeOK, PhaseInv, Committed
<1>2. ManifestOf(session, "Transferring") \in Manifests
  BY ManifestOfType DEF ManifestStates
<1>3. ManifestOf(session, "Transferring").state = "Transferring"
  BY DEF ManifestOf
<1> QED
  BY <1>1, <1>2, <1>3, SavedType, SavedFields DEF Save, SaveFails, Fault

(* A step of the receiver that stays clear of the temp and output files and  *)
(* moves on to a phase that the session's state allows.                      *)
LEMMA AdvanceControl ==
  ASSUME ControlInv, sess.open,
         phase \in {"precheck", "finalVerify", "flush", "exists"},
         \/ phase = "precheck" /\ phase' = "save"
         \/ phase # "precheck" /\ phase' \in {"flush", "exists", "rename"},
         phase' = "rename" => output = NoFile \/ opts.overwrite,
         UNCHANGED <<opts, initBy, conn, rx, resp, final, outcome, output, temp>>,
         sess' \in Sessions, sess'.open, sess'.id = sess.id,
         manifest' \in Manifests, manifest'.state # "Committed",
         faults' \in Nat
  PROVE  ControlInv'
<1>1. TypeOK'
  BY DEF ControlInv, TypeOK, Phases
<1>2. ConnInv'
  BY DEF ControlInv, ConnInv
<1>3. PhaseInv'
  BY DEF ControlInv, PhaseInv, Committing, Committed
<1> QED
  BY <1>1, <1>2, <1>3 DEF ControlInv

(* verifyTempChunks, in the precheck of a resume and in the full final       *)
(* verification: what it leaves of the session has nothing corrupt.          *)
LEMMA VerifyTempStep ==
  ASSUME ControlInv, Precheck \/ FullVerify
  PROVE  /\ phase \in {"precheck", "finalVerify"} /\ sess.open
         /\ UNCHANGED <<opts, initBy, conn, rx, resp, outcome, output, temp>>
         /\ sess' \in Sessions /\ sess'.open /\ sess'.id = sess.id
         /\ CorruptRecords(sess', temp[sess.id]) = {}
         /\ manifest' \in Manifests
         /\ manifest' = manifest \/ (manifest'.state = "Transferring" /\ manifest'.id = sess.id)
         /\ manifest'.state # "Committed"
         /\ faults' \in Nat
<1> DEFINE corrupt == CorruptRecords(sess, temp[sess.id])
<1>1. /\ phase \in {"precheck", "finalVerify"} /\ sess.open
      /\ UNCHANGED <<opts, initBy, conn, rx, resp, outcome, output, temp>>
  BY DEF Precheck, FullVerify, ControlInv, PhaseInv, Committing
<1>2. /\ sess \in Sessions /\ manifest \in Manifests /\ manifest.state # "Committed"
      /\ faults \in Nat
  BY <1>1 DEF ControlInv, TypeOK, PhaseInv, Committed
<1>3. \/ corrupt = {} /\ UNCHANGED <<sess, manifest, faults>>
      \/ \E dropped :
           /\ corrupt \subseteq dropped
           /\ \/ sess' = Saved(DropRecords(sess, dropped))
              \/ sess' = DropRecords(sess, dropped)
           /\ \/ manifest' = ManifestOf(DropRecords(sess, dropped), "Transferring")
              \/ manifest' = manifest
           /\ faults' = faults \/ Fault
  BY DEF Precheck, FullVerify, VerifyTemp, Save, SaveFails
<1>4. CASE corrupt = {} /\ UNCHANGED <<sess, manifest, faults>>
  BY <1>1, <1>2, <1>4
<1>5. ASSUME NEW dropped, corrupt \subseteq dropped,
             \/ sess' = Saved(DropRecords(sess, dropped))
             \/ sess' = DropRecords(sess, dropped),
             \/ manifest' = ManifestOf(DropRecords(sess, dropped), "Transferring")
             \/ manifest' = manifest,
             faults' = faults \/ Fault
      PROVE  /\ sess' \in Sessions /\ sess'.open /\ sess'.id = sess.id
             /\ CorruptRecords(sess', temp[sess.id]) = {}
             /\ manifest' \in Manifests
             /\ manifest' = manifest \/ (manifest'.state = "Transferring" /\ manifest'.id = sess.id)
             /\ manifest'.state # "Committed"
             /\ faults' \in Nat
  <2> DEFINE kept == DropRecords(sess, dropped)
  <2>1. /\ kept \in Sessions /\ kept.open /\ kept.id = sess.id
        /\ CorruptRecords(kept, temp[sess.id]) = {}
    BY <1>1, <1>2, <1>5, DropRecordsType, DropRecordsFields, KeptIsClean
  <2>2. sess' = Saved(kept) \/ sess' = kept
    BY <1>5
  <2>3. manifest' = ManifestOf(kept, "Transferring") \/ manifest' = manifest
    BY <1>5
  <2> HIDE DEF kept
  <2>4. /\ sess' \in Sessions /\ sess'.open /\ sess'.id = sess.id
        /\ sess'.records = kept.records
    BY <2>1, <2>2, SavedType, SavedFields
  <2>5. CorruptRecords(sess', temp[sess.id]) = {}
    BY <2>1, <2>4 DEF CorruptRecords
  <2>6. /\ manifest' \in Manifests
        /\ manifest' = manifest \/ (manifest'.state = "Transferring" /\ manifest'.id = sess.id)
        /\ manifest'.state # "Committed"
    <3>1. ManifestOf(kept, "Transferring") \in Manifests
      BY <2>1, ManifestOfType DEF ManifestStates
    <3>2. /\ ManifestOf(kept, "Transferring").state = "Transferring"
          /\ ManifestOf(kept, "Transferring").id = sess.id
      BY <2>1 DEF ManifestOf
    <3> QED
      BY <1>2, <2>3, <3>1, <3>2
  <2>7. faults' \in Nat
    BY <1>2, <1>5 DEF Fault
  <2> QED
    BY <2>4, <2>5, <2>6, <2>7
<1> QED
  BY <1>1, <1>3, <1>4, <1>5

(* The precheck of a resume and the full final verification. *)
LEMMA VerifyTempControl ==
  ASSUME ControlInv, Precheck \/ FullVerify
  PROVE  ControlInv'
<1>1. /\ phase \in {"precheck", "finalVerify"} /\ sess.open
      /\ UNCHANGED <<opts, initBy, conn, rx, resp, outcome, output, temp>>
      /\ sess' \in Sessions /\ sess'.open /\ sess'.id = sess.id
      /\ manifest' \in Manifests
      /\ manifest' = manifest \/ manifest'.state = "Transferring"
      /\ manifest'.state # "Committed"
      /\ faults' \in Nat
  BY VerifyTempStep
<1>2. \/ phase' = "failing" /\ final' = FrameToAll("Error")
      \/ phase = "precheck" /\ phase' = "save" /\ final' = final
      \/ phase = "finalVerify" /\ phase' = "flush" /\ final' = final
  BY DEF Precheck, FullVerify, VerifyTemp, Continue, Abort
<1>3. CASE phase' = "failing"
  BY <1>1, <1>2, <1>3, FailControl, FrameToAllType DEF ControlInv, TypeOK
<1>4. CASE phase' # "failing"
  BY <1>1, <1>2, <1>4, AdvanceControl
<1> QED
  BY <1>3, <1>4

(* The saves of flushManifest before the commit. *)
LEMMA FlushControl ==
  ASSUME ControlInv, SkipVerify \/ FlushManifest
  PROVE  ControlInv'
<1>1. /\ phase \in {"finalVerify", "flush"} /\ sess.open
      /\ UNCHANGED <<opts, initBy, conn, rx, resp, outcome, output, temp>>
      /\ Save(sess, "Transferring") \/ SaveFails(sess)
  BY DEF SkipVerify, FlushManifest, FlushManifestThen, ControlInv, PhaseInv, Committing
<1>2. sess \in Sessions
  BY DEF ControlInv, TypeOK
<1>3. /\ sess' \in Sessions /\ sess'.open /\ sess'.id = sess.id
      /\ manifest' \in Manifests
      /\ manifest' = manifest \/ manifest'.state = "Transferring"
      /\ manifest'.state # "Committed"
      /\ faults' \in Nat
  BY <1>1, <1>2, SaveControl
<1>4. \/ phase' = "failing" /\ final' = FrameToAll("Error")
      \/ phase' \in {"flush", "exists"} /\ final' = final
  BY DEF SkipVerify, FlushManifest, FlushManifestThen, Continue, Abort
<1>5. CASE phase' = "failing"
  BY <1>1, <1>3, <1>4, <1>5, FailControl, FrameToAllType DEF ControlInv, TypeOK
<1>6. CASE phase' # "failing"
  BY <1>1, <1>3, <1>4, <1>6, AdvanceControl
<1> QED
  BY <1>5, <1>6

(* The save at the end of initializeSession and its ResumeResponse. *)
LEMMA SaveInitControl ==
  ASSUME ControlInv, SaveInit
  PROVE  ControlInv'
<1>1. /\ phase = "save" /\ sess.open
      /\ UNCHANGED <<opts, initBy, rx, outcome, output, temp>>
      /\ Save(sess, "Transferring") \/ SaveFails(sess)
  BY DEF SaveInit, ControlInv, PhaseInv
<1>2. sess \in Sessions /\ initBy \in Streams
  BY DEF ControlInv, TypeOK
<1>3. /\ sess' \in Sessions /\ sess'.open /\ sess'.id = sess.id
      /\ manifest' \in Manifests
      /\ manifest' = manifest \/ manifest'.state = "Transferring"
      /\ manifest'.state # "Committed"
      /\ faults' \in Nat
  BY <1>1, <1>2, SaveControl
<1>4. CASE phase' = "failing"
  <2>1. UNCHANGED <<conn, resp>> /\ final' = FrameToAll("Error")
    BY <1>4 DEF SaveInit, Respond, RespondFails, Continue, Abort
  <2> QED
    BY <1>1, <1>3, <1>4, <2>1, FailControl, FrameToAllType DEF ControlInv, TypeOK
<1>5. CASE phase' # "failing"
  <2>1. /\ phase' = "serving" /\ final' = final
        /\ conn' = [conn EXCEPT ![initBy].ready = TRUE]
        /\ resp' = [resp EXCEPT ![initBy] = [known |-> TRUE, missing |-> Missing(sess.records)]]
    BY <1>5 DEF SaveInit, Respond, RespondFails, Continue, Abort
  <2>2. TypeOK'
    BY <1>1, <1>2, <1>3, <2>1, MissingType DEF ControlInv, TypeOK, Conns, Phases
  <2>3. ConnInv'
    BY <1>1, <1>2, <1>3, <2>1 DEF ControlInv, TypeOK, Conns, ConnInv
  <2>4. PhaseInv'
    BY <1>1, <1>3, <2>1 DEF ControlInv, PhaseInv, Committing, Committed
  <2> QED
    BY <2>2, <2>3, <2>4 DEF ControlInv
<1> QED
  BY <1>4, <1>5

(* DATA, ChunkComplete, FIN *)

(* What a connection that receives data can rely on. *)
LEMMA ReceivingFacts ==
  ASSUME ControlInv, NEW s \in Streams, Receiving(s), conn[s].ready
  PROVE  /\ phase = "serving" /\ sess.open /\ sess \in Sessions /\ sess.id \in Ids
         /\ temp \in [Ids -> Image \cup {NoFile}]
         /\ temp[sess.id] \in Image /\ temp[sess.id] # NoFile
         /\ rx \in [Streams -> InChunk] /\ rx[s].acc \in Image
         /\ rx[s].start \in Nat /\ rx[s].flushed \in Nat /\ rx[s].next \in Nat
         /\ rx[s].start <= rx[s].flushed /\ rx[s].flushed <= rx[s].next
         /\ rx[s].next <= TotalBlocks
<1>1. phase = "serving" /\ sess.open /\ sess \in Sessions /\ sess.id \in Ids
  BY DEF ControlInv, TypeOK, Sessions, ConnInv, Receiving
<1>2. rx[s] \in InChunk
  BY DEF ControlInv, TypeOK
<1> QED
  BY <1>1, <1>2 DEF ControlInv, TypeOK, PhaseInv, InChunk

(* The chunk that a DATA frame continues or starts. *)
LEMMA CurrentFacts ==
  ASSUME ControlInv, NEW s \in Streams, NEW c \in Chunks, NEW p \in Positions,
         Receiving(s), DataAcceptable(s, c, p)
  PROVE  LET k == Current(s, c, p)
         IN /\ k.start \in Nat /\ k.flushed \in Nat /\ k.acc \in Image
            /\ k.start <= k.flushed /\ k.flushed <= p
            /\ k.next = p
            /\ p \in Nat /\ p + 1 <= TotalBlocks
<1>1. p \in Nat /\ p + 1 <= TotalBlocks
  BY SessionAssumption DEF Positions
<1>2. CASE rx[s].active
  BY <1>1, <1>2, ReceivingFacts DEF Current, DataAcceptable
<1>3. CASE ~rx[s].active
  BY <1>1, <1>3, EmptyImageType DEF Current, DataAcceptable, Chunk
<1> QED
  BY <1>2, <1>3

(* One more block in a chunk's image. *)
LEMMA BlockType ==
  ASSUME NEW acc \in Image, NEW p \in Positions, NEW v \in Content
  PROVE  [acc EXCEPT ![p] = v] \in Image
BY DEF Image

(* processDataPayload keeps or flushes one more block. *)
LEMMA AcceptDataControl ==
  ASSUME ControlInv, NEW s \in Streams, NEW c \in Chunks, NEW p \in Positions,
         NEW v \in Content, AcceptData(s, c, p, v)
  PROVE  ControlInv'
<1> DEFINE k == Current(s, c, p)
           acc == [k.acc EXCEPT ![p] = v]
<1>1. /\ Receiving(s) /\ DataAcceptable(s, c, p)
      /\ UNCHANGED <<phase, opts, sess, initBy, conn, resp, final, outcome,
                     output, manifest, faults>>
  BY DEF AcceptData, replies
<1>2. /\ k.start \in Nat /\ k.flushed \in Nat /\ k.acc \in Image
      /\ k.start <= k.flushed /\ k.flushed <= p
      /\ p \in Nat /\ p + 1 <= TotalBlocks
  BY <1>1, CurrentFacts
<1>3. acc \in Image
  BY <1>2, BlockType
<1>4. PICK f \in {k.flushed, p, p + 1} :
        /\ rx' = [rx EXCEPT ![s] = Chunk(TRUE, c, k.start, p + 1, f, acc)]
        /\ Write(acc, k.flushed, f)
  BY DEF AcceptData
<1> HIDE DEF acc, k
<1>5. /\ conn[s].ready /\ conn[s].open /\ ~conn[s].fin /\ phase = "serving"
      /\ temp[sess.id] # NoFile /\ sess.id \in Ids
  BY <1>1, ReceivingFacts DEF DataAcceptable, Receiving
<1>6. temp' \in [Ids -> Image \cup {NoFile}]
  BY <1>3, <1>4, <1>5, WriteType DEF ControlInv
<1>7. temp'[sess.id] # NoFile
  <2>1. temp[sess.id] \in Image
    BY <1>5 DEF ControlInv, TypeOK
  <2>2. Overlay(temp[sess.id], acc, k.flushed, f) \in Image
    BY <1>3, <2>1, OverlayType
  <2> QED
    BY <1>4, <1>5, <2>2, SessionAssumption DEF Write, ControlInv, TypeOK
<1>8. f \in Nat /\ k.flushed <= f /\ f <= p + 1 /\ k.start <= f
  BY <1>2
<1>9. Chunk(TRUE, c, k.start, p + 1, f, acc) \in InChunk
  <2>1. c \in Chunks \cup {0} /\ p + 1 \in Nat
    BY <1>2
  <2> QED
    BY <1>2, <1>3, <1>8, <2>1 DEF Chunk, InChunk
<1>10. TypeOK'
  <2>1. rx' \in [Streams -> InChunk]
    BY <1>4, <1>9 DEF ControlInv, TypeOK
  <2>2. Counters'
    BY <1>2, <1>4, <1>8 DEF Counters, ControlInv, TypeOK, Chunk
  <2> QED
    BY <1>1, <1>6, <2>1, <2>2 DEF ControlInv, TypeOK, Counters
<1>11. ConnInv'
  BY <1>1, <1>4, <1>5 DEF ControlInv, TypeOK, ConnInv, Chunk
<1>12. PhaseInv'
  BY <1>1, <1>5, <1>7 DEF ControlInv, PhaseInv, Committing, Committed
<1> QED
  BY <1>10, <1>11, <1>12 DEF ControlInv

(* Failing after blocks reached the temp file. *)
LEMMA WriteFailsControl ==
  ASSUME ControlInv, NEW s \in Streams, WriteFails(s)
  PROVE  ControlInv'
<1>1. /\ phase = "serving" /\ phase' = "failing"
      /\ Receiving(s) /\ rx[s].active
      /\ final' = FrameToAll("Error")
      /\ UNCHANGED <<opts, sess, initBy, conn, rx, resp, outcome, output, manifest>>
  BY DEF WriteFails, Receiving, Abort
<1>2. conn[s].ready
  BY <1>1 DEF ControlInv, ConnInv
<1>3. PICK hi \in rx[s].flushed .. rx[s].next : Write(rx[s].acc, rx[s].flushed, hi)
  BY DEF WriteFails
<1>4. temp' \in [Ids -> Image \cup {NoFile}]
  BY <1>1, <1>2, <1>3, ReceivingFacts, WriteType DEF ControlInv
<1>5. faults' \in Nat
  BY DEF WriteFails, Fault, ControlInv, TypeOK
<1> QED
  BY <1>1, <1>4, <1>5, FailControl, FrameToAllType DEF ControlInv, TypeOK

(* A chunk whose checksum is wrong. *)
LEMMA RejectChunkControl ==
  ASSUME ControlInv, NEW s \in Streams, NEW c \in Chunks, NEW sum \in Sums(c),
         RejectChunk(s, c, sum)
  PROVE  ControlInv'
<1>1. /\ phase = "serving" /\ phase' = "failing"
      /\ Receiving(s) /\ conn[s].ready
      /\ final' = FrameToAll("Error")
      /\ UNCHANGED <<opts, sess, initBy, conn, rx, resp, outcome, output, manifest, faults>>
  BY DEF RejectChunk, MatchesActive, Receiving, Abort
<1>2. Write(rx[s].acc, rx[s].flushed, rx[s].next)
  BY DEF RejectChunk, FlushChunk
<1>3. temp' \in [Ids -> Image \cup {NoFile}]
  BY <1>1, <1>2, ReceivingFacts, WriteType DEF ControlInv
<1> QED
  BY <1>1, <1>3, FailControl, FrameToAllType DEF ControlInv, TypeOK

(* A chunk is recorded: the manifest may be saved on the way. *)
LEMMA RecordChunkControl ==
  ASSUME ControlInv, NEW s \in Streams, NEW c \in Chunks, NEW sum \in Sums(c),
         RecordChunk(s, c, sum)
  PROVE  ControlInv'
<1> DEFINE after == RecordVerifiedChunk(sess, c, sum)
<1>1. /\ phase = "serving" /\ Receiving(s) /\ conn[s].ready
      /\ UNCHANGED <<opts, initBy, conn, resp, outcome, output>>
  BY DEF RecordChunk, MatchesActive, Receiving
<1>2. Write(rx[s].acc, rx[s].flushed, rx[s].next)
  BY DEF RecordChunk, FlushChunk
<1>3. /\ sess.open /\ sess \in Sessions /\ sess.id \in Ids
      /\ temp[sess.id] \in Image /\ rx[s].acc \in Image
      /\ temp[sess.id] # NoFile
  BY <1>1, ReceivingFacts
<1>4. temp' \in [Ids -> Image \cup {NoFile}]
  BY <1>2, <1>3, WriteType DEF ControlInv
<1>5. temp'[sess.id] # NoFile
  <2>1. Overlay(temp[sess.id], rx[s].acc, rx[s].flushed, rx[s].next) \in Image
    BY <1>3, OverlayType
  <2> QED
    BY <1>2, <1>3, <2>1, SessionAssumption DEF Write, ControlInv, TypeOK
<1>6. after \in Sessions /\ after.open /\ after.id = sess.id
  BY <1>3, RecordVerifiedType, RecordVerifiedFields
<1>7. \/ /\ \/ sess' = after /\ UNCHANGED <<manifest, faults>>
            \/ Save(after, "Transferring")
         /\ rx' = [rx EXCEPT ![s] = NoChunk]
         /\ UNCHANGED <<phase, final>>
      \/ /\ SaveFails(after)
         /\ phase' = "failing" /\ final' = FrameToAll("Error")
         /\ UNCHANGED rx
  BY DEF RecordChunk, Abort
<1> HIDE DEF after
<1>8. /\ sess' \in Sessions /\ sess'.open /\ sess'.id = sess.id
      /\ manifest' \in Manifests
      /\ manifest' = manifest \/ manifest'.state = "Transferring"
      /\ manifest'.state # "Committed"
      /\ faults' \in Nat
  <2>1. CASE sess' = after /\ UNCHANGED <<manifest, faults>>
    BY <1>1, <1>3, <1>6, <2>1 DEF ControlInv, TypeOK, PhaseInv, Committed
  <2>2. CASE Save(after, "Transferring") \/ SaveFails(after)
    BY <1>1, <1>3, <1>6, <2>2, SaveControl
  <2> QED
    BY <1>7, <2>1, <2>2
<1>9. CASE phase' = "failing"
  <2>1. final' = FrameToAll("Error") /\ UNCHANGED rx
    BY <1>1, <1>7, <1>9
  <2> QED
    BY <1>1, <1>3, <1>4, <1>8, <1>9, <2>1, FailControl, FrameToAllType DEF ControlInv, TypeOK
<1>10. CASE phase' # "failing"
  <2>1. rx' = [rx EXCEPT ![s] = NoChunk] /\ UNCHANGED <<phase, final>>
    BY <1>7, <1>10
  <2>2. rx' \in [Streams -> InChunk]
    BY <2>1, NoChunkType DEF ControlInv, TypeOK
  <2>3. Counters'
    BY <2>1, SessionAssumption DEF Counters, ControlInv, TypeOK, NoChunk, Chunk
  <2>4. TypeOK'
    BY <1>1, <1>4, <1>8, <2>1, <2>2, <2>3 DEF ControlInv, TypeOK, Counters
  <2>5. ConnInv'
    BY <1>1, <1>3, <1>8, <2>1 DEF ControlInv, TypeOK, ConnInv, NoChunk, Chunk
  <2>6. PhaseInv'
    BY <1>1, <1>5, <1>8, <2>1 DEF ControlInv, PhaseInv, Committing, Committed
  <2> QED
    BY <2>4, <2>5, <2>6 DEF ControlInv
<1> QED
  BY <1>9, <1>10

(* FIN on one stream. *)
LEMMA RecvFinControl ==
  ASSUME ControlInv, NEW s \in Streams, RecvFin(s)
  PROVE  ControlInv'
<1>1. /\ phase = "serving" /\ Receiving(s)
      /\ UNCHANGED <<opts, sess, initBy, rx, resp, outcome, output, temp, manifest, faults>>
  BY DEF RecvFin, Receiving, disk
<1>2. CASE conn[s].ready /\ ~rx[s].active
  <2>1. conn' = [conn EXCEPT ![s].fin = TRUE] /\ UNCHANGED <<phase, final>>
    BY <1>2 DEF RecvFin
  <2>2. TypeOK'
    BY <1>1, <2>1 DEF ControlInv, TypeOK, Conns
  <2>3. ConnInv'
    BY <1>1, <1>2, <2>1 DEF ControlInv, TypeOK, Conns, ConnInv
  <2>4. PhaseInv'
    BY <1>1, <2>1 DEF ControlInv, PhaseInv, Committing, Committed
  <2> QED
    BY <2>2, <2>3, <2>4 DEF ControlInv
<1>3. CASE ~(conn[s].ready /\ ~rx[s].active)
  <2>1. phase' = "failing" /\ final' = FrameToAll("Error") /\ UNCHANGED conn
    BY <1>3 DEF RecvFin, Abort
  <2> QED
    BY <1>1, <2>1, FailControl, FrameToAllType DEF ControlInv, TypeOK
<1> QED
  BY <1>2, <1>3

(* Commit *)

(* The main loop ends. *)
LEMMA AllFinControl ==
  ASSUME ControlInv, AllFin
  PROVE  ControlInv'
<1>1. /\ phase = "serving" /\ \A s \in Streams : conn[s].fin
      /\ UNCHANGED <<opts, sess, initBy, conn, rx, resp, outcome, output, temp, manifest, faults>>
  BY DEF AllFin, disk
<1>2. sess.open
  BY <1>1 DEF ControlInv, TypeOK, ConnInv
<1>3. CASE phase' = "failing"
  <2>1. final' = FrameToAll("Error")
    BY <1>3 DEF AllFin, Continue, Abort
  <2> QED
    BY <1>1, <1>3, <2>1, FailControl, FrameToAllType DEF ControlInv, TypeOK
<1>4. CASE phase' # "failing"
  <2>1. phase' = "finalVerify" /\ final' = final
    BY <1>4 DEF AllFin, Continue, Abort
  <2>2. TypeOK'
    BY <1>1, <2>1 DEF ControlInv, TypeOK, Phases
  <2>3. ConnInv'
    BY <1>1, <2>1 DEF ControlInv, ConnInv
  <2>4. PhaseInv'
    BY <1>1, <1>2, <2>1 DEF ControlInv, PhaseInv, Committing, Committed
  <2> QED
    BY <2>2, <2>3, <2>4 DEF ControlInv
<1> QED
  BY <1>3, <1>4

(* The last look at the output path. *)
LEMMA CheckOutputControl ==
  ASSUME ControlInv, CheckOutput
  PROVE  ControlInv'
<1>1. /\ phase = "exists" /\ sess.open
      /\ UNCHANGED <<opts, sess, initBy, conn, rx, resp, outcome, output, temp, manifest, faults>>
  BY DEF CheckOutput, disk, ControlInv, PhaseInv, Committing
<1>2. /\ sess' \in Sessions /\ manifest' \in Manifests /\ manifest'.state # "Committed"
      /\ faults' \in Nat
  BY <1>1 DEF ControlInv, TypeOK, PhaseInv, Committed
<1>3. \/ phase' = "failing" /\ final' = FrameToAll("Error")
      \/ phase' = "rename" /\ final' = final /\ (output = NoFile \/ opts.overwrite)
  BY DEF CheckOutput, Continue, Abort
<1>4. CASE phase' = "failing"
  BY <1>1, <1>3, <1>4, FailControl, FrameToAllType DEF ControlInv, TypeOK
<1>5. CASE phase' # "failing"
  BY <1>1, <1>2, <1>3, <1>5, AdvanceControl
<1> QED
  BY <1>4, <1>5

(* rename and fsync. *)
LEMMA PublishControl ==
  ASSUME ControlInv, RenameToOutput \/ SyncOutput
  PROVE  ControlInv'
<1>1. /\ phase \in {"rename", "sync"} /\ sess.open
      /\ UNCHANGED <<opts, sess, initBy, conn, rx, resp, outcome, manifest>>
  BY DEF RenameToOutput, SyncOutput, disk, ControlInv, PhaseInv, Committing
<1>2. sess \in Sessions /\ sess.id \in Ids
  BY DEF ControlInv, TypeOK, Sessions
<1>3. faults' \in Nat
  BY DEF RenameToOutput, SyncOutput, Fault, ControlInv, TypeOK
<1>4. temp' \in [Ids -> Image \cup {NoFile}]
  BY <1>2 DEF RenameToOutput, SyncOutput, disk, ControlInv, TypeOK
<1>5. CASE phase' = "failing"
  <2>1. final' = FrameToAll("Error") /\ output' = output
    BY <1>5 DEF RenameToOutput, SyncOutput, Continue, Abort, disk
  <2> QED
    BY <1>1, <1>2, <1>3, <1>4, <1>5, <2>1, FailControl, FrameToAllType DEF ControlInv
<1>6. CASE phase' # "failing"
  <2>1. phase' \in {"sync", "markCommitted"} /\ final' = final
    BY <1>6 DEF RenameToOutput, SyncOutput, Continue, Abort
  <2>2. output' \in Image \cup {NoFile}
    BY <1>2 DEF RenameToOutput, SyncOutput, disk, ControlInv, TypeOK
  <2>3. TypeOK'
    BY <1>1, <1>3, <1>4, <2>1, <2>2 DEF ControlInv, TypeOK, Phases
  <2>4. ConnInv'
    BY <1>1, <2>1 DEF ControlInv, ConnInv
  <2>5. PhaseInv'
    BY <1>1, <2>1 DEF ControlInv, PhaseInv, Committing, Committed
  <2> QED
    BY <2>3, <2>4, <2>5 DEF ControlInv
<1> QED
  BY <1>5, <1>6

(* A process that ends, with the disk well typed. *)
LEMMA ExitControl ==
  ASSUME ControlInv, NEW how \in {"ok", "failed", "killed"}, Exit(how),
         UNCHANGED <<opts, initBy, resp, output, temp>>,
         final' \in [Streams -> {"none", "Error", "Complete"}],
         manifest' \in Manifests, faults' \in Nat
  PROVE  ControlInv'
<1>1. TypeOK'
  BY ExitType DEF ControlInv, TypeOK, Counters
<1>2. ConnInv'
  BY NoSessionType DEF Exit, ConnInv, Closed, NoChunk, Chunk
<1>3. PhaseInv'
  BY NoSessionType DEF Exit, PhaseInv, Committing
<1> QED
  BY <1>1, <1>2, <1>3 DEF ControlInv

(* markCommitted. *)
LEMMA MarkCommittedControl ==
  ASSUME ControlInv, MarkCommitted
  PROVE  ControlInv'
<1>1. /\ phase = "markCommitted" /\ sess.open /\ sess \in Sessions
      /\ UNCHANGED <<opts, initBy, resp, output, temp>>
      /\ manifest \in Manifests /\ faults \in Nat
  BY DEF MarkCommitted, ControlInv, TypeOK, PhaseInv, Committing
<1>2. CASE Save(sess, "Committed") /\ Continue("complete") /\ UNCHANGED <<conn, rx, outcome>>
  <2>1. manifest' = ManifestOf(sess, "Committed") /\ sess' = Saved(sess) /\ faults' = faults
    BY <1>2 DEF Save
  <2>2. manifest' \in Manifests /\ manifest'.state = "Committed"
    BY <1>1, <2>1, ManifestOfType DEF ManifestStates, ManifestOf
  <2>3. sess' \in Sessions /\ sess'.open
    BY <1>1, <2>1, SavedType, SavedFields
  <2>4. TypeOK'
    BY <1>1, <1>2, <2>1, <2>2, <2>3 DEF ControlInv, TypeOK, Phases, Continue
  <2>5. ConnInv'
    BY <1>1, <1>2, <2>3 DEF ControlInv, ConnInv, Continue
  <2>6. PhaseInv'
    BY <1>1, <1>2, <2>2, <2>3 DEF ControlInv, PhaseInv, Committing, Committed, Continue
  <2> QED
    BY <2>4, <2>5, <2>6 DEF ControlInv
<1>3. CASE Fault /\ Exit("failed") /\ final' = FrameToAll("Error") /\ UNCHANGED manifest
  <2>1. faults' \in Nat
    BY <1>1, <1>3 DEF Fault
  <2> QED
    BY <1>1, <1>3, <2>1, ExitControl, FrameToAllType DEF ControlInv
<1> QED
  BY <1>2, <1>3 DEF MarkCommitted

(* COMPLETE is sent, a failing process ends, a process is killed. *)
LEMMA EndControl ==
  ASSUME ControlInv,
         \/ \E ok \in BOOLEAN : SendComplete(ok)
         \/ MarkFailedBestEffort
         \/ Kill
  PROVE  ControlInv'
<1>1. /\ UNCHANGED <<opts, initBy, resp, output, temp>>
      /\ \E how \in {"ok", "failed", "killed"} : Exit(how)
  BY DEF SendComplete, MarkFailedBestEffort, Kill, disk
<1>2. faults' \in Nat
  BY DEF SendComplete, MarkFailedBestEffort, Kill, Fault, ControlInv, TypeOK
<1>3. final' \in [Streams -> {"none", "Error", "Complete"}]
  BY FrameToAllType DEF SendComplete, MarkFailedBestEffort, Kill, ControlInv, TypeOK
<1>4. manifest' \in Manifests
  <2>1. ManifestOf(sess, "Failed") \in Manifests /\ manifest \in Manifests
    BY ManifestOfType DEF ControlInv, TypeOK, ManifestStates
  <2> QED
    BY <2>1 DEF SendComplete, MarkFailedBestEffort, Kill, disk
<1> QED
  BY <1>1, <1>2, <1>3, <1>4, ExitControl

(* A decaying block. *)
LEMMA TempDecaysControl ==
  ASSUME ControlInv, NEW i \in Ids, NEW p \in Positions, NEW v \in Content,
         TempDecays(i, p, v)
  PROVE  ControlInv'
<1>1. /\ UNCHANGED <<phase, opts, sess, initBy, conn, rx, resp, final, outcome, output, manifest>>
      /\ faults' \in Nat
  BY DEF TempDecays, process, replies, Fault, ControlInv, TypeOK
<1>2. temp[i] \in Image
  BY DEF TempDecays, ControlInv, TypeOK
<1>3. [temp[i] EXCEPT ![p] = v] \in Image
  BY <1>2, BlockType
<1>4. temp' = [temp EXCEPT ![i] = [temp[i] EXCEPT ![p] = v]]
  BY DEF TempDecays
<1> DEFINE decayed == [temp[i] EXCEPT ![p] = v]
<1> HIDE DEF decayed
<1>5. temp' = [temp EXCEPT ![i] = decayed] /\ decayed \in Image
  BY <1>3, <1>4 DEF decayed
<1>6. temp' \in [Ids -> Image \cup {NoFile}]
  BY <1>5 DEF ControlInv, TypeOK
<1>7. \A j \in Ids : temp[j] # NoFile => temp'[j] # NoFile
  BY <1>5, SessionAssumption DEF ControlInv, TypeOK
<1>8. TypeOK'
  BY <1>1, <1>6 DEF ControlInv, TypeOK
<1>9. ConnInv'
  BY <1>1 DEF ControlInv, ConnInv
<1>10. PhaseInv'
  <2>1. sess.id \in Ids
    BY DEF ControlInv, TypeOK, Sessions
  <2> QED
    BY <1>1, <1>7, <2>1 DEF ControlInv, PhaseInv, Committing, Committed
<1> QED
  BY <1>8, <1>9, <1>10 DEF ControlInv

(* A step that changes nothing. *)
LEMMA StutterControl ==
  ASSUME ControlInv, UNCHANGED vars
  PROVE  ControlInv'
BY DEF vars, ControlInv, TypeOK, ConnInv, PhaseInv, Committing, Committed

(* Every step of the receiver and of its environment. *)
LEMMA ControlStep ==
  ASSUME ControlInv, [Next]_vars
  PROVE  ControlInv'
<1>1. CASE Start
  BY <1>1, StartControl DEF Start
<1>2. ASSUME NEW s \in Streams, Accept(s) PROVE ControlInv'
  BY <1>2, AcceptControl
<1>3. ASSUME NEW s \in Streams, Receive(s) PROVE ControlInv'
  <2>1. ASSUME NEW init \in Inits, RecvInit(s, init) PROVE ControlInv'
    BY <2>1, RefuseControl, InitJoinsControl, InitOpensControl DEF RecvInit
  <2>2. ASSUME NEW c \in Chunks, NEW p \in Positions, NEW v \in Content, RecvData(s, c, p, v)
        PROVE  ControlInv'
    BY <2>2, RefuseControl, AcceptDataControl DEF RecvData
  <2>3. ASSUME NEW c \in Chunks, NEW sum \in Sums(c), RecvChunkComplete(s, c, sum)
        PROVE  ControlInv'
    BY <2>3, RefuseControl, RejectChunkControl, RecordChunkControl DEF RecvChunkComplete
  <2> QED
    BY <1>3, <2>1, <2>2, <2>3, RecvFinControl, RefuseControl DEF Receive
<1>4. CASE ServerStep
  BY <1>4, OpenOutputControl, VerifyTempControl, SaveInitControl, AllFinControl, FlushControl,
     CheckOutputControl, PublishControl, MarkCommittedControl, EndControl DEF ServerStep
<1>5. CASE Environment
  <2>1. LoopFails => ControlInv'
    BY RefuseControl DEF ControlInv, TypeOK
  <2> QED
    BY <1>5, <2>1, EndControl, WriteFailsControl, TempDecaysControl DEF Environment
<1> QED
  BY <1>1, <1>2, <1>3, <1>4, <1>5, EndControl, StutterControl DEF Next

(* Type correctness of StorReceiver, for every number of streams, chunks and *)
(* transfer ids, every flush and verification policy and any open sender.    *)
THEOREM TypeCorrect == Spec => []TypeOK
<1>1. ControlInv /\ [Next]_vars => ControlInv'
  BY ControlStep
<1>2. ControlInv => TypeOK
  BY DEF ControlInv
<1> QED
  BY <1>1, <1>2, ControlInit, PTL DEF Spec

-----------------------------------------------------------------------------
(* The temp file                                                              *)

DataInv == VerifiedChunksIntact /\ FlushedBlocksInv /\ VerifiedInv

-----------------------------------------------------------------------------
(* What verification compares *)

(* Two checksums of a chunk are equal when they agree on its blocks. *)
LEMMA SumsEqual ==
  ASSUME NEW c \in Chunks, NEW image \in Image, NEW sum \in Sums(c),
         \A p \in ChunkRange(c) : image[p] = sum[p]
  PROVE  ChunkSum(image, c) = sum
BY DEF ChunkSum, Sums

(* A complete record list with nothing corrupt describes the file. *)
LEMMA CleanMatches ==
  ASSUME NEW session, NEW image,
         image # NoFile, Missing(session.records) = {}, CorruptRecords(session, image) = {}
  PROVE  Matches(image, session.records)
<1> SUFFICES ASSUME NEW c \in Chunks PROVE session.records[c] = ChunkSum(image, c)
  BY DEF Matches
<1>1. c \in Recorded(session.records)
  BY DEF Missing, Recorded
<1> QED
  BY <1>1 DEF CorruptRecords

-----------------------------------------------------------------------------
(* The receive phase *)

(* A step that does not end in a phase DataInv speaks about. *)
LEMMA OtherPhaseData ==
  ASSUME phase' \in {"down", "precheck", "failing", "complete"}
  PROVE  DataInv'
BY DEF DataInv, VerifiedChunksIntact, FlushedBlocksInv, VerifiedInv

(* Steps of the receive phase that leave the session and the data alone. *)
LEMMA ConnectionData ==
  ASSUME DataInv, phase = "serving", phase' = "serving",
         UNCHANGED <<sess, rx, temp>>
  PROVE  DataInv'
<1>1. VerifiedChunksIntact'
  BY DEF DataInv, VerifiedChunksIntact, InFlight, Flushed
<1>2. FlushedBlocksInv'
  BY DEF DataInv, FlushedBlocksInv, InFlight, Flushed
<1>3. VerifiedInv'
  BY DEF VerifiedInv
<1> QED
  BY <1>1, <1>2, <1>3 DEF DataInv

(* The session is ready: no stream is in the middle of a chunk, and what     *)
(* the session resumes is in the temp file.                                  *)
LEMMA SaveInitData ==
  ASSUME ControlInv, DataInv, SaveInit
  PROVE  DataInv'
<1>1. CASE phase' # "serving"
  <2>1. phase' = "failing"
    BY <1>1 DEF SaveInit, Respond, RespondFails, Continue, Abort
  <2> QED
    BY <2>1, OtherPhaseData
<1>2. CASE phase' = "serving"
  <2>1. phase = "save" /\ sess \in Sessions /\ CorruptRecords(sess, temp[sess.id]) = {}
    BY DEF SaveInit, ControlInv, TypeOK, DataInv, VerifiedInv
  <2>2. temp' = temp /\ rx' = rx /\ sess'.id = sess.id /\ sess'.records = sess.records
    BY <1>2, <2>1, SavedFields DEF SaveInit, Save, SaveFails, Abort
  <2>3. \A s \in Streams : Flushed(s)' = {}
    BY <2>1, <2>2 DEF ControlInv, ConnInv, Flushed
  <2>4. VerifiedChunksIntact'
    <3>1. ASSUME NEW c \in Recorded(sess.records), NEW p \in ChunkRange(c)
          PROVE  temp[sess.id][p] = sess.records[c][p]
      <4>1. ChunkSum(temp[sess.id], c) = sess.records[c]
        BY <2>1 DEF CorruptRecords
      <4> QED
        BY <4>1 DEF ChunkSum
    <3> QED
      BY <2>2, <3>1 DEF VerifiedChunksIntact
  <2>5. FlushedBlocksInv'
    BY <2>3 DEF FlushedBlocksInv
  <2>6. VerifiedInv'
    BY <1>2 DEF VerifiedInv
  <2> QED
    BY <2>4, <2>5, <2>6 DEF DataInv
<1> QED
  BY <1>1, <1>2

(* DATA: the blocks it puts into the temp file are those of a chunk in       *)
(* progress, and the other blocks keep their writer.                         *)
LEMMA AcceptDataData ==
  ASSUME ControlInv, DataInv,
         NEW s \in Streams, NEW c \in Chunks, NEW p \in Positions,
         NEW v \in Content, AcceptData(s, c, p, v)
  PROVE  DataInv'
<1> DEFINE k == Current(s, c, p)
           acc == [k.acc EXCEPT ![p] = v]
           old == temp[sess.id]
           new == temp'[sess.id]
<1>1. /\ Receiving(s) /\ DataAcceptable(s, c, p)
      /\ phase' = phase /\ sess' = sess
  BY DEF AcceptData
<1>2. /\ k.start \in Nat /\ k.flushed \in Nat /\ k.acc \in Image
      /\ k.start <= k.flushed /\ k.flushed <= p
      /\ p \in Nat /\ p + 1 <= TotalBlocks
  BY <1>1, CurrentFacts
<1>3. /\ rx[s].active => k = rx[s]
      /\ ~rx[s].active => k.start = p /\ k.flushed = p
  BY DEF Current, Chunk
<1>4. PICK f \in {k.flushed, p, p + 1} :
        /\ rx' = [rx EXCEPT ![s] = Chunk(TRUE, c, k.start, p + 1, f, acc)]
        /\ Write(acc, k.flushed, f)
  BY DEF AcceptData
<1>5. acc \in Image /\ (\A q \in Positions : q # p => acc[q] = k.acc[q])
  BY <1>2 DEF Image
<1> HIDE DEF acc, k
<1>6. f \in Nat /\ k.flushed <= f
  BY <1>2
<1>7. phase = "serving" /\ sess.id \in Ids /\ temp \in [Ids -> Image \cup {NoFile}]
  BY <1>1, ReceivingFacts DEF DataAcceptable
<1>8. \A q \in Positions : new[q] = IF k.flushed <= q /\ q < f THEN acc[q] ELSE old[q]
  BY <1>4, <1>7 DEF Write, Overlay
<1>9. /\ rx'[s].active /\ rx'[s].start = k.start /\ rx'[s].flushed = f /\ rx'[s].acc = acc
      /\ \A r \in Streams \ {s} : rx'[r] = rx[r]
  BY <1>4 DEF ControlInv, TypeOK, Chunk
<1>10. ASSUME NEW q \in Positions, k.flushed <= q, q < f
       PROVE  InFlight(q)'
  <2>1. q \in Flushed(s)'
    BY <1>2, <1>6, <1>9, <1>10 DEF Flushed, Positions
  <2>2. temp'[sess'.id][q] = rx'[s].acc[q]
    BY <1>1, <1>8, <1>9, <1>10
  <2> QED
    BY <2>1, <2>2 DEF InFlight
<1>11. ASSUME NEW q \in Positions, ~(k.flushed <= q /\ q < f), InFlight(q)
       PROVE  InFlight(q)'
  <2>1. PICK r \in Streams : q \in Flushed(r) /\ old[q] = rx[r].acc[q]
    BY <1>11 DEF InFlight
  <2>2. temp'[sess'.id][q] = old[q]
    BY <1>1, <1>8, <1>11
  <2>3. CASE r # s
    <3>1. q \in Flushed(r)' /\ rx'[r].acc = rx[r].acc
      BY <1>9, <2>1, <2>3 DEF Flushed
    <3> QED
      BY <2>1, <2>2, <3>1 DEF InFlight
  <2>4. CASE r = s
    <3>1. rx[s].active /\ k = rx[s] /\ k.start <= q /\ q < k.flushed
      BY <1>3, <2>1, <2>4 DEF Flushed
    <3>2. q \in Flushed(s)'
      BY <1>2, <1>6, <1>9, <3>1 DEF Flushed, Positions
    <3>3. rx'[s].acc[q] = rx[s].acc[q]
      BY <1>2, <1>5, <1>9, <3>1 DEF Positions
    <3> QED
      BY <2>1, <2>2, <2>4, <3>2, <3>3 DEF InFlight
  <2> QED
    BY <2>3, <2>4
<1>12. VerifiedChunksIntact'
  <2> SUFFICES ASSUME sess.open, "serving" \notin DecayPhases,
                      NEW d \in Recorded(sess.records), NEW q \in ChunkRange(d)
               PROVE  new[q] = sess.records[d][q] \/ InFlight(q)'
    BY <1>1 DEF VerifiedChunksIntact
  <2>1. q \in Positions
    BY DEF ChunkRange
  <2>2. old[q] = sess.records[d][q] \/ InFlight(q)
    BY <1>7 DEF DataInv, VerifiedChunksIntact
  <2> QED
    BY <1>8, <1>10, <1>11, <2>1, <2>2
<1>13. FlushedBlocksInv'
  <2> SUFFICES ASSUME sess.open, "serving" \notin DecayPhases,
                      NEW r \in Streams, NEW q \in Flushed(r)'
               PROVE  InFlight(q)' \/ sess.records[q \div ChunkBlocks] # NoRecord
    BY <1>1 DEF FlushedBlocksInv
  <2>1. q \in Positions
    BY DEF Flushed
  <2>2. CASE k.flushed <= q /\ q < f
    BY <1>10, <2>1, <2>2
  <2>3. CASE ~(k.flushed <= q /\ q < f)
    <3>1. q \in Flushed(r)
      <4>1. CASE r # s
        BY <1>9, <4>1 DEF Flushed
      <4>2. CASE r = s
        <5>1. k.start <= q /\ q < f
          BY <1>9, <4>2 DEF Flushed
        <5>2. q < k.flushed
          BY <1>2, <2>1, <2>3, <5>1 DEF Positions
        <5>3. rx[s].active
          BY <1>2, <1>3, <2>1, <5>1, <5>2 DEF Positions
        <5> QED
          BY <1>3, <2>1, <4>2, <5>1, <5>2, <5>3 DEF Flushed
      <4> QED
        BY <4>1, <4>2
    <3> QED
      BY <1>7, <1>11, <2>1, <2>3, <3>1 DEF DataInv, FlushedBlocksInv
  <2> QED
    BY <2>2, <2>3
<1>14. VerifiedInv'
  BY <1>1, <1>7 DEF VerifiedInv
<1> QED
  BY <1>12, <1>13, <1>14 DEF DataInv

(* ChunkComplete: the chunk that is recorded is in the temp file or is being *)
(* written again, because every block of it that this stream put there       *)
(* earlier is still its own, another stream's, or that of an equal record.   *)
LEMMA RecordChunkData ==
  ASSUME ControlInv, DataInv,
         NEW s \in Streams, NEW c \in Chunks, NEW sum \in Sums(c),
         RecordChunk(s, c, sum)
  PROVE  DataInv'
<1> DEFINE old == temp[sess.id]
           new == temp'[sess.id]
           k   == rx[s]
<1>1. /\ Receiving(s) /\ conn[s].ready /\ k.active
      /\ ChunkRange(c) = k.start .. k.next - 1
      /\ ChunkSum(k.acc, c) = sum
      /\ sess.records[c] \in {NoRecord, sum}
      /\ Write(k.acc, k.flushed, k.next)
  BY DEF RecordChunk, MatchesActive, ChunkVerified, RecordAccepted, FlushChunk
<1>2. /\ phase = "serving" /\ sess.open /\ sess \in Sessions /\ sess.id \in Ids
      /\ temp \in [Ids -> Image \cup {NoFile}]
      /\ k.start \in Nat /\ k.flushed \in Nat /\ k.next \in Nat
      /\ k.start <= k.flushed /\ k.flushed <= k.next
  BY <1>1, ReceivingFacts
<1>3. CASE phase' # "serving"
  <2>1. phase' = "failing"
    BY <1>2, <1>3 DEF RecordChunk, Abort
  <2> QED
    BY <2>1, OtherPhaseData
<1>4. CASE phase' = "serving"
  <2> DEFINE after == RecordVerifiedChunk(sess, c, sum)
  <2>1. rx' = [rx EXCEPT ![s] = NoChunk] /\ (sess' = after \/ sess' = Saved(after))
    BY <1>4 DEF RecordChunk, Abort, Save
  <2>2. /\ after \in Sessions /\ after.id = sess.id
        /\ after.records = [sess.records EXCEPT ![c] = sum]
    BY <1>2, RecordVerifiedType, RecordVerifiedFields
  <2> HIDE DEF after
  <2>3. sess'.id = sess.id /\ sess'.records = [sess.records EXCEPT ![c] = sum]
    BY <2>1, <2>2, SavedFields
  <2>4. sess.records \in [Chunks -> AnySum \cup {NoRecord}]
    BY <1>2 DEF Sessions, Records
  <2>5. /\ sess'.records[c] = sum
        /\ \A d \in Chunks \ {c} : sess'.records[d] = sess.records[d]
    BY <2>3, <2>4
  <2>6. \A q \in Positions : new[q] = IF k.flushed <= q /\ q < k.next THEN k.acc[q] ELSE old[q]
    BY <1>1, <1>2 DEF Write, Overlay
  <2>7. ~rx'[s].active /\ (\A r \in Streams \ {s} : rx'[r] = rx[r])
    BY <2>1 DEF ControlInv, TypeOK, NoChunk, Chunk
  <2>8. \A q \in Positions : q \in ChunkRange(c) <=> (k.start <= q /\ q < k.next)
    BY <1>1, <1>2 DEF Positions
  <2>9. \A q \in ChunkRange(c) : q \in Positions /\ sum[q] = k.acc[q] /\ q \div ChunkBlocks = c
    BY <1>1 DEF ChunkSum, ChunkRange
  <2>10. sum # NoRecord
    BY SessionAssumption
  <2>11. ASSUME NEW q \in Positions, q \notin ChunkRange(c)
         PROVE  new[q] = old[q] /\ q \notin Flushed(s)
    BY <1>2, <2>6, <2>8, <2>11 DEF Flushed, Positions
  <2>12. ASSUME NEW q \in Positions, new[q] = old[q],
                NEW r \in Streams, r # s, q \in Flushed(r), old[q] = rx[r].acc[q]
         PROVE  InFlight(q)'
    <3>1. q \in Flushed(r)' /\ rx'[r].acc[q] = rx[r].acc[q]
      BY <2>7, <2>12 DEF Flushed
    <3> QED
      BY <2>3, <2>12, <3>1 DEF InFlight
  <2>13. VerifiedChunksIntact'
    <3> SUFFICES ASSUME "serving" \notin DecayPhases,
                        NEW d \in Recorded(sess'.records), NEW q \in ChunkRange(d)
                 PROVE  new[q] = sess'.records[d][q] \/ InFlight(q)'
      BY <2>3 DEF VerifiedChunksIntact
    <3>1. d \in Chunks /\ q \in Positions /\ q \div ChunkBlocks = d
      BY DEF Recorded, ChunkRange
    <3>2. CASE d # c
      <4>1. d \in Recorded(sess.records) /\ sess'.records[d] = sess.records[d]
        BY <2>5, <3>1, <3>2 DEF Recorded
      <4>2. q \notin ChunkRange(c)
        BY <3>1, <3>2 DEF ChunkRange
      <4>3. old[q] = sess.records[d][q] \/ InFlight(q)
        BY <1>2, <4>1 DEF DataInv, VerifiedChunksIntact
      <4> QED
        BY <2>11, <2>12, <3>1, <4>1, <4>2, <4>3 DEF InFlight
    <3>3. CASE d = c
      <4>1. CASE k.flushed <= q /\ q < k.next
        BY <2>5, <2>6, <2>9, <3>1, <3>3, <4>1
      <4>2. CASE ~(k.flushed <= q /\ q < k.next)
        <5>1. k.start <= q /\ q < k.next
          BY <2>8, <3>1, <3>3
        <5>2. q \in Flushed(s)
          BY <1>1, <1>2, <3>1, <4>2, <5>1 DEF Flushed, Positions
        <5>3. new[q] = old[q]
          BY <2>6, <3>1, <4>2
        <5>4. InFlight(q) \/ sess.records[c] # NoRecord
          BY <1>2, <3>1, <3>3, <5>2 DEF DataInv, FlushedBlocksInv
        <5>5. CASE InFlight(q)
          BY <2>5, <2>9, <2>12, <3>1, <3>3, <5>3, <5>5 DEF InFlight
        <5>6. CASE sess.records[c] # NoRecord
          <6>1. sess.records[c] = sum /\ c \in Recorded(sess.records)
            BY <1>1, <5>6 DEF Recorded
          <6>2. old[q] = sum[q] \/ InFlight(q)
            BY <1>2, <3>3, <6>1 DEF DataInv, VerifiedChunksIntact
          <6> QED
            BY <2>5, <3>3, <5>3, <5>5, <6>2
        <5> QED
          BY <5>4, <5>5, <5>6
      <4> QED
        BY <4>1, <4>2
    <3> QED
      BY <3>2, <3>3
  <2>14. FlushedBlocksInv'
    <3> SUFFICES ASSUME "serving" \notin DecayPhases, NEW r \in Streams, NEW q \in Flushed(r)'
                 PROVE  InFlight(q)' \/ sess'.records[q \div ChunkBlocks] # NoRecord
      BY DEF FlushedBlocksInv
    <3>1. q \in Positions /\ r # s
      BY <2>7 DEF Flushed
    <3>2. q \in Flushed(r)
      BY <2>7, <3>1 DEF Flushed
    <3>3. CASE q \in ChunkRange(c)
      BY <2>5, <2>9, <2>10, <3>3
    <3>4. CASE q \notin ChunkRange(c)
      <4>1. q \div ChunkBlocks \in Chunks /\ q \div ChunkBlocks # c
        BY <3>1, <3>4 DEF Chunks, ChunkRange
      <4>2. InFlight(q) \/ sess.records[q \div ChunkBlocks] # NoRecord
        BY <1>2, <3>2 DEF DataInv, FlushedBlocksInv
      <4> QED
        BY <2>5, <2>11, <2>12, <3>1, <3>4, <4>1, <4>2 DEF InFlight
    <3> QED
      BY <3>3, <3>4
  <2>15. VerifiedInv'
    BY <1>4 DEF VerifiedInv
  <2> QED
    BY <2>13, <2>14, <2>15 DEF DataInv
<1> QED
  BY <1>3, <1>4

-----------------------------------------------------------------------------
(* Opening the session *)

(* A new session has no records, so its temp file cannot contradict one; a   *)
(* resumed one is checked against the temp file first.                       *)
LEMMA OpeningData ==
  ASSUME ControlInv, DataInv,
         \/ \E s \in Streams : \E init \in Inits : InitOpens(s, init)
         \/ OpenOutput
         \/ Precheck
  PROVE  DataInv'
<1>1. ASSUME NEW s \in Streams, NEW init \in Inits, InitOpens(s, init)
      PROVE  DataInv'
  <2>1. phase' = "open" /\ opts' = opts
    BY <1>1 DEF InitOpens
  <2>2. ~opts.resume => sess'.records = NoRecords
    BY <1>1 DEF InitOpens, InitAcceptable, CreateNew
  <2> QED
    BY <2>1, <2>2 DEF DataInv, VerifiedChunksIntact, FlushedBlocksInv, VerifiedInv
<1>2. CASE OpenOutput
  <2>1. CASE phase' = "save"
    <3>1. sess' = sess /\ ~opts.resume /\ phase = "open"
      BY <1>2, <2>1 DEF OpenOutput, Continue, Abort
    <3>2. sess'.records = NoRecords
      BY <3>1 DEF DataInv, VerifiedInv
    <3>3. CorruptRecords(sess', temp'[sess'.id]) = {}
      BY <3>2 DEF CorruptRecords, Recorded, NoRecords
    <3> QED
      BY <2>1, <3>3 DEF DataInv, VerifiedChunksIntact, FlushedBlocksInv, VerifiedInv
  <2>2. CASE phase' # "save"
    <3>1. phase' \in {"precheck", "failing"}
      BY <1>2, <2>2 DEF OpenOutput, Continue, Abort
    <3> QED
      BY <3>1, OtherPhaseData
  <2> QED
    BY <2>1, <2>2
<1>3. CASE Precheck
  <2>1. CASE phase' = "save"
    <3>1. CorruptRecords(sess', temp'[sess'.id]) = {}
      BY <1>3, VerifyTempStep
    <3> QED
      BY <2>1, <3>1 DEF DataInv, VerifiedChunksIntact, FlushedBlocksInv, VerifiedInv
  <2>2. CASE phase' # "save"
    <3>1. phase' = "failing"
      BY <1>3, <2>2 DEF Precheck, VerifyTemp, Continue, Abort
    <3> QED
      BY <3>1, OtherPhaseData
  <2> QED
    BY <2>1, <2>2
<1> QED
  BY <1>1, <1>2, <1>3

-----------------------------------------------------------------------------
(* The commit *)

(* Nothing is missing, and with every stream at its FIN no block is in       *)
(* flight: unless blocks decay, the temp file has every recorded checksum.   *)
LEMMA AllFinData ==
  ASSUME ControlInv, DataInv, AllFin
  PROVE  DataInv'
<1>1. /\ phase = "serving" /\ \A s \in Streams : conn[s].fin
      /\ sess' = sess /\ temp' = temp
  BY DEF AllFin, disk
<1>2. CASE phase' # "finalVerify"
  <2>1. phase' = "failing"
    BY <1>2 DEF AllFin, Continue, Abort
  <2> QED
    BY <2>1, OtherPhaseData
<1>3. CASE phase' = "finalVerify"
  <2>1. Missing(sess.records) = {}
    BY <1>3 DEF AllFin, Abort
  <2>2. sess.open /\ sess \in Sessions
    BY <1>1 DEF ControlInv, TypeOK, ConnInv
  <2>3. \A p : ~InFlight(p)
    BY <1>1 DEF ControlInv, ConnInv, InFlight, Flushed
  <2>4. temp[sess.id] \in Image
    BY <1>1, <2>2 DEF ControlInv, TypeOK, Sessions, PhaseInv
  <2>5. ASSUME "serving" \notin DecayPhases
        PROVE  CorruptRecords(sess, temp[sess.id]) = {}
    <3> SUFFICES ASSUME NEW c \in Recorded(sess.records)
                 PROVE  ChunkSum(temp[sess.id], c) = sess.records[c]
      BY DEF CorruptRecords
    <3>1. c \in Chunks /\ sess.records[c] \in Sums(c)
      BY <2>2 DEF Recorded, Sessions, Records
    <3>2. \A p \in ChunkRange(c) : temp[sess.id][p] = sess.records[c][p]
      BY <1>1, <2>2, <2>3, <2>5 DEF DataInv, VerifiedChunksIntact
    <3> QED
      BY <2>4, <3>1, <3>2, SumsEqual
  <2> QED
    BY <1>1, <1>3, <2>1, <2>5 DEF DataInv, VerifiedChunksIntact, FlushedBlocksInv, VerifiedInv
<1> QED
  BY <1>2, <1>3

(* The final verification, or the reason it may be skipped, establishes that *)
(* the temp file matches the records; the steps up to the rename keep it.    *)
LEMMA VerifyData ==
  ASSUME ControlInv, DataInv, SkipVerify \/ FullVerify \/ FlushManifest \/ CheckOutput
  PROVE  DataInv'
<1>1. /\ phase \in {"finalVerify", "flush", "exists"}
      /\ temp' = temp /\ temp[sess.id] # NoFile /\ sess \in Sessions
  BY DEF SkipVerify, FullVerify, FlushManifest, CheckOutput, disk,
         ControlInv, TypeOK, PhaseInv, Committing
<1>2. phase' \in {"flush", "exists", "rename", "failing"}
  BY DEF SkipVerify, FullVerify, VerifyTemp, FlushManifest, FlushManifestThen, CheckOutput,
         Continue, Abort
<1>3. CASE phase' = "failing"
  BY <1>3, OtherPhaseData
<1>4. CASE phase' # "failing"
  <2>1. Matches(temp'[sess'.id], sess'.records)
    <3>1. CASE FullVerify
      <4>1. Missing(sess'.records) = {}
        BY <1>4, <3>1 DEF FullVerify, VerifyTemp, Abort
      <4>2. CorruptRecords(sess', temp'[sess'.id]) = {} /\ temp'[sess'.id] # NoFile
        BY <1>1, <3>1, VerifyTempStep
      <4> QED
        BY <4>1, <4>2, CleanMatches
    <3>2. CASE SkipVerify \/ FlushManifest
      <4>1. sess' = Saved(sess)
        BY <1>4, <3>2 DEF SkipVerify, FlushManifest, FlushManifestThen, Save, Abort
      <4>2. sess'.id = sess.id /\ sess'.records = sess.records
        BY <1>1, <4>1, SavedFields
      <4>3. CASE SkipVerify
        <5>1. Missing(sess.records) = {} /\ phase = "finalVerify"
          BY <4>3 DEF SkipVerify, MaySkipFinalVerify
        <5>2. "serving" \notin DecayPhases
          BY <4>3, ReceiverAssumption DEF SkipVerify, MaySkipFinalVerify
        <5>3. CorruptRecords(sess, temp[sess.id]) = {}
          BY <5>1, <5>2 DEF DataInv, VerifiedInv
        <5>4. Matches(temp[sess.id], sess.records)
          BY <1>1, <5>1, <5>3, CleanMatches
        <5> QED
          BY <1>1, <4>2, <5>4
      <4>4. CASE FlushManifest
        BY <1>1, <4>2, <4>4 DEF FlushManifest, DataInv, VerifiedInv
      <4> QED
        BY <3>2, <4>3, <4>4
    <3>3. CASE CheckOutput
      BY <1>1, <3>3 DEF CheckOutput, DataInv, VerifiedInv
    <3> QED
      BY <3>1, <3>2, <3>3
  <2> QED
    BY <1>2, <1>4, <2>1 DEF DataInv, VerifiedChunksIntact, FlushedBlocksInv, VerifiedInv
<1> QED
  BY <1>3, <1>4

(* The rename moves the matching file to the output path. *)
LEMMA PublishData ==
  ASSUME DataInv, RenameToOutput \/ SyncOutput
  PROVE  DataInv'
<1>1. phase' \in {"sync", "markCommitted", "failing"} /\ sess' = sess
  BY DEF RenameToOutput, SyncOutput, Continue, Abort
<1>2. CASE phase' = "failing"
  BY <1>2, OtherPhaseData
<1>3. CASE phase' # "failing"
  <2>1. Matches(output', sess'.records)
    BY <1>1, <1>3 DEF RenameToOutput, SyncOutput, Abort, disk, DataInv, VerifiedInv
  <2> QED
    BY <1>1, <1>3, <2>1 DEF DataInv, VerifiedChunksIntact, FlushedBlocksInv, VerifiedInv
<1> QED
  BY <1>2, <1>3

-----------------------------------------------------------------------------
(* Every step *)

(* A server starts, ends or fails; a block of a temp file decays. *)
LEMMA OtherStepData ==
  ASSUME ControlInv, DataInv,
         \/ \E o \in Options : StartServer(o) \/ RejectServer(o)
         \/ \E s \in Streams :
              \/ Accept(s) \/ RecvFin(s) \/ WriteFails(s) \/ ConnectionFails(s)
              \/ \E init \in Inits : InitRejected(s, init) \/ InitJoins(s, init)
              \/ \E c \in Chunks, p \in Positions : RefuseData(s, c, p)
              \/ \E c \in Chunks : RefuseChunk(s, c)
              \/ \E c \in Chunks : \E sum \in Sums(c) : RejectChunk(s, c, sum)
         \/ \E ok \in BOOLEAN : SendComplete(ok)
         \/ MarkCommitted \/ MarkFailedBestEffort \/ Kill \/ LoopFails
         \/ \E i \in Ids, p \in Positions, v \in Content : TempDecays(i, p, v)
         \/ UNCHANGED vars
  PROVE  DataInv'
<1>1. ASSUME NEW o \in Options, StartServer(o) \/ RejectServer(o) PROVE DataInv'
  <2>1. phase' \in {"down", "serving"} /\ ~sess'.open
    BY <1>1 DEF StartServer, RejectServer, process, ControlInv, ConnInv
  <2> QED
    BY <2>1 DEF DataInv, VerifiedChunksIntact, FlushedBlocksInv, VerifiedInv
<1>2. ASSUME NEW s \in Streams, Accept(s) \/ RecvFin(s) PROVE DataInv'
  <2>1. /\ phase = "serving" /\ phase' \in {"serving", "failing"}
        /\ UNCHANGED <<sess, rx, temp>>
    BY <1>2 DEF Accept, RecvFin, Receiving, Abort, disk
  <2> QED
    BY <2>1, ConnectionData, OtherPhaseData
<1>3. ASSUME NEW s \in Streams, NEW init \in Inits, InitJoins(s, init) PROVE DataInv'
  <2>1. /\ phase = "serving" /\ phase' \in {"serving", "failing"}
        /\ UNCHANGED <<sess, rx, temp>>
    BY <1>3 DEF InitJoins, Respond, RespondFails, Receiving, Continue, Abort, disk
  <2> QED
    BY <2>1, ConnectionData, OtherPhaseData
<1>4. ASSUME \/ \E s \in Streams :
                  \/ WriteFails(s) \/ ConnectionFails(s)
                  \/ \E init \in Inits : InitRejected(s, init)
                  \/ \E c \in Chunks, p \in Positions : RefuseData(s, c, p)
                  \/ \E c \in Chunks : RefuseChunk(s, c)
                  \/ \E c \in Chunks : \E sum \in Sums(c) : RejectChunk(s, c, sum)
             \/ \E ok \in BOOLEAN : SendComplete(ok)
             \/ MarkCommitted \/ MarkFailedBestEffort \/ Kill \/ LoopFails
      PROVE  DataInv'
  <2>1. phase' \in {"down", "failing", "complete"}
    BY <1>4 DEF WriteFails, ConnectionFails, InitRejected, RefuseData, RefuseChunk,
       RejectChunk, SendComplete, MarkCommitted, MarkFailedBestEffort, Kill, LoopFails,
       Abort, Exit, Continue
  <2> QED
    BY <2>1, OtherPhaseData
<1>5. ASSUME NEW i \in Ids, NEW p \in Positions, NEW v \in Content, TempDecays(i, p, v)
      PROVE  DataInv'
  <2>1. phase' = phase /\ phase \in DecayPhases /\ phase \in {"down", "serving"}
    BY <1>5, ReceiverAssumption DEF TempDecays, process
  <2> QED
    BY <2>1 DEF DataInv, VerifiedChunksIntact, FlushedBlocksInv, VerifiedInv
<1>6. CASE UNCHANGED vars
  <2>1. VerifiedChunksIntact' /\ FlushedBlocksInv'
    BY <1>6 DEF vars, DataInv, VerifiedChunksIntact, FlushedBlocksInv, InFlight, Flushed
  <2>2. VerifiedInv'
    BY <1>6 DEF vars, DataInv, VerifiedInv
  <2> QED
    BY <2>1, <2>2 DEF DataInv
<1> QED
  BY <1>1, <1>2, <1>3, <1>4, <1>5, <1>6

(* Every step of the receiver and of its environment. *)
LEMMA DataStep ==
  ASSUME ControlInv, DataInv, [Next]_vars
  PROVE  DataInv'
<1>1. ASSUME NEW s \in Streams, Receive(s) PROVE DataInv'
  <2>1. ASSUME NEW init \in Inits, RecvInit(s, init) PROVE DataInv'
    BY <2>1, OtherStepData, OpeningData DEF RecvInit
  <2>2. ASSUME NEW c \in Chunks, NEW p \in Positions, NEW v \in Content, RecvData(s, c, p, v)
        PROVE  DataInv'
    BY <2>2, OtherStepData, AcceptDataData DEF RecvData
  <2>3. ASSUME NEW c \in Chunks, NEW sum \in Sums(c), RecvChunkComplete(s, c, sum)
        PROVE  DataInv'
    BY <2>3, OtherStepData, RecordChunkData DEF RecvChunkComplete
  <2> QED
    BY <1>1, <2>1, <2>2, <2>3, OtherStepData DEF Receive
<1>2. CASE ServerStep
  BY <1>2, OpeningData, SaveInitData, AllFinData, VerifyData, PublishData, OtherStepData
     DEF ServerStep
<1>3. CASE Environment
  BY <1>3, OtherStepData DEF Environment
<1> QED
  BY <1>1, <1>2, <1>3, OtherStepData DEF Next, Start

(* The only steps that change the manifest, with what they write, and the    *)
(* only step that changes the output.                                        *)
LEMMA DiskStep ==
  ASSUME ControlInv, [Next]_vars
  PROVE  /\ \/ manifest' = manifest
            \/ /\ sess.open /\ phase \notin {"down", "complete"}
               /\ manifest'.state \in {"Transferring", "Failed"}
               /\ manifest'.id = sess.id
            \/ /\ phase = "markCommitted"
               /\ manifest' = ManifestOf(sess, "Committed")
               /\ output' = output
         /\ \/ output' = output
            \/ phase = "rename" /\ output' = temp[sess.id] /\ manifest' = manifest
<1> DEFINE Unchanged == UNCHANGED <<output, manifest>>
           Saves == /\ sess.open /\ phase \notin {"down", "complete"}
                    /\ manifest'.state \in {"Transferring", "Failed"}
                    /\ manifest'.id = sess.id
                    /\ output' = output
<1> SUFFICES \/ Unchanged
             \/ Saves
             \/ /\ phase = "markCommitted" /\ output' = output
                /\ manifest' = ManifestOf(sess, "Committed")
             \/ phase = "rename" /\ output' = temp[sess.id] /\ manifest' = manifest
  OBVIOUS
<1>1. sess \in Sessions
  BY DEF ControlInv, TypeOK
<1>2. CASE Start
  BY <1>2 DEF Start, StartServer, RejectServer, disk
<1>3. ASSUME NEW s \in Streams, Accept(s) \/ Receive(s)
      PROVE  Unchanged \/ Saves
  <2>1. CASE Accept(s)
    BY <2>1 DEF Accept, disk
  <2>2. ASSUME NEW init \in Inits, RecvInit(s, init) PROVE Unchanged
    BY <2>2 DEF RecvInit, InitRejected, InitJoins, InitOpens, disk
  <2>3. ASSUME NEW c \in Chunks, NEW p \in Positions, NEW v \in Content, RecvData(s, c, p, v)
        PROVE  Unchanged
    BY <2>3 DEF RecvData, AcceptData, RefuseData, disk
  <2>4. ASSUME NEW c \in Chunks, NEW sum \in Sums(c), RecvChunkComplete(s, c, sum)
        PROVE  Unchanged \/ Saves
    <3>1. CASE RefuseChunk(s, c) \/ RejectChunk(s, c, sum)
      BY <3>1 DEF RefuseChunk, RejectChunk, disk
    <3>2. CASE RecordChunk(s, c, sum)
      <4>1. phase = "serving" /\ sess.open /\ output' = output
        BY <3>2 DEF RecordChunk, MatchesActive, Receiving, ControlInv, ConnInv
      <4>2. \/ manifest' = manifest
            \/ manifest' = ManifestOf(RecordVerifiedChunk(sess, c, sum), "Transferring")
        BY <3>2 DEF RecordChunk, Save, SaveFails
      <4>3. RecordVerifiedChunk(sess, c, sum).id = sess.id
        BY <1>1, RecordVerifiedFields
      <4> QED
        BY <4>1, <4>2, <4>3 DEF ManifestOf
    <3> QED
      BY <2>4, <3>1, <3>2 DEF RecvChunkComplete
  <2>5. CASE RecvFin(s) \/ ConnectionFails(s)
    BY <2>5 DEF RecvFin, ConnectionFails, disk
  <2> QED
    BY <1>3, <2>1, <2>2, <2>3, <2>4, <2>5 DEF Receive
<1>4. CASE OpenOutput \/ AllFin \/ CheckOutput \/ SyncOutput
  BY <1>4 DEF OpenOutput, AllFin, CheckOutput, SyncOutput, disk
<1>5. CASE Precheck \/ FullVerify
  BY <1>5, VerifyTempStep
<1>6. CASE SaveInit \/ SkipVerify \/ FlushManifest
  <2>1. sess.open /\ phase \notin {"down", "complete"} /\ output' = output
    BY <1>6 DEF SaveInit, SkipVerify, FlushManifest, ControlInv, PhaseInv, Committing
  <2>2. manifest' = manifest \/ manifest' = ManifestOf(sess, "Transferring")
    BY <1>6 DEF SaveInit, SkipVerify, FlushManifest, FlushManifestThen, Save, SaveFails
  <2> QED
    BY <2>1, <2>2 DEF ManifestOf
<1>7. CASE RenameToOutput
  BY <1>7 DEF RenameToOutput
<1>8. CASE MarkCommitted
  BY <1>8 DEF MarkCommitted, Save
<1>9. CASE MarkFailedBestEffort
  BY <1>9 DEF MarkFailedBestEffort, ManifestOf
<1>10. CASE \E ok \in BOOLEAN : SendComplete(ok)
  BY <1>10 DEF SendComplete, disk
<1>11. CASE Environment
  BY <1>11 DEF Environment, Kill, LoopFails, WriteFails, TempDecays, disk
<1>12. CASE UNCHANGED vars
  BY <1>12 DEF vars
<1> QED
  BY <1>2, <1>3, <1>4, <1>5, <1>6, <1>7, <1>8, <1>9, <1>10, <1>11, <1>12 DEF Next, ServerStep

(* Success is reported only from the phase after markCommitted. *)
LEMMA AckStep ==
  ASSUME ControlInv, [Next]_vars
  PROVE  /\ outcome' = "ok" => outcome = "ok" \/ phase = "complete"
         /\ \A s \in Streams : final'[s] = "Complete" => final[s] = "Complete" \/ phase = "complete"
<1> DEFINE Quiet == /\ outcome' = "ok" => outcome = "ok" \/ phase = "complete"
                    /\ \/ phase = "complete" \/ final' = final \/ final' = FrameToAll("Error")
                       \/ final' = [s \in Streams |-> "none"]
<1>1. Quiet
  <2>1. CASE Start
    BY <2>1 DEF Start, StartServer, RejectServer
  <2>2. ASSUME NEW s \in Streams, Accept(s) \/ Receive(s) PROVE Quiet
    BY <2>2 DEF Accept, Receive, RecvInit, InitRejected, InitJoins, InitOpens, Respond, RespondFails,
       RecvData, AcceptData, RefuseData, RecvChunkComplete, RefuseChunk, RejectChunk, RecordChunk,
       RecvFin, ConnectionFails, Abort, Continue, replies
  <2>3. CASE OpenOutput \/ Precheck \/ SaveInit
    BY <2>3 DEF OpenOutput, Precheck, VerifyTemp, SaveInit, Respond, RespondFails, Abort, Continue
  <2>4. CASE AllFin \/ SkipVerify \/ FullVerify \/ FlushManifest \/ CheckOutput
    BY <2>4 DEF AllFin, SkipVerify, FullVerify, VerifyTemp, FlushManifest, FlushManifestThen,
       CheckOutput, Abort, Continue
  <2>5. CASE RenameToOutput \/ SyncOutput \/ MarkCommitted \/ MarkFailedBestEffort
    BY <2>5 DEF RenameToOutput, SyncOutput, MarkCommitted, MarkFailedBestEffort, Exit, Abort, Continue
  <2>6. CASE \E ok \in BOOLEAN : SendComplete(ok)
    BY <2>6 DEF SendComplete
  <2>7. CASE Environment
    BY <2>7 DEF Environment, Kill, LoopFails, WriteFails, TempDecays, Exit, Abort, replies
  <2>8. CASE UNCHANGED vars
    BY <2>8 DEF vars
  <2> QED
    BY <2>1, <2>2, <2>3, <2>4, <2>5, <2>6, <2>7, <2>8 DEF Next, ServerStep
<1> QED
  BY <1>1 DEF FrameToAll

-----------------------------------------------------------------------------
(* The theorems *)

(* The first state satisfies the inductive invariant. *)
LEMMA InductiveInit == Init => InductiveInv
<1> SUFFICES ASSUME Init PROVE InductiveInv
  OBVIOUS
<1>1. DataInv
  BY DEF Init, DataInv, VerifiedChunksIntact, FlushedBlocksInv, VerifiedInv
<1>2. Integrity /\ AckAfterCommit
  BY DEF Init, NoManifest, Integrity, AckAfterCommit, Committed
<1> QED
  BY <1>1, <1>2, ControlInit DEF InductiveInv, ControlInv, DataInv

(* Every step preserves it. *)
LEMMA InductiveStep == InductiveInv /\ [Next]_vars => InductiveInv'
<1> SUFFICES ASSUME InductiveInv, [Next]_vars PROVE InductiveInv'
  OBVIOUS
<1>1. ControlInv /\ DataInv
  BY DEF InductiveInv, ControlInv, DataInv
<1>2. ControlInv' /\ DataInv'
  BY <1>1, ControlStep, DataStep
<1>3. Integrity'
  <2>1. CASE manifest' = manifest
    <3>1. output' # output => ~Committed
      BY <1>1, DiskStep DEF ControlInv, PhaseInv, Committing
    <3> QED
      BY <2>1, <3>1 DEF InductiveInv, Integrity, Committed
  <2>2. CASE manifest'.state \in {"Transferring", "Failed"}
    BY <2>2 DEF Integrity, Committed
  <2>3. CASE phase = "markCommitted" /\ output' = output /\ manifest' = ManifestOf(sess, "Committed")
    BY <1>1, <2>3 DEF DataInv, VerifiedInv, Integrity, ManifestOf
  <2> QED
    BY <1>1, <2>1, <2>2, <2>3, DiskStep
<1>4. AckAfterCommit'
  <2>1. Committed => manifest' = manifest
    BY <1>1, DiskStep DEF ControlInv, PhaseInv, Committing
  <2>2. phase = "complete" => Committed
    BY <1>1 DEF ControlInv, PhaseInv
  <2> QED
    BY <1>1, <2>1, <2>2, AckStep DEF InductiveInv, AckAfterCommit, Committed
<1> QED
  BY <1>2, <1>3, <1>4 DEF InductiveInv, ControlInv, DataInv

(* The inductive invariant holds in every reachable state. *)
THEOREM Inductive == Spec => []InductiveInv
BY InductiveInit, InductiveStep, PTL DEF Spec

(* A manifest that says Committed describes the file at the output path,     *)
(* whatever the senders, kills, I/O errors and decaying blocks did before.   *)
THEOREM CommittedIntegrity == Spec => []Integrity
<1>1. InductiveInv => Integrity
  BY DEF InductiveInv
<1> QED
  BY <1>1, Inductive, PTL

(* COMPLETE is sent, and success reported, only after markCommitted. *)
THEOREM Acknowledged == Spec => []AckAfterCommit
<1>1. InductiveInv => AckAfterCommit
  BY DEF InductiveInv
<1> QED
  BY <1>1, Inductive, PTL

(* While data is received, a verified chunk is intact in the temp file apart *)
(* from blocks that some stream is writing again.                            *)
THEOREM VerifiedStaysIntact == Spec => []VerifiedChunksIntact
<1>1. InductiveInv => VerifiedChunksIntact
  BY DEF InductiveInv
<1> QED
  BY <1>1, Inductive, PTL

(* Skipping the final verification never overlooks a corrupt chunk. *)
THEOREM SkippingIsSound == Spec => []SkipIsSound
<1>1. InductiveInv => SkipIsSound
  <2>1. MaySkipFinalVerify(sess) => "serving" \notin DecayPhases
    BY ReceiverAssumption DEF MaySkipFinalVerify
  <2> QED
    BY <2>1 DEF InductiveInv, VerifiedInv, SkipIsSound
<1> QED
  BY <1>1, Inductive, PTL

(* The rename publishes only what matches the records, and replaces a file   *)
(* only under --overwrite.                                                   *)
THEOREM PublishesVerified == Spec => PublishesVerifiedOnly
<1>1. InductiveInv /\ [Next]_vars =>
        [output' # output => /\ output = NoFile \/ opts.overwrite
                             /\ Matches(output', sess.records)]_vars
  <2> SUFFICES ASSUME InductiveInv, [Next]_vars, output' # output
               PROVE  /\ output = NoFile \/ opts.overwrite
                      /\ Matches(output', sess.records)
    OBVIOUS
  <2>1. phase = "rename" /\ output' = temp[sess.id]
    BY DiskStep DEF InductiveInv, ControlInv
  <2> QED
    BY <2>1 DEF InductiveInv, PhaseInv, VerifiedInv
<1> QED
  BY <1>1, Inductive, PTL DEF Spec, PublishesVerifiedOnly

(* Once Committed, the manifest and the output never change again. *)
THEOREM CommitIsFinal == Spec => CommittedIsFinal
<1>1. InductiveInv /\ [Next]_vars => [Committed => UNCHANGED <<output, manifest>>]_vars
  <2> SUFFICES ASSUME InductiveInv, [Next]_vars, Committed
               PROVE  UNCHANGED <<output, manifest>>
    OBVIOUS
  <2>1. ControlInv
    BY DEF InductiveInv, ControlInv
  <2> QED
    BY <2>1, DiskStep DEF ControlInv, PhaseInv, Committing
<1> QED
  BY <1>1, Inductive, PTL DEF Spec, CommittedIsFinal

(* The session works on the transfer the manifest is about. *)
IdInv == sess.open /\ manifest.state # "Absent" => manifest.id = sess.id

(* The id of an open session changes only when a SessionInit opens it: then  *)
(* it is the manifest's, or there is no manifest.                            *)
LEMMA SessionStep ==
  ASSUME ControlInv, [Next]_vars
  PROVE  \/ ~sess'.open
         \/ sess.open /\ sess'.id = sess.id
         \/ manifest' = manifest /\ (manifest.state = "Absent" \/ sess'.id = manifest.id)
<1> DEFINE Keeps == ~sess'.open \/ (sess.open /\ sess'.id = sess.id)
           Opens == manifest' = manifest /\ (manifest.state = "Absent" \/ sess'.id = manifest.id)
<1>1. sess \in Sessions
  BY DEF ControlInv, TypeOK
<1>2. sess' = sess => Keeps
  OBVIOUS
<1>3. ASSUME NEW s \in Streams, Receive(s) PROVE Keeps \/ Opens
  <2>1. ASSUME NEW init \in Inits, InitOpens(s, init) PROVE Opens
    <3>1. CASE init.resume
      BY <2>1, <3>1 DEF InitOpens, Resume, disk
    <3>2. CASE ~init.resume
      <4>1. ~opts.resume /\ phase = "serving" /\ ~sess.open /\ manifest' = manifest
        BY <2>1, <3>2 DEF InitOpens, InitAcceptable, Receiving, disk
      <4> QED
        BY <4>1 DEF ControlInv, PhaseInv
    <3> QED
      BY <3>1, <3>2
  <2>2. ASSUME NEW c \in Chunks, NEW sum \in Sums(c), RecordChunk(s, c, sum) PROVE Keeps
    <3> DEFINE after == RecordVerifiedChunk(sess, c, sum)
    <3>1. sess.open
      BY <2>2 DEF RecordChunk, MatchesActive, ControlInv, ConnInv
    <3>2. after \in Sessions /\ after.id = sess.id
      BY <1>1, RecordVerifiedType, RecordVerifiedFields
    <3>3. sess' = after \/ sess' = Saved(after)
      BY <2>2 DEF RecordChunk, Save, SaveFails
    <3> HIDE DEF after
    <3> QED
      BY <3>1, <3>2, <3>3, SavedFields
  <2>3. \/ sess' = sess
        \/ \E init \in Inits : InitOpens(s, init)
        \/ \E c \in Chunks : \E sum \in Sums(c) : RecordChunk(s, c, sum)
    BY <1>3 DEF Receive, RecvInit, InitRejected, InitJoins, RecvData, AcceptData, RefuseData,
       RecvChunkComplete, RefuseChunk, RejectChunk, RecvFin, ConnectionFails
  <2> QED
    BY <1>2, <2>1, <2>2, <2>3
<1>4. CASE Precheck \/ FullVerify
  BY <1>4, VerifyTempStep
<1>5. CASE SaveInit \/ SkipVerify \/ FlushManifest \/ MarkCommitted
  <2>1. sess.open
    BY <1>5 DEF SaveInit, SkipVerify, FlushManifest, MarkCommitted, ControlInv, PhaseInv, Committing
  <2>2. sess' = sess \/ sess' = Saved(sess) \/ sess' = NoSession
    BY <1>5 DEF SaveInit, SkipVerify, FlushManifest, FlushManifestThen, MarkCommitted,
       Save, SaveFails, Exit
  <2> QED
    BY <1>1, <2>1, <2>2, SavedFields, NoSessionType
<1>6. CASE \/ OpenOutput \/ AllFin \/ CheckOutput \/ RenameToOutput \/ SyncOutput
           \/ Start \/ (\E s \in Streams : Accept(s)) \/ UNCHANGED vars
  BY <1>6 DEF OpenOutput, AllFin, CheckOutput, RenameToOutput, SyncOutput, vars,
     Start, StartServer, RejectServer, process, Accept
<1>7. CASE MarkFailedBestEffort \/ (\E ok \in BOOLEAN : SendComplete(ok)) \/ Environment
  <2>1. sess' = sess \/ sess' = NoSession
    BY <1>7 DEF MarkFailedBestEffort, SendComplete, Environment, Kill, LoopFails, WriteFails,
       TempDecays, process, Exit
  <2> QED
    BY <1>2, <2>1, NoSessionType
<1> QED
  BY <1>3, <1>4, <1>5, <1>6, <1>7 DEF Next, ServerStep

(* No server replaces the progress of one transfer by that of another. *)
THEOREM OneTransfer == Spec => OneTransferPerOutput
<1>1. Init => IdInv
  BY NoSessionType DEF Init, IdInv
<1>2. InductiveInv /\ IdInv /\ [Next]_vars => IdInv'
  <2> SUFFICES ASSUME InductiveInv, IdInv, [Next]_vars PROVE IdInv'
    OBVIOUS
  <2>1. ControlInv
    BY DEF InductiveInv, ControlInv
  <2> QED
    BY <2>1, SessionStep, DiskStep DEF IdInv, ManifestOf, ControlInv, PhaseInv, Committing
<1>3. InductiveInv /\ IdInv /\ [Next]_vars =>
        [manifest.state # "Absent" =>
           manifest'.state # "Absent" /\ manifest'.id = manifest.id]_vars
  <2> SUFFICES ASSUME InductiveInv, IdInv, [Next]_vars, manifest.state # "Absent"
               PROVE  manifest'.state # "Absent" /\ manifest'.id = manifest.id
    OBVIOUS
  <2>1. ControlInv
    BY DEF InductiveInv, ControlInv
  <2> QED
    BY <2>1, DiskStep DEF IdInv, ManifestOf, ControlInv, PhaseInv, Committing
<1> QED
  BY <1>1, <1>2, <1>3, Inductive, PTL DEF Spec, OneTransferPerOutput
-----------------------------------------------------------------------------
(* What a kill, an I/O error or a lost temp file can cost: while data is     *)
(* received the manifest on disk is less than one flush interval behind the  *)
(* session (BoundedLoss), and a transfer no server can take up again has     *)
(* either verified nothing or left its whole file at the output path         *)
(* (StuckLosesNothing).                                                      *)

(* The chunks whose record the manifest on disk does not have. *)
Lag == {c \in Chunks : manifest.records[c] # sess.records[c]}

(* BoundedLoss made inductive: the dirty count of the session bounds what    *)
(* the manifest lacks, and stays below the flush interval between handlers.  *)
LagInv ==
  phase = "serving" /\ sess.open =>
    /\ \A c \in Chunks : manifest.records[c] \in {NoRecord, sess.records[c]}
    /\ FlushPolicy = "every_n_chunks" =>
         Cardinality(Lag) <= sess.dirty /\ sess.dirty < FlushInterval

(* The records of a transfer without a temp file lost nothing. *)
NothingLost(id, records) ==
  temp[id] = NoFile => records = NoRecords \/ Matches(output, records)

(* StuckLosesNothing made inductive: it holds of the session too, and by the *)
(* time of the rename the manifest says what the session knows.              *)
LossInv ==
  /\ manifest.state # "Committed" => NothingLost(manifest.id, manifest.records)
  /\ sess.open => NothingLost(sess.id, sess.records)
  /\ phase \in {"exists", "rename"} => manifest = ManifestOf(sess, "Transferring")

-----------------------------------------------------------------------------
(* The manifest lags less than one flush interval *)

(* A plan has finitely many chunks. *)
LEMMA ChunksFinite == IsFiniteSet(Chunks)
<1> DEFINE f == [p \in Positions |-> p \div ChunkBlocks]
<1>1. IsFiniteSet(Positions)
  BY SessionAssumption, FS_Interval DEF Positions
<1>2. f \in Surjection(Positions, Chunks)
  BY DEF Surjection, Chunks
<1> QED
  BY <1>1, <1>2, FS_Surjection

(* recordVerifiedChunk: a repeated record changes nothing, a first one adds  *)
(* its chunk and counts as one more dirty chunk.                             *)
LEMMA RecordVerifiedCounts ==
  ASSUME NEW session \in Sessions, NEW c \in Chunks, NEW sum \in Sums(c),
         RecordAccepted(session, c, sum)
  PROVE  \/ RecordVerifiedChunk(session, c, sum) = session
         \/ /\ session.records[c] = NoRecord
            /\ RecordVerifiedChunk(session, c, sum).dirty = session.dirty + 1
<1>1. session.dirty + 1 \in Nat
  BY DEF Sessions
<1> QED
  BY <1>1 DEF RecordAccepted, RecordVerifiedChunk, Sessions

(* In the receive phase only the save at the end of the SessionInit and a    *)
(* recorded chunk touch the session or the manifest.                         *)
LEMMA ServingStep ==
  ASSUME ControlInv, [Next]_vars, phase' = "serving", sess'.open
  PROVE  \/ SaveInit
         \/ \E s \in Streams, c \in Chunks : \E sum \in Sums(c) : RecordChunk(s, c, sum)
         \/ phase = "serving" /\ UNCHANGED <<sess, manifest>>
<1> DEFINE Same == phase = "serving" /\ UNCHANGED <<sess, manifest>>
           ChunkRecorded == \E s \in Streams, c \in Chunks : \E sum \in Sums(c) : RecordChunk(s, c, sum)
<1>1. CASE Start
  BY <1>1 DEF Start, StartServer, RejectServer, process, ControlInv, ConnInv
<1>2. ASSUME NEW s \in Streams, Accept(s) \/ Receive(s)
      PROVE  Same \/ ChunkRecorded
  <2>1. CASE Accept(s) \/ RecvFin(s) \/ ConnectionFails(s)
    BY <2>1 DEF Accept, RecvFin, ConnectionFails, Receiving, disk
  <2>2. ASSUME NEW init \in Inits, RecvInit(s, init) PROVE Same
    BY <2>2 DEF RecvInit, InitRejected, InitJoins, InitOpens, Receiving, disk
  <2>3. ASSUME NEW c \in Chunks, NEW p \in Positions, NEW v \in Content, RecvData(s, c, p, v)
        PROVE  Same
    BY <2>3 DEF RecvData, AcceptData, RefuseData, Receiving, disk
  <2>4. ASSUME NEW c \in Chunks, NEW sum \in Sums(c), RecvChunkComplete(s, c, sum)
        PROVE  Same \/ ChunkRecorded
    BY <2>4 DEF RecvChunkComplete, RefuseChunk, RejectChunk, Receiving, disk
  <2> QED
    BY <1>2, <2>1, <2>2, <2>3, <2>4 DEF Receive
<1>3. CASE ServerStep
  <2>1. CASE OpenOutput \/ AllFin \/ SkipVerify \/ FlushManifest \/ CheckOutput
    BY <2>1 DEF OpenOutput, AllFin, SkipVerify, FlushManifest, FlushManifestThen, CheckOutput,
       Continue, Abort
  <2>2. CASE Precheck \/ FullVerify
    BY <2>2 DEF Precheck, FullVerify, VerifyTemp, Continue, Abort
  <2>3. CASE RenameToOutput \/ SyncOutput \/ MarkCommitted \/ MarkFailedBestEffort
    BY <2>3 DEF RenameToOutput, SyncOutput, MarkCommitted, MarkFailedBestEffort, Continue, Abort, Exit
  <2> QED
    BY <1>3, <2>1, <2>2, <2>3 DEF ServerStep
<1>4. CASE \E ok \in BOOLEAN : SendComplete(ok)
  BY <1>4 DEF SendComplete, Exit
<1>5. CASE Environment
  BY <1>5 DEF Environment, Kill, LoopFails, WriteFails, TempDecays, Abort, Exit, process
<1>6. CASE UNCHANGED vars
  BY <1>6 DEF vars
<1> QED
  BY <1>1, <1>2, <1>3, <1>4, <1>5, <1>6 DEF Next

(* A recorded chunk is one more dirty chunk, or the flush is due. *)
LEMMA RecordChunkLag ==
  ASSUME ControlInv, LagInv, phase' = "serving",
         NEW s \in Streams, NEW c \in Chunks, NEW sum \in Sums(c), RecordChunk(s, c, sum)
  PROVE  LagInv'
<1> DEFINE after == RecordVerifiedChunk(sess, c, sum)
<1>1. /\ phase = "serving" /\ sess.open /\ sess \in Sessions /\ manifest \in Manifests
      /\ RecordAccepted(sess, c, sum)
  BY DEF RecordChunk, ChunkVerified, MatchesActive, Receiving, ControlInv, TypeOK, ConnInv
<1>2. /\ after \in Sessions /\ after.records = [sess.records EXCEPT ![c] = sum]
      /\ \/ after = sess
         \/ sess.records[c] = NoRecord /\ after.dirty = sess.dirty + 1
  BY <1>1, RecordVerifiedType, RecordVerifiedFields, RecordVerifiedCounts
<1>3. \/ ~FlushDue(sess, after) /\ sess' = after /\ manifest' = manifest
      \/ FlushDue(sess, after) /\ Save(after, "Transferring")
  BY DEF RecordChunk, Abort
<1> HIDE DEF after
<1>4. sess.dirty \in Nat /\ after.dirty \in Nat /\ FlushInterval \in Nat \ {0}
  BY <1>1, <1>2, SessionAssumption DEF Sessions
<1>5. CASE FlushDue(sess, after) /\ Save(after, "Transferring")
  <2>1. sess'.records = after.records /\ sess'.dirty = 0 /\ manifest'.records = after.records
    BY <1>2, <1>5, SavedFields DEF Save, Saved, ManifestOf, Sessions
  <2>2. Lag' = {}
    BY <2>1 DEF Lag
  <2> QED
    BY <1>4, <2>1, <2>2, FS_EmptySet DEF LagInv
<1>6. CASE after = sess /\ sess' = sess /\ manifest' = manifest
  BY <1>1, <1>6 DEF LagInv, Lag
<1>7. CASE /\ sess.records[c] = NoRecord /\ after.dirty = sess.dirty + 1
           /\ ~FlushDue(sess, after) /\ sess' = after /\ manifest' = manifest
  <2>1. \A d \in Chunks \ {c} : sess'.records[d] = sess.records[d]
    BY <1>1, <1>2, <1>7 DEF Sessions, Records
  <2>2. manifest.records[c] = NoRecord
    BY <1>1, <1>7 DEF LagInv
  <2>3. \A d \in Chunks : manifest'.records[d] \in {NoRecord, sess'.records[d]}
    BY <1>1, <1>7, <2>1, <2>2 DEF LagInv
  <2>4. ASSUME FlushPolicy = "every_n_chunks"
        PROVE  Cardinality(Lag') <= sess'.dirty /\ sess'.dirty < FlushInterval
    <3>1. sess'.dirty = sess.dirty + 1 /\ sess'.dirty < FlushInterval
      BY <1>4, <1>7, <2>4 DEF FlushDue
    <3>2. IsFiniteSet(Lag) /\ IsFiniteSet(Lag \cup {c})
      BY ChunksFinite, FS_Subset, FS_AddElement DEF Lag
    <3>3. Lag' \in SUBSET (Lag \cup {c})
      BY <1>7, <2>1 DEF Lag
    <3>4. Cardinality(Lag') <= Cardinality(Lag \cup {c})
      BY <3>2, <3>3, FS_Subset
    <3>5. Cardinality(Lag \cup {c}) <= Cardinality(Lag) + 1
      BY <3>2, FS_AddElement, FS_CardinalityType
    <3>6. Cardinality(Lag) <= sess.dirty
      BY <1>1, <2>4 DEF LagInv
    <3>7. /\ Cardinality(Lag) \in Nat /\ Cardinality(Lag \cup {c}) \in Nat
          /\ Cardinality(Lag') \in Nat
      BY <3>2, <3>3, FS_Subset, FS_CardinalityType
    <3> QED
      BY <1>4, <3>1, <3>4, <3>5, <3>6, <3>7
  <2> QED
    BY <2>3, <2>4 DEF LagInv
<1> QED
  BY <1>2, <1>3, <1>4, <1>5, <1>6, <1>7 DEF FlushDue

(* Every step keeps the lag below one flush interval. *)
LEMMA LagStep ==
  ASSUME ControlInv, LagInv, [Next]_vars
  PROVE  LagInv'
<1> SUFFICES ASSUME phase' = "serving", sess'.open PROVE LagInv'
  BY DEF LagInv
<1>1. CASE SaveInit
  <2>1. sess \in Sessions /\ Save(sess, "Transferring")
    BY <1>1 DEF SaveInit, Abort, ControlInv, TypeOK
  <2>2. sess'.records = sess.records /\ sess'.dirty = 0 /\ manifest'.records = sess.records
    BY <2>1, SavedFields DEF Save, Saved, ManifestOf, Sessions
  <2>3. Lag' = {}
    BY <2>2 DEF Lag
  <2> QED
    BY <2>2, <2>3, FS_EmptySet, SessionAssumption DEF LagInv
<1>2. CASE phase = "serving" /\ UNCHANGED <<sess, manifest>>
  BY <1>2 DEF LagInv, Lag
<1> QED
  BY <1>1, <1>2, ServingStep, RecordChunkLag

(* All that a kill can cost is less than one flush interval of chunks, and   *)
(* the manifest never claims a chunk that was not verified.                  *)
THEOREM LossBounded == Spec => []BoundedLoss
<1>1. Init => LagInv
  BY DEF Init, LagInv
<1>2. InductiveInv /\ LagInv /\ [Next]_vars => LagInv'
  BY LagStep DEF InductiveInv, ControlInv
<1>3. InductiveInv /\ LagInv => BoundedLoss
  <2> SUFFICES ASSUME InductiveInv, LagInv, phase = "serving", sess.open,
                      FlushPolicy = "every_n_chunks"
               PROVE  Cardinality(Lag) < FlushInterval
    BY DEF LagInv, BoundedLoss, Lag
  <2>1. Cardinality(Lag) \in Nat
    BY ChunksFinite, FS_Subset, FS_CardinalityType DEF Lag
  <2>2. sess.dirty \in Nat /\ FlushInterval \in Nat
    BY SessionAssumption DEF InductiveInv, TypeOK, Sessions
  <2> QED
    BY <2>1, <2>2 DEF LagInv
<1> QED
  BY <1>1, <1>2, <1>3, Inductive, PTL DEF Spec

-----------------------------------------------------------------------------
(* A transfer without a temp file lost nothing *)

(* Blocks written to the temp file leave every temp file where it was. *)
LEMMA WriteKeepsTemp ==
  ASSUME ControlInv, NEW s \in Streams, Receiving(s), conn[s].ready,
         NEW acc \in Image, NEW lo, NEW hi, Write(acc, lo, hi)
  PROVE  temp'[sess.id] # NoFile /\ \A i \in Ids : temp'[i] = NoFile => temp[i] = NoFile
<1>1. /\ sess.id \in Ids /\ temp \in [Ids -> Image \cup {NoFile}]
      /\ temp[sess.id] \in Image
  BY ReceivingFacts
<1>2. Overlay(temp[sess.id], acc, lo, hi) \in Image
  BY <1>1, OverlayType
<1> QED
  BY <1>1, <1>2, SessionAssumption DEF Write

(* The frames that write blocks: DATA and ChunkComplete, and a failing write. *)
LEMMA BlocksWritten ==
  ASSUME ControlInv, NEW s \in Streams,
         \/ \E c \in Chunks, p \in Positions, v \in Content : AcceptData(s, c, p, v)
         \/ WriteFails(s)
         \/ \E c \in Chunks : \E sum \in Sums(c) : RejectChunk(s, c, sum) \/ RecordChunk(s, c, sum)
  PROVE  /\ temp'[sess.id] # NoFile
         /\ \A i \in Ids : temp'[i] = NoFile => temp[i] = NoFile
<1> DEFINE Kept == /\ temp'[sess.id] # NoFile
                   /\ \A i \in Ids : temp'[i] = NoFile => temp[i] = NoFile
<1>1. ASSUME NEW c \in Chunks, NEW p \in Positions, NEW v \in Content, AcceptData(s, c, p, v)
      PROVE  Kept
  <2> DEFINE k == Current(s, c, p)
             acc == [k.acc EXCEPT ![p] = v]
  <2>1. Receiving(s) /\ DataAcceptable(s, c, p) /\ conn[s].ready
    BY <1>1 DEF AcceptData, DataAcceptable
  <2>2. k.acc \in Image
    BY <2>1, CurrentFacts
  <2>3. acc \in Image
    BY <2>2, BlockType
  <2>4. PICK f \in {k.flushed, p, p + 1} : Write(acc, k.flushed, f)
    BY <1>1 DEF AcceptData
  <2> HIDE DEF k, acc
  <2> QED
    BY <2>1, <2>3, <2>4, WriteKeepsTemp
<1>2. CASE WriteFails(s)
  <2>1. Receiving(s) /\ conn[s].ready
    BY <1>2 DEF WriteFails, ControlInv, ConnInv
  <2>2. PICK hi \in rx[s].flushed .. rx[s].next : Write(rx[s].acc, rx[s].flushed, hi)
    BY <1>2 DEF WriteFails
  <2> QED
    BY <2>1, <2>2, ReceivingFacts, WriteKeepsTemp
<1>3. ASSUME NEW c \in Chunks, NEW sum \in Sums(c),
             RejectChunk(s, c, sum) \/ RecordChunk(s, c, sum)
      PROVE  Kept
  <2>1. Receiving(s) /\ conn[s].ready /\ Write(rx[s].acc, rx[s].flushed, rx[s].next)
    BY <1>3 DEF RejectChunk, RecordChunk, MatchesActive, FlushChunk
  <2> QED
    BY <2>1, ReceivingFacts, WriteKeepsTemp
<1> QED
  BY <1>1, <1>2, <1>3

(* Only the rename takes a temp file away, and it is the session's; only the *)
(* rename changes the output.                                                *)
LEMMA TempStep ==
  ASSUME ControlInv, [Next]_vars
  PROVE  \/ /\ output' = output
            /\ \A i \in Ids : temp'[i] = NoFile => temp[i] = NoFile
         \/ /\ phase = "rename" /\ phase' = "sync" /\ output' = temp[sess.id]
            /\ temp' = [temp EXCEPT ![sess.id] = NoFile]
            /\ UNCHANGED <<sess, manifest>>
<1> DEFINE Kept == output' = output /\ \A i \in Ids : temp'[i] = NoFile => temp[i] = NoFile
           Renamed == /\ phase = "rename" /\ phase' = "sync" /\ output' = temp[sess.id]
                      /\ temp' = [temp EXCEPT ![sess.id] = NoFile]
                      /\ UNCHANGED <<sess, manifest>>
<1>0. output' = output /\ temp' = temp => Kept
  OBVIOUS
<1>1. CASE Start
  BY <1>1 DEF Start, StartServer, RejectServer, disk
<1>2. ASSUME NEW s \in Streams, Accept(s) \/ Receive(s) PROVE Kept
  <2>1. CASE Accept(s) \/ RecvFin(s) \/ ConnectionFails(s)
    BY <2>1 DEF Accept, RecvFin, ConnectionFails, disk
  <2>2. ASSUME NEW init \in Inits, RecvInit(s, init) PROVE Kept
    BY <2>2 DEF RecvInit, InitRejected, InitJoins, InitOpens, disk
  <2>3. ASSUME NEW c \in Chunks, NEW p \in Positions, NEW v \in Content, RecvData(s, c, p, v)
        PROVE  Kept
    <3>1. CASE RefuseData(s, c, p)
      BY <3>1 DEF RefuseData, disk
    <3>2. CASE AcceptData(s, c, p, v)
      <4>1. output' = output
        BY <3>2 DEF AcceptData
      <4> QED
        BY <3>2, <4>1, BlocksWritten
    <3> QED
      BY <2>3, <3>1, <3>2 DEF RecvData
  <2>4. ASSUME NEW c \in Chunks, NEW sum \in Sums(c), RecvChunkComplete(s, c, sum)
        PROVE  Kept
    <3>1. CASE RefuseChunk(s, c)
      BY <3>1 DEF RefuseChunk, disk
    <3>2. CASE RejectChunk(s, c, sum) \/ RecordChunk(s, c, sum)
      <4>1. output' = output
        BY <3>2 DEF RejectChunk, RecordChunk
      <4> QED
        BY <3>2, <4>1, BlocksWritten
    <3> QED
      BY <2>4, <3>1, <3>2 DEF RecvChunkComplete
  <2> QED
    BY <1>2, <2>1, <2>2, <2>3, <2>4 DEF Receive
<1>3. CASE OpenOutput
  <2>1. output' = output
    BY <1>3 DEF OpenOutput
  <2>2. temp' = temp \/ temp' = [temp EXCEPT ![sess.id] = EmptyImage]
    BY <1>3 DEF OpenOutput, CreateTemp
  <2>3. EmptyImage # NoFile /\ temp \in [Ids -> Image \cup {NoFile}]
    BY EmptyImageType, SessionAssumption DEF ControlInv, TypeOK
  <2> QED
    BY <2>1, <2>2, <2>3
<1>4. CASE Precheck \/ FullVerify
  BY <1>4, VerifyTempStep
<1>5. CASE SaveInit \/ AllFin \/ SkipVerify \/ FlushManifest \/ CheckOutput \/ SyncOutput
           \/ MarkCommitted \/ MarkFailedBestEffort
  BY <1>5 DEF SaveInit, AllFin, SkipVerify, FlushManifest, CheckOutput, SyncOutput,
     MarkCommitted, MarkFailedBestEffort, disk
<1>6. CASE RenameToOutput
  BY <1>6 DEF RenameToOutput, Continue
<1>7. CASE \E ok \in BOOLEAN : SendComplete(ok)
  BY <1>7 DEF SendComplete, disk
<1>8. CASE Kill \/ LoopFails \/ UNCHANGED vars
  BY <1>8 DEF Kill, LoopFails, disk, vars
<1>9. ASSUME NEW s \in Streams, WriteFails(s) PROVE Kept
  <2>1. output' = output
    BY <1>9 DEF WriteFails
  <2> QED
    BY <1>9, <2>1, BlocksWritten
<1>10. ASSUME NEW i \in Ids, NEW p \in Positions, NEW v \in Content, TempDecays(i, p, v)
       PROVE  Kept
  <2>1. temp[i] \in Image /\ temp \in [Ids -> Image \cup {NoFile}] /\ output' = output
    BY <1>10 DEF TempDecays, ControlInv, TypeOK
  <2> DEFINE decayed == [temp[i] EXCEPT ![p] = v]
  <2>2. decayed \in Image /\ temp' = [temp EXCEPT ![i] = decayed]
    BY <1>10, <2>1, BlockType DEF TempDecays
  <2> HIDE DEF decayed
  <2> QED
    BY <2>1, <2>2, SessionAssumption
<1> QED
  BY <1>1, <1>2, <1>3, <1>4, <1>5, <1>6, <1>7, <1>8, <1>9, <1>10
     DEF Next, ServerStep, Environment

(* What a step may do to the session's records: nothing, or something while  *)
(* the temp file is there, or a SessionInit takes them from the manifest.    *)
LEMMA RecordsStep ==
  ASSUME ControlInv, [Next]_vars, sess'.open
  PROVE  \/ sess.open /\ sess'.id = sess.id /\ sess'.records = sess.records
         \/ sess.open /\ sess'.id = sess.id /\ temp'[sess.id] # NoFile
         \/ sess'.records = NoRecords
         \/ /\ manifest.state # "Committed"
            /\ sess'.id = manifest.id /\ sess'.records = manifest.records
            /\ UNCHANGED <<output, temp>>
<1> DEFINE Same == sess.open /\ sess'.id = sess.id /\ sess'.records = sess.records
           Covered == sess.open /\ sess'.id = sess.id /\ temp'[sess.id] # NoFile
           Opened == \/ sess'.records = NoRecords
                     \/ /\ manifest.state # "Committed"
                        /\ sess'.id = manifest.id /\ sess'.records = manifest.records
                        /\ UNCHANGED <<output, temp>>
<1>0. sess \in Sessions /\ (sess' = sess => Same)
  BY DEF ControlInv, TypeOK
<1>1. ASSUME NEW s \in Streams, NEW init \in Inits, InitOpens(s, init) PROVE Opened
  <2>1. CASE init.resume
    <3>1. sess' = Resume(manifest) /\ UNCHANGED <<output, temp>>
      BY <1>1, <2>1 DEF InitOpens, disk
    <3>2. manifest.state # "Committed"
      BY <1>1, <2>1 DEF InitOpens, InitAcceptable, LoadedManifestValid
    <3> QED
      BY <3>1, <3>2 DEF Resume
  <2>2. CASE ~init.resume
    BY <1>1, <2>2 DEF InitOpens, CreateNew
  <2> QED
    BY <2>1, <2>2
<1>2. ASSUME NEW s \in Streams, NEW c \in Chunks, NEW sum \in Sums(c), RecordChunk(s, c, sum)
      PROVE  Covered
  <2> DEFINE after == RecordVerifiedChunk(sess, c, sum)
  <2>1. sess.open /\ temp'[sess.id] # NoFile
    BY <1>2, BlocksWritten DEF RecordChunk, MatchesActive, ControlInv, ConnInv
  <2>2. after \in Sessions /\ after.id = sess.id
    BY <1>0, RecordVerifiedType, RecordVerifiedFields
  <2>3. sess' = after \/ sess' = Saved(after)
    BY <1>2 DEF RecordChunk, Save, SaveFails
  <2> HIDE DEF after
  <2> QED
    BY <2>1, <2>2, <2>3, SavedFields
<1>3. ASSUME NEW s \in Streams, Accept(s) \/ Receive(s) PROVE Same \/ Covered \/ Opened
  <2>1. \/ sess' = sess
        \/ \E init \in Inits : InitOpens(s, init)
        \/ \E c \in Chunks : \E sum \in Sums(c) : RecordChunk(s, c, sum)
    BY <1>3 DEF Accept, Receive, RecvInit, InitRejected, InitJoins, RecvData, AcceptData, RefuseData,
       RecvChunkComplete, RefuseChunk, RejectChunk, RecvFin, ConnectionFails
  <2> QED
    BY <1>0, <1>1, <1>2, <2>1
<1>4. CASE Precheck \/ FullVerify
  <2>1. sess.open /\ temp[sess.id] # NoFile
    BY <1>4 DEF Precheck, FullVerify, ControlInv, PhaseInv, Committing
  <2> QED
    BY <1>4, <2>1, VerifyTempStep
<1>5. CASE SaveInit \/ SkipVerify \/ FlushManifest \/ MarkCommitted
  <2>1. sess.open
    BY <1>5 DEF SaveInit, SkipVerify, FlushManifest, MarkCommitted, ControlInv, PhaseInv, Committing
  <2>2. sess' = sess \/ sess' = Saved(sess) \/ sess' = NoSession
    BY <1>5 DEF SaveInit, SkipVerify, FlushManifest, FlushManifestThen, MarkCommitted,
       Save, SaveFails, Exit
  <2> QED
    BY <1>0, <2>1, <2>2, SavedFields, NoSessionType
<1>6. CASE \/ OpenOutput \/ AllFin \/ CheckOutput \/ RenameToOutput \/ SyncOutput
           \/ Start \/ UNCHANGED vars
  BY <1>0, <1>6 DEF OpenOutput, AllFin, CheckOutput, RenameToOutput, SyncOutput, vars,
     Start, StartServer, RejectServer, process
<1>7. CASE MarkFailedBestEffort \/ (\E ok \in BOOLEAN : SendComplete(ok)) \/ Environment
  <2>1. sess' = sess \/ sess' = NoSession
    BY <1>7 DEF MarkFailedBestEffort, SendComplete, Environment, Kill, LoopFails, WriteFails,
       TempDecays, process, Exit
  <2> QED
    BY <1>0, <2>1, NoSessionType
<1> QED
  BY <1>3, <1>4, <1>5, <1>6, <1>7 DEF Next, ServerStep

(* Every write of the manifest is that of a session's records. *)
LEMMA ManifestStep ==
  ASSUME ControlInv, [Next]_vars
  PROVE  \/ manifest' = manifest
         \/ sess'.open /\ manifest'.id = sess'.id /\ manifest'.records = sess'.records
         \/ /\ sess.open /\ manifest'.id = sess.id /\ manifest'.records = sess.records
            /\ UNCHANGED <<output, temp>>
<1> DEFINE Saves == sess'.open /\ manifest'.id = sess'.id /\ manifest'.records = sess'.records
           Failed == /\ sess.open /\ manifest'.id = sess.id /\ manifest'.records = sess.records
                     /\ UNCHANGED <<output, temp>>
<1>0. sess \in Sessions
  BY DEF ControlInv, TypeOK
<1>1. ASSUME NEW session \in Sessions, session.open, NEW state, Save(session, state)
      PROVE  Saves
  BY <1>1, SavedFields DEF Save, ManifestOf
<1>2. CASE Start
  BY <1>2 DEF Start, StartServer, RejectServer, disk
<1>3. ASSUME NEW s \in Streams, Accept(s) \/ Receive(s)
      PROVE  manifest' = manifest \/ Saves
  <2>1. ASSUME NEW c \in Chunks, NEW sum \in Sums(c), RecordChunk(s, c, sum)
        PROVE  manifest' = manifest \/ Saves
    <3> DEFINE after == RecordVerifiedChunk(sess, c, sum)
    <3>1. after \in Sessions /\ after.open
      BY <1>0, <2>1, RecordVerifiedType, RecordVerifiedFields
         DEF RecordChunk, MatchesActive, ControlInv, ConnInv
    <3>2. manifest' = manifest \/ Save(after, "Transferring")
      BY <2>1 DEF RecordChunk, SaveFails
    <3> HIDE DEF after
    <3> QED
      BY <1>1, <3>1, <3>2
  <2>2. \/ manifest' = manifest
        \/ \E c \in Chunks : \E sum \in Sums(c) : RecordChunk(s, c, sum)
    BY <1>3 DEF Accept, Receive, RecvInit, InitRejected, InitJoins, InitOpens, RecvData, AcceptData,
       RefuseData, RecvChunkComplete, RefuseChunk, RejectChunk, RecvFin, ConnectionFails, disk
  <2> QED
    BY <2>1, <2>2
<1>4. CASE Precheck \/ FullVerify
  <2>1. sess.open
    BY <1>4, VerifyTempStep
  <2>2. \/ manifest' = manifest
        \/ \E dropped : /\ manifest' = ManifestOf(DropRecords(sess, dropped), "Transferring")
                         /\ sess' = Saved(DropRecords(sess, dropped))
    BY <1>4 DEF Precheck, FullVerify, VerifyTemp, Save, SaveFails
  <2>3. ASSUME NEW dropped,
               manifest' = ManifestOf(DropRecords(sess, dropped), "Transferring"),
               sess' = Saved(DropRecords(sess, dropped))
        PROVE  Saves
    <3> DEFINE kept == DropRecords(sess, dropped)
    <3>1. kept \in Sessions /\ kept.open
      BY <1>0, <2>1, DropRecordsType, DropRecordsFields
    <3> HIDE DEF kept
    <3>2. manifest' = ManifestOf(kept, "Transferring") /\ sess' = Saved(kept)
      BY <2>3 DEF kept
    <3> QED
      BY <3>1, <3>2, SavedFields DEF ManifestOf
  <2> QED
    BY <2>2, <2>3
<1>5. CASE SaveInit \/ SkipVerify \/ FlushManifest \/ MarkCommitted
  <2>1. sess.open
    BY <1>5 DEF SaveInit, SkipVerify, FlushManifest, MarkCommitted, ControlInv, PhaseInv, Committing
  <2>2. manifest' = manifest \/ Save(sess, "Transferring") \/ Save(sess, "Committed")
    BY <1>5 DEF SaveInit, SkipVerify, FlushManifest, FlushManifestThen, MarkCommitted, SaveFails
  <2> QED
    BY <1>0, <1>1, <2>1, <2>2
<1>6. CASE OpenOutput \/ AllFin \/ CheckOutput \/ RenameToOutput \/ SyncOutput \/ UNCHANGED vars
  BY <1>6 DEF OpenOutput, AllFin, CheckOutput, RenameToOutput, SyncOutput, disk, vars
<1>7. CASE MarkFailedBestEffort
  BY <1>7 DEF MarkFailedBestEffort, ManifestOf
<1>8. CASE (\E ok \in BOOLEAN : SendComplete(ok)) \/ Environment
  BY <1>8 DEF SendComplete, Environment, Kill, LoopFails, WriteFails, TempDecays, disk
<1> QED
  BY <1>2, <1>3, <1>4, <1>5, <1>6, <1>7, <1>8 DEF Next, ServerStep

(* Up to the rename nothing is left to save. *)
LEMMA PublishStep ==
  ASSUME ControlInv, LossInv, [Next]_vars, phase' \in {"exists", "rename"}
  PROVE  manifest' = ManifestOf(sess', "Transferring")
<1>1. FlushManifest \/ CheckOutput \/ (phase' = phase /\ UNCHANGED <<sess, manifest>>)
  <2>1. CASE Start
    BY <2>1 DEF Start, StartServer, RejectServer, process, ControlInv
  <2>2. ASSUME NEW s \in Streams, Accept(s) \/ Receive(s) PROVE FALSE
    BY <2>2 DEF Accept, Receive, RecvInit, InitRejected, InitJoins, InitOpens, Respond, RespondFails,
       RecvData, AcceptData, RefuseData, RecvChunkComplete, RefuseChunk, RejectChunk, RecordChunk,
       RecvFin, ConnectionFails, Receiving, Continue, Abort
  <2>3. CASE OpenOutput \/ SaveInit \/ AllFin \/ SkipVerify
    BY <2>3 DEF OpenOutput, SaveInit, Respond, RespondFails, AllFin, SkipVerify, FlushManifestThen,
       Continue, Abort
  <2>4. CASE Precheck \/ FullVerify
    BY <2>4 DEF Precheck, FullVerify, VerifyTemp, Continue, Abort
  <2>5. CASE RenameToOutput \/ SyncOutput \/ MarkCommitted \/ MarkFailedBestEffort
    BY <2>5 DEF RenameToOutput, SyncOutput, MarkCommitted, MarkFailedBestEffort, Continue, Abort, Exit
  <2>6. CASE (\E ok \in BOOLEAN : SendComplete(ok)) \/ Environment \/ UNCHANGED vars
    BY <2>6 DEF SendComplete, Environment, Kill, LoopFails, WriteFails, TempDecays, Abort, Exit,
       process, vars
  <2> QED
    BY <2>1, <2>2, <2>3, <2>4, <2>5, <2>6 DEF Next, ServerStep
<1>2. CASE FlushManifest
  <2>1. sess \in Sessions /\ Save(sess, "Transferring")
    BY <1>2 DEF FlushManifest, FlushManifestThen, Abort, ControlInv, TypeOK
  <2> QED
    BY <2>1, SavedFields DEF Save, ManifestOf
<1>3. CASE CheckOutput
  BY <1>3 DEF CheckOutput, disk, LossInv
<1>4. CASE phase' = phase /\ UNCHANGED <<sess, manifest>>
  BY <1>4 DEF LossInv
<1> QED
  BY <1>1, <1>2, <1>3, <1>4

(* Every step keeps LossInv: the rename moves the temp file to the output at *)
(* a moment when it matches the records of session and manifest.             *)
LEMMA LossStep ==
  ASSUME InductiveInv, LossInv, [Next]_vars
  PROVE  LossInv'
<1>0. ControlInv /\ sess \in Sessions /\ sess.id \in Ids /\ manifest.id \in Ids
  BY DEF InductiveInv, ControlInv, TypeOK, Sessions, Manifests
<1>1. sess'.open => sess'.id \in Ids
  BY <1>0, ControlStep DEF ControlInv, TypeOK, Sessions
<1>2. phase = "rename" =>
        /\ sess.open /\ Matches(temp[sess.id], sess.records)
        /\ manifest.id = sess.id /\ manifest.records = sess.records
  BY DEF InductiveInv, VerifiedInv, PhaseInv, Committing, LossInv, ManifestOf
<1>3. ASSUME NEW i \in Ids, NEW records, NothingLost(i, records),
             phase = "rename" => i = sess.id /\ records = sess.records
      PROVE  NothingLost(i, records)'
  <2>1. CASE output' = output /\ \A j \in Ids : temp'[j] = NoFile => temp[j] = NoFile
    BY <1>3, <2>1 DEF NothingLost, Matches
  <2>2. CASE phase = "rename" /\ output' = temp[sess.id]
    BY <1>2, <1>3, <2>2 DEF NothingLost, Matches
  <2> QED
    BY <1>0, <2>1, <2>2, TempStep
<1>4. sess'.open => NothingLost(sess.id, sess.records)'
  <2> SUFFICES ASSUME sess'.open PROVE NothingLost(sess.id, sess.records)'
    OBVIOUS
  <2>1. CASE sess.open /\ sess'.id = sess.id /\ sess'.records = sess.records
    <3>1. NothingLost(sess.id, sess.records)
      BY <2>1 DEF LossInv
    <3>2. temp'[sess.id] = NoFile =>
            sess.records = NoRecords \/ Matches(output', sess.records)
      BY <1>0, <1>3, <3>1 DEF NothingLost
    <3> QED
      BY <2>1, <3>2 DEF NothingLost
  <2>2. CASE sess'.id = sess.id /\ temp'[sess.id] # NoFile
    BY <2>2 DEF NothingLost
  <2>3. CASE sess'.records = NoRecords
    BY <2>3 DEF NothingLost
  <2>4. CASE /\ manifest.state # "Committed"
             /\ sess'.id = manifest.id /\ sess'.records = manifest.records
             /\ UNCHANGED <<output, temp>>
    BY <2>4 DEF LossInv, NothingLost, Matches
  <2> QED
    BY <1>0, <2>1, <2>2, <2>3, <2>4, RecordsStep
<1>5. manifest'.state # "Committed" => NothingLost(manifest.id, manifest.records)'
  <2> SUFFICES ASSUME manifest'.state # "Committed" PROVE NothingLost(manifest.id, manifest.records)'
    OBVIOUS
  <2>1. CASE manifest' = manifest
    <3>1. NothingLost(manifest.id, manifest.records)
      BY <2>1 DEF LossInv
    <3>2. temp'[manifest.id] = NoFile =>
            manifest.records = NoRecords \/ Matches(output', manifest.records)
      BY <1>0, <1>2, <1>3, <3>1 DEF NothingLost
    <3> QED
      BY <2>1, <3>2 DEF NothingLost
  <2>2. CASE sess'.open /\ manifest'.id = sess'.id /\ manifest'.records = sess'.records
    BY <1>4, <2>2 DEF NothingLost
  <2>3. CASE /\ sess.open /\ manifest'.id = sess.id /\ manifest'.records = sess.records
             /\ UNCHANGED <<output, temp>>
    BY <2>3 DEF LossInv, NothingLost, Matches
  <2> QED
    BY <1>0, <2>1, <2>2, <2>3, ManifestStep
<1> QED
  BY <1>0, <1>4, <1>5, PublishStep DEF LossInv

(* A transfer that no server will take up again because its temp file is     *)
(* gone has verified nothing, or its file is complete at the output path.    *)
THEOREM StuckIsHarmless == Spec => []StuckLosesNothing
<1>1. Init => LossInv
  BY NoSessionType DEF Init, LossInv, NothingLost, NoManifest
<1>2. InductiveInv /\ LossInv /\ [Next]_vars => LossInv'
  BY LossStep
<1>3. LossInv => StuckLosesNothing
  BY DEF LossInv, NothingLost, StuckLosesNothing, Stuck
<1> QED
  BY <1>1, <1>2, <1>3, Inductive, PTL DEF Spec
=============================================================================
