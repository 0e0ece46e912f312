------------------------- MODULE RetrReceiverProofs -------------------------
(***************************************************************************)
(* RetrReceiver for every value of its constants.  The first part shows    *)
(* types, threads and the session (ControlInv), the second what the temp   *)
(* file holds (DataInv) and how far the manifest is behind (LagInv).  With *)
(* Integrity they are InductiveInv, from which the properties follow.      *)
(***************************************************************************)
EXTENDS RetrReceiver, FiniteSetTheorems, TLAPS

-----------------------------------------------------------------------------
(* Facts about the operators of DownloadSession *)

(* AnyId is a transfer id. *)
LEMMA AnyIdType == AnyId \in Ids
BY DownloadAssumption DEF AnyId

(* A fresh temp file is an image. *)
LEMMA EmptyImageType == EmptyImage \in Image /\ EmptyImage # NoFile
BY DownloadAssumption DEF EmptyImage, Image

(* One more block in a chunk's image. *)
LEMMA BlockType ==
  ASSUME NEW image \in Image, NEW p \in Positions, NEW v \in Content
  PROVE  [image EXCEPT ![p] = v] \in Image
BY DEF Image

(* Between two chunks a thread is well typed. *)
LEMMA NoChunkType == NoChunk \in InChunk /\ ~NoChunk.active
BY EmptyImageType DEF NoChunk, Chunk, InChunk

(* createNew leaves a session without records that is not ready yet. *)
LEMMA CreateNewType ==
  \A i \in Ids : /\ CreateNew(i) \in Sessions
                 /\ ~CreateNew(i).ready
                 /\ CreateNew(i).id = i
                 /\ CreateNew(i).records = {}
                 /\ CreateNew(i).dirty = 0
BY DEF CreateNew, Sessions

(* Before the first SessionInit the client has no session. *)
LEMMA NoSessionType == NoSession \in Sessions /\ ~NoSession.ready /\ NoSession.records = {}
BY AnyIdType, CreateNewType DEF NoSession

(* The session that SaveInit publishes. *)
LEMMA NewSessionType ==
  ASSUME NEW i \in Ids
  PROVE  LET new == [CreateNew(i) EXCEPT !.ready = TRUE]
         IN /\ new \in Sessions /\ new.ready /\ new.id = i
            /\ new.records = {} /\ new.dirty = 0
BY DEF CreateNew, Sessions

(* The session that a resume loads from a manifest. *)
LEMMA ResumeType ==
  ASSUME NEW m \in Manifests
  PROVE  LET resumed == [Resume(m) EXCEPT !.ready = TRUE]
         IN /\ resumed \in Sessions /\ resumed.ready /\ resumed.id = m.id
            /\ resumed.records = m.records /\ resumed.dirty = 0
            /\ resumed.loaded = (m.records # {})
BY DEF Resume, Manifests, Sessions

(* save clears the dirty count and nothing else. *)
LEMMA SavedType ==
  ASSUME NEW session \in Sessions
  PROVE  /\ Saved(session) \in Sessions
         /\ Saved(session).ready = session.ready
         /\ Saved(session).id = session.id
         /\ Saved(session).records = session.records
         /\ Saved(session).dirty = 0
BY DEF Saved, Sessions

(* The manifest that save writes. *)
LEMMA ManifestOfType ==
  ASSUME NEW session \in Sessions, NEW state \in ManifestStates
  PROVE  /\ ManifestOf(session, state) \in Manifests
         /\ ManifestOf(session, state).state = state
         /\ ManifestOf(session, state).id = session.id
         /\ ManifestOf(session, state).records = session.records
BY DEF ManifestOf, Sessions, Manifests

(* recordVerifiedChunk drops a repeated record and counts a new one. *)
LEMMA RecordVerifiedType ==
  ASSUME NEW session \in Sessions, NEW r \in ChunkRecords
  PROVE  LET after == RecordVerifiedChunk(session, r)
         IN /\ after \in Sessions
            /\ after.ready = session.ready
            /\ after.id = session.id
            /\ after.records = session.records \cup {r}
            /\ after.dirty = IF r \in session.records THEN session.dirty ELSE session.dirty + 1
<1>1. CASE r \in session.records
  <2>1. RecordVerifiedChunk(session, r) = session
    BY <1>1 DEF RecordVerifiedChunk
  <2>2. session.records \cup {r} = session.records
    BY <1>1
  <2> QED
    BY <1>1, <2>1, <2>2
<1>2. CASE r \notin session.records
  <2>1. session.records \cup {r} \in SUBSET ChunkRecords /\ session.dirty + 1 \in Nat
    BY DEF Sessions
  <2>2. RecordVerifiedChunk(session, r) =
          [session EXCEPT !.records = session.records \cup {r}, !.dirty = session.dirty + 1]
    BY <1>2 DEF RecordVerifiedChunk
  <2> QED
    BY <1>2, <2>1, <2>2 DEF Sessions
<1> QED
  BY <1>1, <1>2

(* verifyTempChunks drops records; when they are at least the corrupt ones,  *)
(* nothing corrupt is left.                                                  *)
LEMMA DropRecordsType ==
  ASSUME NEW session \in Sessions, NEW dropped, NEW image
  PROVE  LET kept == DropRecords(session, dropped)
         IN /\ kept \in Sessions
            /\ kept.ready = session.ready
            /\ kept.id = session.id
            /\ kept.records = session.records \ dropped
            /\ kept.dirty = session.dirty
            /\ CorruptRecords(session, image) \subseteq dropped => CorruptRecords(kept, image) = {}
<1> DEFINE kept == DropRecords(session, dropped)
<1>1. session.records \ dropped \in SUBSET ChunkRecords
      /\ (session.removed \/ dropped # {}) \in BOOLEAN
  BY DEF Sessions
<1>2. kept = [session EXCEPT !.records = session.records \ dropped,
                             !.removed = session.removed \/ dropped # {}]
  BY DEF DropRecords
<1>3. /\ kept \in Sessions /\ kept.ready = session.ready /\ kept.id = session.id
      /\ kept.records = session.records \ dropped /\ kept.dirty = session.dirty
  BY <1>1, <1>2 DEF Sessions
<1> HIDE DEF kept
<1>4. CorruptRecords(session, image) \subseteq dropped => CorruptRecords(kept, image) = {}
  BY <1>3 DEF CorruptRecords
<1> QED
  BY <1>3, <1>4 DEF kept

(* A subset of a list of disjoint ranges is one. *)
LEMMA DisjointSubset ==
  ASSUME NEW records, Disjoint(records), NEW some \in SUBSET records
  PROVE  Disjoint(some)
BY DEF Disjoint

(* A record that recordVerifiedChunk accepts keeps the ranges disjoint. *)
LEMMA DisjointAdded ==
  ASSUME NEW session, Disjoint(session.records), NEW r, RecordAccepted(session, r)
  PROVE  Disjoint(session.records \cup {r})
BY DEF Disjoint, RecordAccepted

(* The blocks of a recorded range are blocks of the file. *)
LEMMA BlocksType ==
  ASSUME NEW r \in ChunkRecords
  PROVE  Blocks(r) \subseteq Positions /\ r.sum \in Sums(r.begin, r.end)
BY DownloadAssumption DEF ChunkRecords, Blocks, Positions

(* A range that starts in the file and a checksum of it are a record. *)
LEMMA ChunkRecordType ==
  ASSUME NEW c \in ChunkIds, NEW lo \in Positions, NEW hi \in 1 .. TotalBlocks,
         NEW sum \in Sums(lo, hi), lo < hi
  PROVE  LET r == ChunkRecord(c, lo, hi, sum)
         IN /\ r \in ChunkRecords
            /\ r.chunk = c /\ r.begin = lo /\ r.end = hi /\ r.sum = sum
<1>1. sum \in AnySum
  BY DEF AnySum
<1> QED
  BY <1>1 DEF ChunkRecord, ChunkRecords

-----------------------------------------------------------------------------
(* Pieces of a step *)

(* The facts of TypeOK that relate the block counters of a thread. *)
Counters == \A s \in Streams : /\ rx[s].start <= rx[s].flushed
                               /\ rx[s].flushed <= rx[s].next
                               /\ rx[s].next <= TotalBlocks

ControlInv == TypeOK /\ WorkerInv /\ SessionInv

(* The options a client runs with. *)
LEMMA OptionsType ==
  ASSUME TypeOK
  PROVE  opts.id \in Ids /\ opts.limit \in Nat /\ opts.overwrite \in BOOLEAN /\ opts.resume \in BOOLEAN
BY ReceiverAssumption DEF TypeOK

(* Becoming one of the states a thread has. *)
LEMMA BecomeType ==
  ASSUME TypeOK, NEW s \in Streams,
         NEW w \in Preparing \cup {"off", "connect", "waitInit", "receive", "ok", "failed"},
         Become(s, w)
  PROVE  /\ worker' \in [Streams -> Preparing \cup {"off", "connect", "waitInit", "receive", "ok", "failed"}]
         /\ worker'[s] = w
         /\ \A t \in Streams \ {s} : worker'[t] = worker[t]
BY DEF Become, TypeOK

(* What is left of a thread whose receiveStream returned an error. *)
LEMMA FailType ==
  ASSUME TypeOK, NEW s \in Streams, Fail(s)
  PROVE  /\ worker' \in [Streams -> Preparing \cup {"off", "connect", "waitInit", "receive", "ok", "failed"}]
         /\ worker'[s] = "failed"
         /\ rx' \in [Streams -> InChunk]
         /\ ~rx'[s].active
         /\ \A t \in Streams \ {s} : worker'[t] = worker[t] /\ rx'[t] = rx[t]
         /\ resp' \in [Streams -> [known : BOOLEAN, missing : SUBSET Positions]]
         /\ Counters'
<1>1. /\ worker' \in [Streams -> Preparing \cup {"off", "connect", "waitInit", "receive", "ok", "failed"}]
      /\ worker'[s] = "failed" /\ \A t \in Streams \ {s} : worker'[t] = worker[t]
  BY BecomeType DEF Fail
<1>2. rx' \in [Streams -> InChunk] /\ rx'[s] = NoChunk /\ \A t \in Streams \ {s} : rx'[t] = rx[t]
  BY NoChunkType DEF Fail, TypeOK
<1>3. resp' \in [Streams -> [known : BOOLEAN, missing : SUBSET Positions]]
  BY DEF Fail, TypeOK, NoReply
<1>4. Counters'
  BY <1>2, DownloadAssumption DEF Counters, TypeOK, NoChunk, Chunk
<1> QED
  BY <1>1, <1>2, <1>3, <1>4, NoChunkType

(* A thread fails.  What its handler did to the session and to the files     *)
(* before concerns no other thread, because none of them is preparing one.   *)
LEMMA FailControl ==
  ASSUME ControlInv, NEW s \in Streams, run = "streams", run' = run, Fail(s),
         UNCHANGED <<opts, outcome, completed, output>>,
         count' \in Nat, faults' \in Nat,
         temp' \in [Ids -> Image \cup {NoFile}],
         sess' \in Sessions, manifest' \in Manifests,
         \/ UNCHANGED <<sess, temp, manifest>>
         \/ /\ \A t \in Streams \ {s} : worker[t] \notin Preparing
            /\ sess.ready => sess'.ready
            /\ SessionInv'
  PROVE  ControlInv'
<1>1. TypeOK'
  BY FailType DEF ControlInv, TypeOK, Counters
<1>2. WorkerInv'
  <2>1. /\ worker'[s] = "failed" /\ ~rx'[s].active
        /\ \A t \in Streams \ {s} : worker'[t] = worker[t] /\ rx'[t] = rx[t]
    BY FailType DEF ControlInv
  <2>2. \A t \in Streams \ {s} : worker[t] \in Preparing => UNCHANGED <<sess, temp, manifest>>
    OBVIOUS
  <2>3. sess.ready => sess'.ready
    OBVIOUS
  <2> HIDE DEF Fail
  <2> QED
    BY <2>1, <2>2, <2>3 DEF ControlInv, WorkerInv, Preparing
<1>3. SessionInv'
  BY DEF ControlInv, SessionInv, Corrupt, Disjoint
<1> QED
  BY <1>1, <1>2, <1>3 DEF ControlInv

(* The blocks a response reports are blocks of the file. *)
LEMMA MissingType ==
  ASSUME NEW records PROVE Missing(records) \in SUBSET Positions
BY DEF Missing

(* A SessionInit that finds or makes the session ready is answered, or the   *)
(* thread fails.                                                             *)
LEMMA RespondControl ==
  ASSUME ControlInv, NEW s \in Streams, NEW records, run = "streams", run' = run,
         Respond(s, records), ~rx[s].active,
         UNCHANGED <<opts, outcome, completed, output, count>>,
         faults' \in Nat, temp' \in [Ids -> Image \cup {NoFile}],
         sess' \in Sessions, manifest' \in Manifests, sess'.ready,
         \A t \in Streams \ {s} : worker[t] \notin Preparing,
         SessionInv'
  PROVE  ControlInv'
<1>1. CASE Fail(s)
  BY <1>1, FailControl DEF ControlInv, TypeOK
<1>2. CASE ~Fail(s)
  <2>1. /\ resp' = [resp EXCEPT ![s] = [known |-> TRUE, missing |-> Missing(records)]]
        /\ Become(s, "receive") /\ rx' = rx
    BY <1>2 DEF Respond
  <2>2. /\ worker' \in [Streams -> Preparing \cup {"off", "connect", "waitInit", "receive", "ok", "failed"}]
        /\ worker'[s] = "receive" /\ \A t \in Streams \ {s} : worker'[t] = worker[t]
    BY <2>1, BecomeType DEF ControlInv
  <2>3. resp' \in [Streams -> [known : BOOLEAN, missing : SUBSET Positions]]
    BY <2>1, MissingType DEF ControlInv, TypeOK
  <2>4. TypeOK'
    BY <2>1, <2>2, <2>3 DEF ControlInv, TypeOK
  <2>5. WorkerInv'
    BY <2>1, <2>2 DEF ControlInv, WorkerInv, Preparing
  <2> QED
    BY <2>4, <2>5 DEF ControlInv
<1> QED
  BY <1>1, <1>2

(* verifyTempChunks and its save.  When the save works, or nothing was       *)
(* dropped, the manifest still claims nothing that the session does not.     *)
LEMMA VerifyTempFacts ==
  ASSUME TypeOK, NEW session \in Sessions, NEW fails \in BOOLEAN,
         session.ready, manifest.id = session.id,
         manifest.state \in {"Transferring", "Failed"},
         manifest.records \subseteq session.records,
         Disjoint(session.records), Disjoint(manifest.records),
         VerifyTemp(session, TRUE, fails)
  PROVE  /\ sess' \in Sessions /\ sess'.ready /\ sess'.id = session.id
         /\ sess'.dirty \in {0, session.dirty}
         /\ sess'.records \subseteq session.records
         /\ CorruptRecords(sess', temp[session.id]) = {}
         /\ manifest' \in Manifests /\ manifest'.id = session.id
         /\ manifest'.state \in {"Transferring", "Failed"}
         /\ Disjoint(sess'.records) /\ Disjoint(manifest'.records)
         /\ faults' \in Nat /\ faults' >= faults
         /\ manifest' = manifest \/ manifest'.records = sess'.records
         /\ \/ manifest'.records \subseteq sess'.records
            \/ /\ fails /\ manifest' = manifest /\ faults' # faults
               /\ \A r \in manifest.records \ sess'.records :
                     SumOf(temp[session.id], r.begin, r.end) # r.sum
         /\ \A r \in session.records \ sess'.records :
              SumOf(temp[session.id], r.begin, r.end) # r.sum \/ faults' # faults
<1> DEFINE image == temp[session.id]
           corrupt == CorruptRecords(session, image)
<1>1. faults \in Nat /\ manifest \in Manifests /\ "Transferring" \in ManifestStates
  BY DEF TypeOK, ManifestStates
<1>2. CASE corrupt = {} /\ sess' = session /\ UNCHANGED <<manifest, faults>>
  BY <1>1, <1>2
<1>3. CASE \/ Save(DropRecords(session, corrupt), "Transferring")
           \/ \E r \in session.records \ corrupt :
                /\ Fault
                /\ manifest' = ManifestOf(DropRecords(session, corrupt \cup {r}), "Transferring")
                /\ sess' = Saved(DropRecords(session, corrupt \cup {r}))
  <2>1. PICK dropped :
          /\ corrupt \subseteq dropped
          /\ sess' = Saved(DropRecords(session, dropped))
          /\ manifest' = ManifestOf(DropRecords(session, dropped), "Transferring")
          /\ \/ dropped = corrupt /\ UNCHANGED faults
             \/ Fault
    BY <1>3 DEF Save
  <2> DEFINE kept == DropRecords(session, dropped)
  <2>2. /\ kept \in Sessions /\ kept.ready /\ kept.id = session.id
        /\ kept.records = session.records \ dropped
        /\ CorruptRecords(kept, image) = {}
    BY <2>1, DropRecordsType
  <2>3. sess' = Saved(kept) /\ manifest' = ManifestOf(kept, "Transferring")
    BY <2>1
  <2> HIDE DEF kept
  <2>4. /\ sess' \in Sessions /\ sess'.ready /\ sess'.id = session.id
        /\ sess'.records = session.records \ dropped /\ sess'.dirty = 0
    BY <2>2, <2>3, SavedType
  <2>5. /\ manifest' \in Manifests /\ manifest'.id = session.id
        /\ manifest'.state = "Transferring" /\ manifest'.records = sess'.records
    BY <1>1, <2>2, <2>3, <2>4, ManifestOfType
  <2>6. CorruptRecords(sess', image) = {}
    BY <2>2, <2>4 DEF CorruptRecords
  <2>7. faults' \in Nat /\ faults' >= faults /\ (faults' # faults \/ dropped = corrupt)
    BY <1>1, <2>1 DEF Fault
  <2>8. Disjoint(sess'.records)
    BY <2>4, DisjointSubset
  <2>9. \A r \in session.records \ sess'.records : SumOf(image, r.begin, r.end) # r.sum \/ faults' # faults
    BY <2>4, <2>7 DEF CorruptRecords
  <2> QED
    BY <2>4, <2>5, <2>6, <2>7, <2>8, <2>9
<1>4. CASE SaveFails(DropRecords(session, corrupt)) /\ fails
  <2>1. /\ sess' \in Sessions /\ sess'.ready /\ sess'.id = session.id
        /\ sess'.records = session.records \ corrupt /\ sess'.dirty = session.dirty
        /\ CorruptRecords(sess', image) = {}
    BY <1>4, DropRecordsType DEF SaveFails
  <2>2. manifest' = manifest /\ faults' \in Nat /\ faults' >= faults /\ faults' # faults
    BY <1>1, <1>4 DEF SaveFails, Fault
  <2>3. Disjoint(sess'.records)
    BY <2>1, DisjointSubset
  <2>4. \A r \in session.records \ sess'.records : SumOf(image, r.begin, r.end) # r.sum
    BY <2>1 DEF CorruptRecords
  <2> QED
    BY <1>1, <1>4, <2>1, <2>2, <2>3, <2>4
<1> QED
  BY <1>2, <1>3, <1>4 DEF VerifyTemp

-----------------------------------------------------------------------------
(* Start and SessionInit *)

(* The first state. *)
LEMMA ControlInit == Init => ControlInv
<1> SUFFICES ASSUME Init PROVE ControlInv
  OBVIOUS
<1>1. TypeOK
  <2>1. sess \in Sessions /\ rx \in [Streams -> InChunk]
    BY NoSessionType, NoChunkType DEF Init
  <2>2. manifest \in Manifests
    BY AnyIdType DEF Init, NoManifest, Manifests, ManifestStates
  <2>3. Counters
    BY DownloadAssumption DEF Init, Counters, NoChunk, Chunk
  <2>4. output \in Image \cup {NoFile} /\ temp \in [Ids -> Image \cup {NoFile}]
    BY ReceiverAssumption DEF Init
  <2> QED
    BY <2>1, <2>2, <2>3, <2>4 DEF Init, TypeOK, NoReply, Counters
<1>2. WorkerInv
  BY NoChunkType DEF Init, WorkerInv, Preparing
<1>3. SessionInv
  BY NoSessionType DEF Init, SessionInv, Disjoint, NoManifest
<1> QED
  BY <1>1, <1>2, <1>3 DEF ControlInv

(* A client starts, a thread connects. *)
LEMMA StartControl ==
  ASSUME ControlInv,
         \/ \E o \in Options : StartClient(o)
         \/ \E s \in Streams : Connect(s)
  PROVE  ControlInv'
<1>1. ASSUME NEW o \in Options, StartClient(o) PROVE ControlInv'
  <2>1. TypeOK'
    BY <1>1 DEF ControlInv, TypeOK, StartClient, shared, disk
  <2>2. WorkerInv'
    BY <1>1 DEF ControlInv, WorkerInv, StartClient, shared, disk, Preparing
  <2>3. SessionInv'
    BY <1>1 DEF ControlInv, SessionInv, StartClient, shared, disk, Disjoint
  <2> QED
    BY <2>1, <2>2, <2>3 DEF ControlInv
<1>2. ASSUME NEW s \in Streams, Connect(s) PROVE ControlInv'
  <2>1. /\ worker' \in [Streams -> Preparing \cup {"off", "connect", "waitInit", "receive", "ok", "failed"}]
        /\ worker'[s] = "waitInit" /\ \A t \in Streams \ {s} : worker'[t] = worker[t]
    BY <1>2, BecomeType DEF Connect, ControlInv
  <2>2. TypeOK'
    BY <1>2, <2>1 DEF ControlInv, TypeOK, Connect, shared, disk
  <2>3. WorkerInv'
    BY <1>2, <2>1 DEF ControlInv, WorkerInv, Connect, shared, disk, Preparing
  <2>4. SessionInv'
    BY <1>2 DEF ControlInv, SessionInv, Connect, shared, disk, Disjoint, Corrupt
  <2> QED
    BY <2>2, <2>3, <2>4 DEF ControlInv
<1> QED
  BY <1>1, <1>2

(* A thread that is not off, ok or failed runs while the streams do. *)
LEMMA ThreadRuns ==
  ASSUME ControlInv, NEW s \in Streams, worker[s] \notin {"off", "ok"}
  PROVE  run = "streams"
BY DEF ControlInv, WorkerInv, TypeOK

(* Handlers that refuse what arrived without touching anything. *)
LEMMA RefuseControl ==
  ASSUME ControlInv, NEW s \in Streams,
         \/ ConnectionFails(s)
         \/ \E init \in Inits : InitRejected(s, init)
         \/ \E c \in ChunkIds, p \in Positions : RefuseData(s, c, p)
         \/ \E r \in ChunkRecords : RefuseChunk(s, r.chunk, r.begin, r.end)
  PROVE  ControlInv'
<1>1. /\ worker[s] \in {"connect", "waitInit", "receive"} /\ Fail(s)
      /\ UNCHANGED <<run, opts, sess, count, completed, outcome, output, temp, manifest, faults>>
  BY DEF ConnectionFails, InitRejected, AtInit, RefuseData, RefuseChunk, Receiving, shared, disk
<1>2. run = "streams"
  BY <1>1, ThreadRuns
<1> QED
  BY <1>1, <1>2, FailControl DEF ControlInv, TypeOK

(* A SessionInit on a session that is ready. *)
LEMMA InitJoinsControl ==
  ASSUME ControlInv, NEW s \in Streams, NEW init \in Inits, InitJoins(s, init)
  PROVE  ControlInv'
<1>1. /\ worker[s] = "waitInit" /\ sess.ready
      /\ \A t \in Streams : worker[t] \notin Preparing
      /\ Respond(s, sess.records) \/ Fail(s)
      /\ UNCHANGED <<run, opts, sess, count, completed, outcome, output, temp, manifest, faults>>
  BY DEF InitJoins, AtInit, shared, disk
<1>2. run = "streams" /\ ~rx[s].active
  BY <1>1, ThreadRuns DEF ControlInv, WorkerInv
<1>3. SessionInv'
  BY <1>1 DEF ControlInv, SessionInv, Disjoint, Corrupt
<1> QED
  BY <1>1, <1>2, <1>3, RespondControl, FailControl DEF ControlInv, TypeOK

(* A SessionInit that resumes the manifest. *)
LEMMA PrepareResumeControl ==
  ASSUME ControlInv, NEW s \in Streams, NEW init \in Inits, PrepareResume(s, init)
  PROVE  ControlInv'
<1> DEFINE resumed == [Resume(manifest) EXCEPT !.ready = TRUE]
<1>1. /\ worker[s] = "waitInit" /\ ~sess.ready
      /\ \A t \in Streams : worker[t] \notin Preparing
      /\ UNCHANGED <<run, opts, count, completed, outcome, output, temp>>
  BY DEF PrepareResume, AtInit
<1>2. run = "streams" /\ ~rx[s].active
  BY <1>1, ThreadRuns DEF ControlInv, WorkerInv
<1>3. CASE Fail(s) /\ UNCHANGED <<sess, manifest>> /\ (faults' = faults \/ Fault)
  <2>1. faults' \in Nat
    BY <1>3 DEF Fault, ControlInv, TypeOK
  <2> QED
    BY <1>1, <1>2, <1>3, <2>1, FailControl DEF ControlInv, TypeOK
<1>4. CASE /\ LoadedManifestValid(manifest, opts.id, init.agrees) /\ temp[opts.id] # NoFile
           /\ VerifyTemp(resumed, Respond(s, sess'.records), FALSE)
  <2>1. manifest \in Manifests /\ manifest.id = opts.id
        /\ manifest.state \in {"Transferring", "Failed"}
    BY <1>4 DEF LoadedManifestValid, ControlInv, TypeOK, Manifests, ManifestStates
  <2>2. /\ resumed \in Sessions /\ resumed.ready /\ resumed.id = manifest.id
        /\ resumed.records = manifest.records
    BY <2>1, ResumeType
  <2> HIDE DEF resumed
  <2>3. VerifyTemp(resumed, TRUE, FALSE) /\ Respond(s, sess'.records)
    BY <1>4 DEF VerifyTemp
  <2>4. Disjoint(manifest.records) /\ TypeOK
    BY DEF ControlInv, SessionInv
  <2>5. /\ sess' \in Sessions /\ sess'.ready /\ sess'.id = resumed.id
        /\ manifest' \in Manifests /\ manifest'.id = resumed.id
        /\ manifest'.state \in {"Transferring", "Failed"}
        /\ Disjoint(sess'.records) /\ Disjoint(manifest'.records)
        /\ faults' \in Nat
        /\ manifest'.records \subseteq sess'.records
    BY <2>1, <2>2, <2>3, <2>4, VerifyTempFacts
  <2>6. SessionInv'
    BY <1>1, <1>2, <1>4, <2>1, <2>2, <2>5 DEF SessionInv, Disjoint
  <2> HIDE DEF Respond
  <2> QED
    BY <1>1, <1>2, <2>3, <2>5, <2>6, RespondControl DEF ControlInv, TypeOK
<1> QED
  BY <1>3, <1>4 DEF PrepareResume

(* What a thread that prepares a new session can rely on. *)
LEMMA PreparingFacts ==
  ASSUME ControlInv, NEW s \in Streams, worker[s] \in Preparing
  PROVE  /\ run = "streams" /\ ~sess.ready /\ ~rx[s].active
         /\ \A t \in Streams \ {s} : worker[t] \notin Preparing
<1>1. worker[s] \notin {"off", "ok", "receive"}
  BY DEF Preparing
<1> QED
  BY <1>1, ThreadRuns DEF ControlInv, WorkerInv

(* Without a session that is ready, only the lists of records matter. *)
LEMMA NotReady ==
  ASSUME run' = "streams", ~sess'.ready, Disjoint(sess'.records), Disjoint(manifest'.records)
  PROVE  SessionInv'
BY DEF SessionInv, Disjoint

(* A SessionInit that asks for a new download. *)
LEMMA PrepareNewControl ==
  ASSUME ControlInv, NEW s \in Streams, NEW init \in Inits, PrepareNew(s, init)
  PROVE  ControlInv'
<1>1. /\ worker[s] = "waitInit" /\ ~sess.ready
      /\ \A t \in Streams : worker[t] \notin Preparing
      /\ UNCHANGED <<run, opts, sess, count, completed, outcome, output, temp, manifest, faults>>
  BY DEF PrepareNew, AtInit, shared, disk
<1>2. run = "streams" /\ ~rx[s].active
  BY <1>1, ThreadRuns DEF ControlInv, WorkerInv
<1>3. CASE Fail(s)
  BY <1>1, <1>2, <1>3, FailControl DEF ControlInv, TypeOK
<1>4. CASE ~Fail(s)
  <2>1. /\ OutputStateValid /\ UNCHANGED <<rx, resp>>
        /\ Become(s, IF opts.overwrite THEN "removeOutput" ELSE "create")
    BY <1>4 DEF PrepareNew
  <2>2. /\ worker' \in [Streams -> Preparing \cup {"off", "connect", "waitInit", "receive", "ok", "failed"}]
        /\ worker'[s] = IF opts.overwrite THEN "removeOutput" ELSE "create"
        /\ \A t \in Streams \ {s} : worker'[t] = worker[t]
    BY <2>1, BecomeType DEF ControlInv, Preparing
  <2>3. TypeOK'
    BY <1>1, <2>1, <2>2 DEF ControlInv, TypeOK
  <2>4. WorkerInv'
    BY <1>1, <1>2, <2>1, <2>2 DEF ControlInv, WorkerInv, OutputStateValid, Preparing
  <2>5. SessionInv'
    BY <1>1, <1>2, NotReady DEF ControlInv, SessionInv
  <2> QED
    BY <2>3, <2>4, <2>5 DEF ControlInv
<1> QED
  BY <1>3, <1>4

(* --overwrite removes what is there. *)
LEMMA RemoveControl ==
  ASSUME ControlInv, NEW s \in Streams, RemoveOutput(s) \/ RemoveManifest(s)
  PROVE  ControlInv'
<1>1. /\ worker[s] \in {"removeOutput", "removeManifest"}
      /\ Become(s, IF worker[s] = "removeOutput" THEN "removeManifest" ELSE "create")
      /\ output' \in {output, NoFile}
      /\ manifest' \in {manifest, NoManifest}
      /\ faults' = faults \/ Fault
      /\ UNCHANGED <<run, opts, sess, count, rx, resp, completed, outcome, temp>>
  BY DEF RemoveOutput, RemoveManifest, shared
<1>2. /\ worker' \in [Streams -> Preparing \cup {"off", "connect", "waitInit", "receive", "ok", "failed"}]
      /\ worker'[s] = (IF worker[s] = "removeOutput" THEN "removeManifest" ELSE "create")
      /\ \A t \in Streams \ {s} : worker'[t] = worker[t]
  BY <1>1, BecomeType DEF ControlInv, Preparing
<1>3. /\ run = "streams" /\ ~sess.ready /\ ~rx[s].active
      /\ \A t \in Streams \ {s} : worker[t] \notin Preparing
      /\ opts.overwrite
  BY <1>1, PreparingFacts DEF Preparing, ControlInv, WorkerInv
<1>4. manifest' \in Manifests /\ Disjoint(manifest'.records)
  BY <1>1, AnyIdType DEF NoManifest, Manifests, ManifestStates, ControlInv, TypeOK, SessionInv, Disjoint
<1>5. TypeOK'
  BY <1>1, <1>2, <1>4 DEF ControlInv, TypeOK, Fault
<1>6. WorkerInv'
  BY <1>1, <1>2, <1>3 DEF ControlInv, WorkerInv, Preparing
<1>7. SessionInv'
  BY <1>1, <1>3, <1>4, NotReady DEF ControlInv, SessionInv
<1> QED
  BY <1>5, <1>6, <1>7 DEF ControlInv

(* The temp file of a new session. *)
LEMMA CreateTempControl ==
  ASSUME ControlInv, NEW s \in Streams, CreateTemp(s)
  PROVE  ControlInv'
<1>1. /\ worker[s] = "create" /\ opts.id \in Ids
      /\ UNCHANGED <<run, opts, sess, count, completed, outcome, output, manifest>>
  BY OptionsType DEF CreateTemp, shared, ControlInv
<1>2. /\ run = "streams" /\ ~sess.ready /\ ~rx[s].active
      /\ \A t \in Streams \ {s} : worker[t] \notin Preparing
  BY <1>1, PreparingFacts DEF Preparing
<1>3. SessionInv'
  BY <1>1, <1>2, NotReady DEF ControlInv, SessionInv
<1>4. CASE Fail(s)
  <2>1. PICK left \in {NoFile, temp[opts.id], EmptyImage} : temp' = [temp EXCEPT ![opts.id] = left]
    BY <1>4 DEF CreateTemp
  <2>2. temp' \in [Ids -> Image \cup {NoFile}] /\ faults' \in Nat
    BY <1>1, <2>1, EmptyImageType DEF CreateTemp, Fault, ControlInv, TypeOK
  <2> QED
    BY <1>1, <1>2, <1>3, <1>4, <2>2, FailControl DEF ControlInv, TypeOK
<1>5. CASE ~Fail(s)
  <2>1. /\ temp' = [temp EXCEPT ![opts.id] = EmptyImage] /\ Become(s, "save")
        /\ UNCHANGED <<rx, resp, faults>>
    BY <1>5 DEF CreateTemp
  <2>2. /\ worker' \in [Streams -> Preparing \cup {"off", "connect", "waitInit", "receive", "ok", "failed"}]
        /\ worker'[s] = "save" /\ \A t \in Streams \ {s} : worker'[t] = worker[t]
    BY <2>1, BecomeType DEF ControlInv, Preparing
  <2>3. temp' \in [Ids -> Image \cup {NoFile}] /\ temp'[opts.id] # NoFile
    BY <1>1, <2>1, EmptyImageType DEF ControlInv, TypeOK
  <2>4. TypeOK'
    BY <1>1, <2>1, <2>2, <2>3 DEF ControlInv, TypeOK
  <2>5. WorkerInv'
    BY <1>1, <1>2, <2>1, <2>2, <2>3 DEF ControlInv, WorkerInv, Preparing
  <2> QED
    BY <1>3, <2>4, <2>5 DEF ControlInv
<1> QED
  BY <1>4, <1>5

(* The save that makes a new session ready. *)
LEMMA SaveInitControl ==
  ASSUME ControlInv, NEW s \in Streams, SaveInit(s)
  PROVE  ControlInv'
<1> DEFINE new == [CreateNew(opts.id) EXCEPT !.ready = TRUE]
<1>1. /\ worker[s] = "save" /\ opts.id \in Ids
      /\ UNCHANGED <<run, opts, count, completed, outcome, output, temp>>
  BY OptionsType DEF SaveInit, ControlInv
<1>2. /\ run = "streams" /\ ~sess.ready /\ ~rx[s].active
      /\ \A t \in Streams \ {s} : worker[t] \notin Preparing
      /\ temp[opts.id] # NoFile
  BY <1>1, PreparingFacts DEF Preparing, ControlInv, WorkerInv
<1>3. CASE SaveFails(sess) /\ Fail(s)
  <2>1. UNCHANGED <<sess, manifest>> /\ faults' \in Nat
    BY <1>3 DEF SaveFails, Fault, ControlInv, TypeOK
  <2> QED
    BY <1>1, <1>2, <1>3, <2>1, FailControl DEF ControlInv, TypeOK
<1>4. CASE Save(new, "Transferring") /\ Respond(s, {})
  <2>1. /\ new \in Sessions /\ new.ready /\ new.id = opts.id /\ new.records = {}
    BY <1>1, NewSessionType
  <2> HIDE DEF new
  <2>2. sess' = Saved(new) /\ manifest' = ManifestOf(new, "Transferring") /\ faults' = faults
    BY <1>4 DEF Save
  <2>3. sess' \in Sessions /\ sess'.ready /\ sess'.id = opts.id /\ sess'.records = {}
    BY <2>1, <2>2, SavedType
  <2>4. /\ manifest' \in Manifests /\ manifest'.state = "Transferring"
        /\ manifest'.id = opts.id /\ manifest'.records = {}
    BY <2>1, <2>2, ManifestOfType DEF ManifestStates
  <2>5. SessionInv'
    BY <1>1, <1>2, <2>3, <2>4 DEF SessionInv, Disjoint
  <2> HIDE DEF Respond
  <2> QED
    BY <1>1, <1>2, <1>4, <2>2, <2>3, <2>4, <2>5, RespondControl DEF ControlInv, TypeOK
<1> QED
  BY <1>3, <1>4 DEF SaveInit

-----------------------------------------------------------------------------
(* DATA, ChunkComplete, FIN *)

(* What a thread in its receive loop can rely on. *)
LEMMA ReceivingFacts ==
  ASSUME ControlInv, NEW s \in Streams, Receiving(s)
  PROVE  /\ run = "streams" /\ sess.ready /\ sess \in Sessions /\ sess.id \in Ids
         /\ \A t \in Streams : worker[t] \notin Preparing
         /\ temp \in [Ids -> Image \cup {NoFile}]
         /\ temp[sess.id] \in Image /\ temp[sess.id] # NoFile
         /\ rx \in [Streams -> InChunk] /\ rx[s].acc \in Image
         /\ rx[s].start \in Nat /\ rx[s].flushed \in Nat /\ rx[s].next \in Nat
         /\ rx[s].start <= rx[s].flushed /\ rx[s].flushed <= rx[s].next
         /\ rx[s].next <= TotalBlocks
<1>1. run = "streams" /\ sess.ready /\ \A t \in Streams : worker[t] \notin Preparing
  BY ThreadRuns DEF Receiving, ControlInv, WorkerInv
<1>2. sess \in Sessions /\ sess.id \in Ids /\ rx[s] \in InChunk
  BY DEF ControlInv, TypeOK, Sessions
<1>3. temp[sess.id] # NoFile
  BY <1>1 DEF ControlInv, SessionInv
<1> QED
  BY <1>1, <1>2, <1>3 DEF ControlInv, TypeOK, InChunk

(* Blocks that a thread writes keep the temp file an image, and leave the    *)
(* temp files of other transfers alone.                                      *)
LEMMA WriteType ==
  ASSUME ControlInv, sess.id \in Ids, temp[sess.id] \in Image,
         NEW acc \in Image, NEW lo, NEW hi, Write(acc, lo, hi)
  PROVE  /\ temp' \in [Ids -> Image \cup {NoFile}]
         /\ temp'[sess.id] \in Image /\ temp'[sess.id] # NoFile
         /\ \A p \in Positions :
              temp'[sess.id][p] = IF lo <= p /\ p < hi THEN acc[p] ELSE temp[sess.id][p]
         /\ \A i \in Ids \ {sess.id} : temp'[i] = temp[i]
<1> DEFINE new == [p \in Positions |-> IF lo <= p /\ p < hi THEN acc[p] ELSE temp[sess.id][p]]
<1>1. new \in Image
  BY DEF Image
<1>2. temp' = [temp EXCEPT ![sess.id] = new]
  BY DEF Write
<1>3. \A p \in Positions : new[p] = IF lo <= p /\ p < hi THEN acc[p] ELSE temp[sess.id][p]
  OBVIOUS
<1> HIDE DEF new
<1> QED
  BY <1>1, <1>2, <1>3, DownloadAssumption DEF ControlInv, TypeOK

(* A session that stays as it is, while blocks are written to its file. *)
LEMMA SessionKept ==
  ASSUME ControlInv, run = "streams", run' = run, UNCHANGED <<sess, manifest>>,
         temp'[sess.id] # NoFile
  PROVE  SessionInv'
BY DEF ControlInv, SessionInv, Disjoint

(* The chunk that a DATA frame continues or starts. *)
LEMMA CurrentFacts ==
  ASSUME ControlInv, NEW s \in Streams, NEW c \in ChunkIds, NEW p \in Positions,
         Receiving(s), DataAcceptable(s, c, p)
  PROVE  LET k == Current(s, c, p)
         IN /\ k.start \in Nat /\ k.flushed \in Nat /\ k.acc \in Image
            /\ k.start <= k.flushed /\ k.flushed <= p
            /\ k.next = p
            /\ p \in Nat /\ p + 1 <= TotalBlocks
<1>1. p \in Nat /\ p + 1 <= TotalBlocks
  BY DownloadAssumption DEF Positions
<1>2. CASE rx[s].active
  BY <1>1, <1>2, ReceivingFacts DEF Current, DataAcceptable
<1>3. CASE ~rx[s].active
  BY <1>1, <1>3, EmptyImageType DEF Current, DataAcceptable, Chunk
<1> QED
  BY <1>2, <1>3

(* A DATA frame is accepted. *)
LEMMA AcceptDataControl ==
  ASSUME ControlInv, NEW s \in Streams, NEW c \in ChunkIds, NEW p \in Positions,
         NEW v \in Content, AcceptData(s, c, p, v)
  PROVE  ControlInv'
<1> DEFINE k == Current(s, c, p)
           acc == [k.acc EXCEPT ![p] = v]
<1>1. /\ Receiving(s) /\ DataAcceptable(s, c, p)
      /\ UNCHANGED <<run, opts, sess, count, worker, resp, completed, outcome, output, manifest, faults>>
  BY DEF AcceptData, shared
<1>2. /\ k.start \in Nat /\ k.flushed \in Nat /\ k.acc \in Image
      /\ k.start <= k.flushed /\ k.flushed <= p
      /\ p \in Nat /\ p + 1 <= TotalBlocks
  BY <1>1, CurrentFacts
<1>3. acc \in Image
  BY <1>2, BlockType
<1>4. PICK f \in {k.flushed, p, p + 1} :
        /\ rx' = [rx EXCEPT ![s] = Chunk(TRUE, c, k.start, p + 1, f, acc)]
        /\ Write(acc, k.flushed, f)
  BY DEF AcceptData
<1> HIDE DEF acc, k
<1>5. run = "streams" /\ sess.ready /\ sess.id \in Ids /\ temp[sess.id] \in Image
  BY <1>1, ReceivingFacts
<1>6. temp' \in [Ids -> Image \cup {NoFile}] /\ temp'[sess.id] # NoFile
  BY <1>3, <1>4, <1>5, WriteType
<1>7. f \in Nat /\ k.flushed <= f /\ f <= p + 1 /\ k.start <= f
  BY <1>2
<1>8. Chunk(TRUE, c, k.start, p + 1, f, acc) \in InChunk
  <2>1. c \in ChunkIds \cup {0} /\ p + 1 \in Nat
    BY <1>2
  <2> QED
    BY <1>2, <1>3, <1>7, <2>1 DEF Chunk, InChunk
<1>9. TypeOK'
  <2>1. rx' \in [Streams -> InChunk]
    BY <1>4, <1>8 DEF ControlInv, TypeOK
  <2>2. Counters'
    BY <1>2, <1>4, <1>7 DEF Counters, ControlInv, TypeOK, Chunk
  <2> QED
    BY <1>1, <1>6, <2>1, <2>2 DEF ControlInv, TypeOK, Counters
<1>10. WorkerInv'
  <2>1. \A t \in Streams : rx'[t].active => rx[t].active \/ t = s
    BY <1>4 DEF ControlInv, TypeOK
  <2>2. \A t \in Streams : worker[t] \notin Preparing
    BY <1>1, ReceivingFacts
  <2> QED
    BY <1>1, <2>1, <2>2 DEF ControlInv, WorkerInv, Receiving, Preparing
<1>11. SessionInv'
  BY <1>1, <1>5, <1>6, SessionKept
<1> QED
  BY <1>9, <1>10, <1>11 DEF ControlInv

(* A write of buffered blocks fails, or a chunk has the wrong checksum or    *)
(* contradicts a record.                                                     *)
LEMMA RejectControl ==
  ASSUME ControlInv, NEW s \in Streams,
         WriteFails(s) \/ \E r \in ChunkRecords : RejectChunk(s, r)
  PROVE  ControlInv'
<1>1. /\ Receiving(s) /\ Fail(s) /\ (faults' = faults \/ Fault)
      /\ UNCHANGED <<run, opts, sess, count, completed, outcome, output, manifest>>
      /\ \E hi : Write(rx[s].acc, rx[s].flushed, hi)
  BY DEF WriteFails, RejectChunk, FlushChunk, shared
<1>2. /\ run = "streams" /\ sess.ready /\ sess.id \in Ids
      /\ temp[sess.id] \in Image /\ rx[s].acc \in Image
      /\ \A t \in Streams : worker[t] \notin Preparing
  BY <1>1, ReceivingFacts
<1>3. temp' \in [Ids -> Image \cup {NoFile}] /\ temp'[sess.id] # NoFile
  BY <1>1, <1>2, WriteType
<1>4. SessionInv'
  BY <1>1, <1>2, <1>3, SessionKept
<1>5. faults' \in Nat
  BY <1>1 DEF Fault, ControlInv, TypeOK
<1> QED
  BY <1>1, <1>2, <1>3, <1>4, <1>5, FailControl DEF ControlInv, TypeOK

(* A verified chunk: recorded, with the manifest saved, left for later or    *)
(* not saved; then the thread goes on or ends.                               *)
LEMMA RecordChunkFacts ==
  ASSUME ControlInv, NEW s \in Streams, NEW r \in ChunkRecords, RecordChunk(s, r)
  PROVE  /\ Receiving(s) /\ MatchesActive(s, r.chunk, r.begin, r.end) /\ ChunkVerified(s, r)
         /\ Write(rx[s].acc, rx[s].flushed, rx[s].next)
         /\ UNCHANGED <<run, opts, completed, outcome, output>>
         /\ sess' \in Sessions /\ sess'.ready /\ sess'.id = sess.id
         /\ sess'.records = sess.records \cup {r}
         /\ manifest' \in Manifests
         /\ \/ manifest' = manifest
            \/ /\ manifest'.state = "Transferring" /\ manifest'.id = sess.id
               /\ manifest'.records = sess'.records
         /\ count' \in Nat /\ faults' \in Nat
         /\ \/ Fail(s)
            \/ rx' = [rx EXCEPT ![s] = NoChunk] /\ UNCHANGED <<worker, resp>>
<1> DEFINE after == RecordVerifiedChunk(sess, r)
<1>1. /\ Receiving(s) /\ MatchesActive(s, r.chunk, r.begin, r.end) /\ ChunkVerified(s, r)
      /\ Write(rx[s].acc, rx[s].flushed, rx[s].next)
      /\ UNCHANGED <<run, opts, completed, outcome, output>>
      /\ \/ Fail(s)
         \/ rx' = [rx EXCEPT ![s] = NoChunk] /\ UNCHANGED <<worker, resp>>
      /\ count' = count \/ count' = count + 1
  BY DEF RecordChunk, FlushChunk
<1>2. \/ sess' = after /\ manifest' = manifest /\ (faults' = faults \/ Fault)
      \/ Save(after, "Transferring")
  BY DEF RecordChunk, SaveFails
<1>3. sess \in Sessions /\ sess.ready
  BY <1>1, ReceivingFacts
<1>4. /\ after \in Sessions /\ after.ready /\ after.id = sess.id
      /\ after.records = sess.records \cup {r}
  BY <1>3, RecordVerifiedType
<1> HIDE DEF after
<1>5. /\ sess' \in Sessions /\ sess'.ready /\ sess'.id = sess.id
      /\ sess'.records = sess.records \cup {r}
  BY <1>2, <1>4, SavedType DEF Save
<1>6. /\ manifest' \in Manifests
      /\ \/ manifest' = manifest
         \/ /\ manifest'.state = "Transferring" /\ manifest'.id = sess.id
            /\ manifest'.records = sess'.records
  <2>1. CASE manifest' = manifest
    BY <2>1 DEF ControlInv, TypeOK
  <2>2. CASE Save(after, "Transferring")
    BY <1>4, <1>5, <2>2, ManifestOfType DEF Save, ManifestStates
  <2> QED
    BY <1>2, <2>1, <2>2
<1>7. count' \in Nat /\ faults' \in Nat
  BY <1>1, <1>2 DEF Save, Fault, ControlInv, TypeOK
<1> QED
  BY <1>1, <1>5, <1>6, <1>7

(* ChunkComplete with a chunk that is recorded. *)
LEMMA RecordChunkControl ==
  ASSUME ControlInv, NEW s \in Streams, NEW r \in ChunkRecords, RecordChunk(s, r)
  PROVE  ControlInv'
<1>1. /\ Receiving(s) /\ ChunkVerified(s, r)
      /\ Write(rx[s].acc, rx[s].flushed, rx[s].next)
      /\ UNCHANGED <<run, opts, completed, outcome, output>>
      /\ sess' \in Sessions /\ sess'.ready /\ sess'.id = sess.id
      /\ sess'.records = sess.records \cup {r}
      /\ manifest' \in Manifests
      /\ \/ manifest' = manifest
         \/ /\ manifest'.state = "Transferring" /\ manifest'.id = sess.id
            /\ manifest'.records = sess'.records
      /\ count' \in Nat /\ faults' \in Nat
      /\ \/ Fail(s)
         \/ rx' = [rx EXCEPT ![s] = NoChunk] /\ UNCHANGED <<worker, resp>>
  BY RecordChunkFacts
<1>2. /\ run = "streams" /\ sess.ready /\ sess.id \in Ids
      /\ temp[sess.id] \in Image /\ rx[s].acc \in Image
      /\ \A t \in Streams : worker[t] \notin Preparing
  BY <1>1, ReceivingFacts
<1>3. temp' \in [Ids -> Image \cup {NoFile}] /\ temp'[sess.id] # NoFile
  BY <1>1, <1>2, WriteType
<1>4. SessionInv'
  <2>1. Disjoint(sess.records) /\ RecordAccepted(sess, r)
    BY <1>1 DEF ControlInv, SessionInv, ChunkVerified
  <2>2. Disjoint(sess'.records)
    BY <1>1, <2>1, DisjointAdded
  <2>3. /\ manifest.state \in {"Transferring", "Failed"} /\ manifest.id = sess.id
        /\ manifest.records \subseteq sess.records /\ Disjoint(manifest.records)
    BY <1>2 DEF ControlInv, SessionInv
  <2> QED
    BY <1>1, <1>2, <1>3, <2>2, <2>3 DEF SessionInv, Disjoint
<1>5. CASE Fail(s)
  BY <1>1, <1>2, <1>3, <1>4, <1>5, FailControl
<1>6. CASE rx' = [rx EXCEPT ![s] = NoChunk] /\ UNCHANGED <<worker, resp>>
  <2>1. rx' \in [Streams -> InChunk]
    BY <1>6, NoChunkType DEF ControlInv, TypeOK
  <2>2. Counters'
    BY <1>6, DownloadAssumption DEF Counters, ControlInv, TypeOK, NoChunk, Chunk
  <2>3. TypeOK'
    BY <1>1, <1>3, <1>6, <2>1, <2>2 DEF ControlInv, TypeOK, Counters
  <2>4. \A t \in Streams : rx'[t].active => rx[t].active
    BY <1>6, NoChunkType DEF ControlInv, TypeOK
  <2>5. WorkerInv'
    BY <1>1, <1>2, <1>6, <2>4 DEF ControlInv, WorkerInv, Preparing
  <2> QED
    BY <1>4, <2>3, <2>5 DEF ControlInv
<1> QED
  BY <1>1, <1>5, <1>6

(* FIN. *)
LEMMA RecvFinControl ==
  ASSUME ControlInv, NEW s \in Streams, RecvFin(s)
  PROVE  ControlInv'
<1>1. /\ Receiving(s)
      /\ UNCHANGED <<run, opts, sess, count, outcome, output, temp, manifest, faults>>
  BY DEF RecvFin, shared, disk
<1>2. run = "streams" /\ sess.ready
  BY <1>1, ReceivingFacts
<1>3. CASE Fail(s) /\ UNCHANGED completed
  BY <1>1, <1>2, <1>3, FailControl DEF ControlInv, TypeOK
<1>4. CASE ~rx[s].active /\ Become(s, "ok") /\ completed' = completed \cup {s} /\ UNCHANGED <<rx, resp>>
  <2>1. /\ worker' \in [Streams -> Preparing \cup {"off", "connect", "waitInit", "receive", "ok", "failed"}]
        /\ worker'[s] = "ok" /\ \A t \in Streams \ {s} : worker'[t] = worker[t]
    BY <1>4, BecomeType DEF ControlInv
  <2>2. TypeOK'
    BY <1>1, <1>4, <2>1 DEF ControlInv, TypeOK
  <2>3. WorkerInv'
    BY <1>1, <1>2, <1>4, <2>1 DEF ControlInv, WorkerInv, Preparing
  <2>4. SessionInv'
    BY <1>1 DEF ControlInv, SessionInv, Disjoint, Corrupt
  <2> QED
    BY <2>2, <2>3, <2>4 DEF ControlInv
<1> QED
  BY <1>1, <1>3, <1>4 DEF RecvFin

-----------------------------------------------------------------------------
(* The main thread *)

(* The process ends. *)
LEMMA ExitControl ==
  ASSUME ControlInv, NEW how \in {"ok", "failed", "killed"}, Exit(how),
         UNCHANGED <<opts, completed, output, temp>>,
         manifest' \in Manifests, Disjoint(manifest'.records), faults' \in Nat
  PROVE  ControlInv'
<1>1. TypeOK'
  <2>1. Counters'
    BY DownloadAssumption DEF Exit, Counters, NoChunk, Chunk
  <2> QED
    BY <2>1, NoSessionType, NoChunkType DEF Exit, ControlInv, TypeOK, Counters, NoReply
<1>2. WorkerInv'
  BY NoChunkType DEF Exit, WorkerInv, Preparing
<1>3. SessionInv'
  BY NoSessionType DEF Exit, SessionInv, Disjoint
<1> QED
  BY <1>1, <1>2, <1>3 DEF ControlInv

(* A stream failed, success, failure, a kill. *)
LEMMA EndControl ==
  ASSUME ControlInv, JoinFailed \/ MarkCommitted \/ MarkFailed \/ Kill
  PROVE  ControlInv'
<1>1. /\ UNCHANGED <<opts, completed, output, temp>>
      /\ \E how \in {"ok", "failed", "killed"} : Exit(how)
  BY DEF JoinFailed, MarkCommitted, MarkFailed, Kill, disk
<1>2. faults' \in Nat
  BY DEF JoinFailed, MarkCommitted, MarkFailed, Kill, Fault, ControlInv, TypeOK
<1>3. sess \in Sessions /\ manifest \in Manifests /\ Disjoint(sess.records) /\ Disjoint(manifest.records)
  BY DEF ControlInv, TypeOK, SessionInv
<1>4. manifest' = manifest \/ \E state \in ManifestStates : manifest' = ManifestOf(sess, state)
  BY DEF JoinFailed, MarkCommitted, MarkFailed, Kill, disk, ManifestStates
<1>5. manifest' \in Manifests /\ Disjoint(manifest'.records)
  BY <1>3, <1>4, ManifestOfType DEF Disjoint
<1> QED
  BY <1>1, <1>2, <1>5, ExitControl

(* The steps of the commit. *)
LEMMA AdvanceControl ==
  ASSUME ControlInv, \A s \in Streams : worker[s] = "ok",
         run' \in {"verify", "exists", "rename", "sync", "markCommitted", "failing"},
         UNCHANGED <<opts, count, worker, rx, resp, completed, outcome>>,
         output' \in Image \cup {NoFile}, temp' \in [Ids -> Image \cup {NoFile}],
         sess' \in Sessions, sess'.ready, manifest' \in Manifests, faults' \in Nat,
         SessionInv'
  PROVE  ControlInv'
<1>1. TypeOK'
  BY DEF ControlInv, TypeOK
<1>2. WorkerInv'
  BY DEF ControlInv, WorkerInv, Preparing
<1> QED
  BY <1>1, <1>2 DEF ControlInv

(* In the commit every thread is done, and a session is ready. *)
LEMMA CommitFacts ==
  ASSUME ControlInv, run \notin {"down", "streams"}
  PROVE  /\ \A s \in Streams : worker[s] = "ok"
         /\ sess \in Sessions /\ sess.ready /\ sess.id \in Ids
         /\ manifest \in Manifests /\ manifest.id = sess.id
         /\ manifest.state \in {"Transferring", "Failed"}
         /\ Disjoint(sess.records) /\ Disjoint(manifest.records)
         /\ temp \in [Ids -> Image \cup {NoFile}]
<1>1. sess.ready
  BY DEF ControlInv, SessionInv
<1> QED
  BY <1>1 DEF ControlInv, TypeOK, WorkerInv, SessionInv, Sessions

(* The join when no stream failed. *)
LEMMA JoinOkControl ==
  ASSUME ControlInv, JoinOk
  PROVE  ControlInv'
<1>1. /\ run = "streams" /\ \A s \in Streams : worker[s] = "ok"
      /\ run' \in {"verify", "failing"}
      /\ faults' = faults \/ Fault
      /\ UNCHANGED <<opts, sess, count, worker, rx, resp, completed, outcome, output, temp, manifest>>
  BY DEF JoinOk, AllReturned, Continue, shared, disk
<1>2. sess.ready
  BY <1>1, ReceiverAssumption DEF ControlInv, WorkerInv
<1>3. SessionInv'
  BY <1>1, <1>2 DEF ControlInv, SessionInv, Disjoint
<1>4. faults' \in Nat
  BY <1>1 DEF Fault, ControlInv, TypeOK
<1> QED
  BY <1>1, <1>2, <1>3, <1>4, AdvanceControl DEF ControlInv, TypeOK

(* The final verification is skipped. *)
LEMMA SkipVerifyControl ==
  ASSUME ControlInv, SkipVerify
  PROVE  ControlInv'
<1>1. /\ run = "verify"
      /\ \/ Save(sess, "Transferring") /\ run' = "exists"
         \/ SaveFails(sess) /\ run' = "failing"
      /\ UNCHANGED <<opts, count, worker, rx, resp, completed, outcome, output, temp>>
  BY DEF SkipVerify, Continue
<1>2. /\ \A s \in Streams : worker[s] = "ok"
      /\ sess \in Sessions /\ sess.ready /\ sess.id \in Ids
      /\ manifest \in Manifests /\ manifest.id = sess.id
      /\ manifest.state \in {"Transferring", "Failed"}
      /\ Disjoint(sess.records) /\ Disjoint(manifest.records)
  BY <1>1, CommitFacts
<1>3. temp[sess.id] # NoFile /\ manifest.records \subseteq sess.records
  BY <1>1, <1>2 DEF ControlInv, SessionInv
<1>4. CASE Save(sess, "Transferring") /\ run' = "exists"
  <2>1. sess' \in Sessions /\ sess'.ready /\ sess'.id = sess.id /\ sess'.records = sess.records
    BY <1>2, <1>4, SavedType DEF Save
  <2>2. /\ manifest' \in Manifests /\ manifest'.state = "Transferring"
        /\ manifest'.id = sess.id /\ manifest'.records = sess.records
    BY <1>2, <1>4, ManifestOfType DEF Save, ManifestStates
  <2>3. SessionInv'
    BY <1>1, <1>2, <1>3, <1>4, <2>1, <2>2 DEF SessionInv, Disjoint
  <2>4. faults' = faults
    BY <1>4 DEF Save
  <2> QED
    BY <1>1, <1>2, <2>1, <2>2, <2>3, <2>4, <1>4, AdvanceControl DEF ControlInv, TypeOK
<1>5. CASE SaveFails(sess) /\ run' = "failing"
  <2>1. UNCHANGED <<sess, manifest>> /\ faults' \in Nat
    BY <1>5 DEF SaveFails, Fault, ControlInv, TypeOK
  <2>2. SessionInv'
    BY <1>2, <1>3, <1>5, <2>1 DEF SessionInv, Disjoint
  <2> QED
    BY <1>1, <1>2, <1>5, <2>1, <2>2, AdvanceControl DEF ControlInv, TypeOK
<1> QED
  BY <1>1, <1>4, <1>5

(* What the full final verification leaves. *)
LEMMA FullVerifyFacts ==
  ASSUME ControlInv, FullVerify
  PROVE  /\ run = "verify" /\ run' \in {"exists", "failing"}
         /\ UNCHANGED <<opts, count, worker, rx, resp, completed, outcome, output, temp>>
         /\ sess' \in Sessions /\ sess'.ready /\ sess'.id = sess.id
         /\ CorruptRecords(sess', temp[sess.id]) = {}
         /\ manifest' \in Manifests /\ manifest'.id = sess.id
         /\ manifest'.state \in {"Transferring", "Failed"}
         /\ Disjoint(sess'.records) /\ Disjoint(manifest'.records)
         /\ faults' \in Nat
         /\ run' = "exists" => Missing(sess'.records) = {} /\ manifest'.records \subseteq sess'.records
         /\ \A r \in manifest'.records \ sess'.records : SumOf(temp[sess.id], r.begin, r.end) # r.sum
         /\ \A r \in manifest.records \ manifest'.records :
              SumOf(temp[sess.id], r.begin, r.end) # r.sum \/ faults' # faults
<1>1. /\ run = "verify" /\ VerifyTemp(sess, TRUE, TRUE)
      /\ UNCHANGED <<opts, count, worker, rx, resp, completed, outcome, output, temp>>
  BY DEF FullVerify, VerifyTemp
<1>2. /\ run' \in {"exists", "failing"}
      /\ run' = "exists" => Missing(sess'.records) = {} /\ VerifyTemp(sess, TRUE, FALSE)
  BY DEF FullVerify, VerifyTemp, Continue
<1>3. /\ sess \in Sessions /\ sess.ready
      /\ manifest.id = sess.id
      /\ manifest.state \in {"Transferring", "Failed"}
      /\ Disjoint(sess.records) /\ Disjoint(manifest.records)
  BY <1>1, CommitFacts
<1>4. TypeOK /\ manifest.records \subseteq sess.records
  BY <1>1, <1>3 DEF ControlInv, SessionInv
<1>5. /\ sess' \in Sessions /\ sess'.ready /\ sess'.id = sess.id
      /\ sess'.records \subseteq sess.records
      /\ CorruptRecords(sess', temp[sess.id]) = {}
      /\ manifest' \in Manifests /\ manifest'.id = sess.id
      /\ manifest'.state \in {"Transferring", "Failed"}
      /\ Disjoint(sess'.records) /\ Disjoint(manifest'.records)
      /\ faults' \in Nat
      /\ \/ manifest'.records \subseteq sess'.records
         \/ /\ manifest' = manifest
            /\ \A r \in manifest.records \ sess'.records :
                  SumOf(temp[sess.id], r.begin, r.end) # r.sum
      /\ \A r \in sess.records \ sess'.records :
           SumOf(temp[sess.id], r.begin, r.end) # r.sum \/ faults' # faults
      /\ manifest' = manifest \/ manifest'.records = sess'.records
  BY <1>1, <1>3, <1>4, VerifyTempFacts
<1>6. run' = "exists" => manifest'.records \subseteq sess'.records
  BY <1>2, <1>3, <1>4, VerifyTempFacts
<1>7. \A r \in manifest.records \ manifest'.records :
        SumOf(temp[sess.id], r.begin, r.end) # r.sum \/ faults' # faults
  BY <1>4, <1>5
<1> QED
  BY <1>1, <1>2, <1>5, <1>6, <1>7

(* The full final verification. *)
LEMMA FullVerifyControl ==
  ASSUME ControlInv, FullVerify
  PROVE  ControlInv'
<1>1. /\ run = "verify" /\ run' \in {"exists", "failing"}
      /\ UNCHANGED <<opts, count, worker, rx, resp, completed, outcome, output, temp>>
      /\ sess' \in Sessions /\ sess'.ready /\ sess'.id = sess.id
      /\ manifest' \in Manifests /\ manifest'.id = sess.id
      /\ manifest'.state \in {"Transferring", "Failed"}
      /\ Disjoint(sess'.records) /\ Disjoint(manifest'.records)
      /\ faults' \in Nat
      /\ run' = "exists" => manifest'.records \subseteq sess'.records
      /\ \A r \in manifest'.records \ sess'.records : SumOf(temp[sess.id], r.begin, r.end) # r.sum
  BY FullVerifyFacts
<1>2. temp[sess.id] # NoFile /\ \A s \in Streams : worker[s] = "ok"
  BY <1>1, CommitFacts DEF ControlInv, SessionInv
<1>3. SessionInv'
  BY <1>1, <1>2 DEF SessionInv, Disjoint, Corrupt
<1> QED
  BY <1>1, <1>2, <1>3, AdvanceControl DEF ControlInv, TypeOK

(* The last look at the output path, the rename and the sync. *)
LEMMA PublishControl ==
  ASSUME ControlInv, CheckOutput \/ RenameToOutput \/ SyncOutput
  PROVE  ControlInv'
<1>1. /\ run \in {"exists", "rename", "sync"}
      /\ run' \in {"rename", "sync", "markCommitted", "failing"}
      /\ run' = "rename" => run = "exists"
      /\ faults' = faults \/ Fault
      /\ UNCHANGED <<opts, sess, count, worker, rx, resp, completed, outcome, manifest>>
  BY DEF CheckOutput, RenameToOutput, SyncOutput, Continue, shared, disk
<1>2. /\ \A s \in Streams : worker[s] = "ok"
      /\ sess \in Sessions /\ sess.ready /\ sess.id \in Ids
      /\ manifest \in Manifests /\ temp \in [Ids -> Image \cup {NoFile}]
  BY <1>1, CommitFacts
<1>3. /\ output' \in Image \cup {NoFile}
      /\ temp' \in [Ids -> Image \cup {NoFile}]
      /\ run' = "rename" => temp' = temp
  BY <1>1, <1>2 DEF CheckOutput, RenameToOutput, SyncOutput, Continue, disk, ControlInv, TypeOK
<1>4. SessionInv'
  BY <1>1, <1>2, <1>3 DEF ControlInv, SessionInv, Disjoint
<1>5. faults' \in Nat
  BY <1>1 DEF Fault, ControlInv, TypeOK
<1> QED
  BY <1>1, <1>2, <1>3, <1>4, <1>5, AdvanceControl

(* A block of a temp file decays, while no client runs or while it receives. *)
LEMMA TempDecaysControl ==
  ASSUME ControlInv, NEW i \in Ids, NEW p \in Positions, NEW v \in Content, TempDecays(i, p, v)
  PROVE  ControlInv'
<1>1. /\ run \in {"down", "streams"} /\ temp[i] \in Image /\ Fault
      /\ temp' = [temp EXCEPT ![i] = [temp[i] EXCEPT ![p] = v]]
      /\ UNCHANGED <<run, opts, sess, count, worker, rx, resp, completed, outcome, output, manifest>>
  BY ReceiverAssumption DEF TempDecays, shared, ControlInv, TypeOK
<1> DEFINE decayed == [temp[i] EXCEPT ![p] = v]
<1>2. decayed \in Image
  BY <1>1, BlockType
<1> HIDE DEF decayed
<1>3. temp' = [temp EXCEPT ![i] = decayed]
  BY <1>1 DEF decayed
<1>4. /\ temp' \in [Ids -> Image \cup {NoFile}]
      /\ \A j \in Ids : temp'[j] = NoFile => temp[j] = NoFile
  BY <1>2, <1>3, DownloadAssumption DEF ControlInv, TypeOK
<1>5. faults' \in Nat /\ opts.id \in Ids /\ sess.id \in Ids
  BY <1>1, OptionsType DEF Fault, ControlInv, TypeOK, Sessions
<1>6. TypeOK'
  BY <1>1, <1>4, <1>5 DEF ControlInv, TypeOK
<1>7. WorkerInv'
  BY <1>1, <1>4, <1>5 DEF ControlInv, WorkerInv, Preparing
<1>8. SessionInv'
  BY <1>1, <1>4, <1>5 DEF ControlInv, SessionInv, Disjoint
<1> QED
  BY <1>6, <1>7, <1>8 DEF ControlInv

(* A step that changes nothing. *)
LEMMA StutterControl ==
  ASSUME ControlInv, UNCHANGED vars
  PROVE  ControlInv'
<1>1. TypeOK'
  BY DEF vars, ControlInv, TypeOK
<1>2. WorkerInv'
  BY DEF vars, ControlInv, WorkerInv
<1>3. SessionInv'
  BY DEF vars, ControlInv, SessionInv, Disjoint, Corrupt
<1> QED
  BY <1>1, <1>2, <1>3 DEF ControlInv

(* Every step of the client and of its environment. *)
LEMMA ControlStep ==
  ASSUME ControlInv, [Next]_vars
  PROVE  ControlInv'
<1>1. ASSUME NEW s \in Streams, Receive(s) PROVE ControlInv'
  <2>1. ASSUME NEW init \in Inits, RecvInit(s, init) PROVE ControlInv'
    BY <2>1, RefuseControl, InitJoinsControl, PrepareResumeControl, PrepareNewControl DEF RecvInit
  <2>2. ASSUME NEW c \in ChunkIds, NEW p \in Positions, NEW v \in Content, RecvData(s, c, p, v)
        PROVE  ControlInv'
    BY <2>2, RefuseControl, AcceptDataControl DEF RecvData
  <2>3. ASSUME NEW c \in ChunkIds, NEW lo \in Positions, NEW hi \in 1 .. TotalBlocks,
               NEW sum \in Sums(lo, hi), lo < hi, RecvChunkComplete(s, ChunkRecord(c, lo, hi, sum))
        PROVE  ControlInv'
    <3>1. PICK r \in ChunkRecords : RecvChunkComplete(s, r)
      BY <2>3, ChunkRecordType
    <3> QED
      BY <3>1, RefuseControl, RejectControl, RecordChunkControl DEF RecvChunkComplete
  <2> QED
    BY <1>1, <2>1, <2>2, <2>3, RecvFinControl, RefuseControl DEF Receive
<1>2. CASE ClientStep
  BY <1>2, RemoveControl, CreateTempControl, SaveInitControl, EndControl, JoinOkControl,
     SkipVerifyControl, FullVerifyControl, PublishControl DEF ClientStep
<1>3. CASE Environment
  BY <1>3, EndControl, RejectControl, TempDecaysControl DEF Environment
<1> QED
  BY <1>1, <1>2, <1>3, StartControl, StutterControl DEF Next

(* Types, threads and session are as claimed, whatever arrives and fails. *)
THEOREM ControlCorrect == Spec => []ControlInv
<1>1. ControlInv /\ [Next]_vars => ControlInv'
  BY ControlStep
<1> QED
  BY <1>1, ControlInit, PTL DEF Spec

-----------------------------------------------------------------------------
(* The files                                                                  *)

DataInv == VerifiedChunksIntact /\ FlushedBlocksInv /\ VerifiedInv

-----------------------------------------------------------------------------
(* What verification compares *)

(* The checksum of a record is right when it agrees with the file's blocks. *)
LEMMA SumsEqual ==
  ASSUME NEW r \in ChunkRecords, NEW image,
         \A p \in Blocks(r) : image[p] = r.sum[p]
  PROVE  SumOf(image, r.begin, r.end) = r.sum
<1>1. r.sum \in [Blocks(r) -> Content]
  BY BlocksType DEF Sums, Blocks
<1>2. SumOf(image, r.begin, r.end) = [p \in Blocks(r) |-> image[p]]
  BY DEF SumOf, Blocks
<1> QED
  BY <1>1, <1>2

(* ... and only then. *)
LEMMA SumsAgree ==
  ASSUME NEW r \in ChunkRecords, NEW image, SumOf(image, r.begin, r.end) = r.sum
  PROVE  \A p \in Blocks(r) : image[p] = r.sum[p]
BY DEF SumOf, Blocks

(* A complete record list with nothing corrupt describes the file. *)
LEMMA CleanMatches ==
  ASSUME NEW session, NEW image,
         image # NoFile, Missing(session.records) = {}, CorruptRecords(session, image) = {}
  PROVE  Matches(image, session.records)
BY DEF Matches, CorruptRecords

-----------------------------------------------------------------------------
(* The receive loop *)

(* As soon as a thread has failed nothing is claimed any more. *)
LEMMA FailedData ==
  ASSUME run' = "streams", NEW s \in Streams, worker'[s] = "failed"
  PROVE  DataInv'
BY DEF DataInv, VerifiedChunksIntact, FlushedBlocksInv, VerifiedInv

(* Nor before there is a session. *)
LEMMA NotReadyData ==
  ASSUME run' \in {"down", "streams"}, ~sess'.ready
  PROVE  DataInv'
BY DEF DataInv, VerifiedChunksIntact, FlushedBlocksInv, VerifiedInv

(* Steps of a thread that leave the session and the data alone. *)
LEMMA ThreadData ==
  ASSUME DataInv, run = "streams", run' = run, UNCHANGED <<sess, rx, temp>>,
         \A s \in Streams : worker[s] = "failed" => worker'[s] = "failed"
  PROVE  DataInv'
<1>1. \A p : InFlight(p) = InFlight(p)'
  BY DEF InFlight, Flushed
<1>2. VerifiedChunksIntact'
  BY <1>1 DEF DataInv, VerifiedChunksIntact
<1>3. FlushedBlocksInv'
  BY <1>1 DEF DataInv, FlushedBlocksInv, Flushed
<1>4. VerifiedInv'
  BY DEF VerifiedInv
<1> QED
  BY <1>2, <1>3, <1>4 DEF DataInv

(* A session becomes ready when nothing it records is corrupt, and no thread *)
(* can be in the middle of a chunk yet.                                      *)
LEMMA ReadyData ==
  ASSUME ControlInv, ~sess.ready, run' = "streams", UNCHANGED <<rx, temp>>,
         sess' \in Sessions,
         CorruptRecords(sess', temp[sess'.id]) = {}
  PROVE  DataInv'
<1>1. \A s \in Streams : ~rx[s].active
  BY DEF ControlInv, WorkerInv
<1>2. VerifiedChunksIntact'
  <2> SUFFICES ASSUME NEW r \in sess'.records, NEW p \in Blocks(r)
               PROVE  temp[sess'.id][p] = r.sum[p]
    BY DEF VerifiedChunksIntact
  <2>1. r \in ChunkRecords /\ SumOf(temp[sess'.id], r.begin, r.end) = r.sum
    BY DEF Sessions, CorruptRecords
  <2> QED
    BY <2>1, SumsAgree
<1>3. FlushedBlocksInv'
  BY <1>1 DEF FlushedBlocksInv, Flushed
<1>4. VerifiedInv'
  BY DEF VerifiedInv
<1> QED
  BY <1>2, <1>3, <1>4 DEF DataInv

(* SessionInit. *)
LEMMA RecvInitData ==
  ASSUME ControlInv, DataInv, NEW s \in Streams, NEW init \in Inits, RecvInit(s, init)
  PROVE  DataInv'
<1>1. worker[s] = "waitInit" /\ run' = run
  BY DEF RecvInit, InitRejected, InitJoins, PrepareResume, PrepareNew, AtInit
<1>2. run = "streams"
  BY <1>1, ThreadRuns
<1>3. CASE Fail(s)
  BY <1>1, <1>2, <1>3, FailType, FailedData DEF ControlInv
<1>4. CASE InitJoins(s, init) /\ ~Fail(s)
  <2>1. UNCHANGED <<sess, rx, temp>> /\ Become(s, "receive")
    BY <1>4 DEF InitJoins, Respond, shared, disk
  <2>2. \A t \in Streams \ {s} : worker'[t] = worker[t]
    BY <2>1, BecomeType DEF ControlInv
  <2> QED
    BY <1>1, <1>2, <2>1, <2>2, ThreadData
<1>5. CASE PrepareResume(s, init) /\ ~Fail(s)
  <2> DEFINE resumed == [Resume(manifest) EXCEPT !.ready = TRUE]
  <2>1. /\ LoadedManifestValid(manifest, opts.id, init.agrees)
        /\ VerifyTemp(resumed, TRUE, FALSE)
        /\ rx' = rx /\ temp' = temp /\ ~sess.ready
    BY <1>5 DEF PrepareResume, VerifyTemp, Respond
  <2>2. /\ manifest \in Manifests /\ Disjoint(manifest.records)
        /\ manifest.state \in {"Transferring", "Failed"} /\ TypeOK
    BY <2>1 DEF LoadedManifestValid, ControlInv, TypeOK, SessionInv, Manifests, ManifestStates
  <2>3. /\ resumed \in Sessions /\ resumed.ready /\ resumed.id = manifest.id
        /\ resumed.records = manifest.records
    BY <2>2, ResumeType
  <2> HIDE DEF resumed
  <2>4. sess' \in Sessions /\ sess'.id = resumed.id /\ CorruptRecords(sess', temp[resumed.id]) = {}
    BY <2>1, <2>2, <2>3, VerifyTempFacts
  <2> QED
    BY <1>1, <1>2, <2>1, <2>4, ReadyData
<1>6. CASE PrepareNew(s, init) /\ ~Fail(s)
  BY <1>1, <1>2, <1>6, NotReadyData DEF PrepareNew, shared
<1> QED
  BY <1>3, <1>4, <1>5, <1>6 DEF RecvInit, InitRejected

(* The steps of the preparation of a new session. *)
LEMMA PreparingData ==
  ASSUME ControlInv, DataInv, NEW s \in Streams,
         RemoveOutput(s) \/ RemoveManifest(s) \/ CreateTemp(s) \/ SaveInit(s)
  PROVE  DataInv'
<1>1. worker[s] \in Preparing /\ run' = run
  BY DEF RemoveOutput, RemoveManifest, CreateTemp, SaveInit, Preparing
<1>2. run = "streams" /\ ~sess.ready
  BY <1>1, PreparingFacts
<1>3. CASE ~SaveInit(s)
  BY <1>1, <1>2, <1>3, NotReadyData DEF RemoveOutput, RemoveManifest, CreateTemp, shared
<1>4. CASE SaveInit(s) /\ Fail(s)
  BY <1>1, <1>2, <1>4, FailType, FailedData DEF ControlInv
<1>5. CASE SaveInit(s) /\ ~Fail(s)
  <2> DEFINE new == [CreateNew(opts.id) EXCEPT !.ready = TRUE]
  <2>1. sess' = Saved(new) /\ rx' = rx /\ temp' = temp
    BY <1>5 DEF SaveInit, Save, Respond
  <2>2. new \in Sessions /\ new.records = {}
    BY OptionsType, NewSessionType DEF ControlInv
  <2> HIDE DEF new
  <2>3. sess' \in Sessions /\ sess'.records = {}
    BY <2>1, <2>2, SavedType
  <2>4. CorruptRecords(sess', temp[sess'.id]) = {}
    BY <2>3 DEF CorruptRecords
  <2> QED
    BY <1>1, <1>2, <2>1, <2>3, <2>4, ReadyData
<1> QED
  BY <1>3, <1>4, <1>5

(* DATA: the blocks it puts into the temp file are those of a chunk in       *)
(* progress, and the other blocks keep their writer.                         *)
LEMMA AcceptDataData ==
  ASSUME ControlInv, DataInv,
         NEW s \in Streams, NEW c \in ChunkIds, NEW p \in Positions,
         NEW v \in Content, AcceptData(s, c, p, v)
  PROVE  DataInv'
<1> DEFINE k == Current(s, c, p)
           acc == [k.acc EXCEPT ![p] = v]
           old == temp[sess.id]
           new == temp'[sess.id]
<1>1. /\ Receiving(s) /\ DataAcceptable(s, c, p)
      /\ run' = run /\ sess' = sess /\ worker' = worker
  BY DEF AcceptData, shared
<1>2. /\ k.start \in Nat /\ k.flushed \in Nat /\ k.acc \in Image
      /\ k.start <= k.flushed /\ k.flushed <= p
      /\ p \in Nat /\ p + 1 <= TotalBlocks
  BY <1>1, CurrentFacts
<1>3. /\ rx[s].active => k = rx[s]
      /\ ~rx[s].active => k.start = p /\ k.flushed = p
  BY DEF Current, Chunk
<1>4. PICK f \in {k.flushed, p, p + 1} :
        /\ rx' = [rx EXCEPT ![s] = Chunk(TRUE, c, k.start, p + 1, f, acc)]
        /\ Write(acc, k.flushed, f)
  BY DEF AcceptData
<1>5. acc \in Image /\ (\A q \in Positions : q # p => acc[q] = k.acc[q])
  BY <1>2 DEF Image
<1> HIDE DEF acc, k
<1>6. f \in Nat /\ k.flushed <= f
  BY <1>2
<1>7. run = "streams" /\ sess.ready /\ sess.id \in Ids /\ old \in Image
  BY <1>1, ReceivingFacts
<1>8. \A q \in Positions : new[q] = IF k.flushed <= q /\ q < f THEN acc[q] ELSE old[q]
  BY <1>4, <1>5, <1>7, WriteType
<1>9. /\ rx'[s].active /\ rx'[s].start = k.start /\ rx'[s].flushed = f /\ rx'[s].acc = acc
      /\ \A r \in Streams \ {s} : rx'[r] = rx[r]
  BY <1>4 DEF ControlInv, TypeOK, Chunk
<1>10. ASSUME NEW q \in Positions, k.flushed <= q, q < f
       PROVE  InFlight(q)'
  <2>1. q \in Flushed(s)'
    BY <1>2, <1>6, <1>9, <1>10 DEF Flushed, Positions
  <2>2. temp'[sess'.id][q] = rx'[s].acc[q]
    BY <1>1, <1>8, <1>9, <1>10
  <2> QED
    BY <2>1, <2>2 DEF InFlight
<1>11. ASSUME NEW q \in Positions, ~(k.flushed <= q /\ q < f), InFlight(q)
       PROVE  InFlight(q)'
  <2>1. PICK r \in Streams : q \in Flushed(r) /\ old[q] = rx[r].acc[q]
    BY <1>11 DEF InFlight
  <2>2. temp'[sess'.id][q] = old[q]
    BY <1>1, <1>8, <1>11
  <2>3. CASE r # s
    <3>1. q \in Flushed(r)' /\ rx'[r].acc = rx[r].acc
      BY <1>9, <2>1, <2>3 DEF Flushed
    <3> QED
      BY <2>1, <2>2, <3>1 DEF InFlight
  <2>4. CASE r = s
    <3>1. rx[s].active /\ k = rx[s] /\ k.start <= q /\ q < k.flushed
      BY <1>3, <2>1, <2>4 DEF Flushed
    <3>2. q \in Flushed(s)'
      BY <1>2, <1>6, <1>9, <3>1 DEF Flushed, Positions
    <3>3. rx'[s].acc[q] = rx[s].acc[q]
      BY <1>2, <1>5, <1>9, <3>1 DEF Positions
    <3> QED
      BY <2>1, <2>2, <2>4, <3>2, <3>3 DEF InFlight
  <2> QED
    BY <2>3, <2>4
<1>12. VerifiedChunksIntact'
  <2> SUFFICES ASSUME "streams" \notin DecayPhases, \A t \in Streams : worker[t] # "failed",
                      NEW d \in sess.records, NEW q \in Blocks(d)
               PROVE  new[q] = d.sum[q] \/ InFlight(q)'
    BY <1>1 DEF VerifiedChunksIntact
  <2>1. q \in Positions
    BY <1>7, BlocksType, ReceivingFacts, <1>1 DEF Sessions
  <2>2. old[q] = d.sum[q] \/ InFlight(q)
    BY <1>7 DEF DataInv, VerifiedChunksIntact
  <2> QED
    BY <1>8, <1>10, <1>11, <2>1, <2>2
<1>13. FlushedBlocksInv'
  <2> SUFFICES ASSUME "streams" \notin DecayPhases, \A t \in Streams : worker[t] # "failed",
                      NEW r \in Streams, NEW q \in Flushed(r)'
               PROVE  InFlight(q)' \/ q \in Covered(sess.records)
    BY <1>1 DEF FlushedBlocksInv
  <2>1. q \in Positions
    BY DEF Flushed
  <2>2. CASE k.flushed <= q /\ q < f
    BY <1>10, <2>1, <2>2
  <2>3. CASE ~(k.flushed <= q /\ q < f)
    <3>1. q \in Flushed(r)
      <4>1. CASE r # s
        BY <1>9, <4>1 DEF Flushed
      <4>2. CASE r = s
        <5>1. k.start <= q /\ q < f
          BY <1>9, <4>2 DEF Flushed
        <5>2. q < k.flushed
          BY <1>2, <2>1, <2>3, <5>1 DEF Positions
        <5>3. rx[s].active
          BY <1>2, <1>3, <2>1, <5>1, <5>2 DEF Positions
        <5> QED
          BY <1>3, <2>1, <4>2, <5>1, <5>2, <5>3 DEF Flushed
      <4> QED
        BY <4>1, <4>2
    <3>2. InFlight(q) \/ q \in Covered(sess.records)
      BY <1>7, <3>1 DEF DataInv, FlushedBlocksInv
    <3> QED
      BY <1>11, <2>1, <2>3, <3>2
  <2> QED
    BY <2>2, <2>3
<1>14. VerifiedInv'
  BY <1>1, <1>7 DEF VerifiedInv
<1> QED
  BY <1>12, <1>13, <1>14 DEF DataInv

(* ChunkComplete: the chunk that is recorded is in the temp file or is being *)
(* written again.  A block this thread put there earlier is still its own or *)
(* another thread's; if not, it belongs to a recorded range, which can only  *)
(* be an equal one, because different ranges do not overlap.                 *)
LEMMA RecordChunkData ==
  ASSUME ControlInv, DataInv, NEW s \in Streams, NEW r \in ChunkRecords, RecordChunk(s, r)
  PROVE  DataInv'
<1> DEFINE old == temp[sess.id]
           new == temp'[sess.id]
           k   == rx[s]
<1>1. /\ Receiving(s) /\ k.active /\ k.start = r.begin /\ k.next = r.end
      /\ SumOf(k.acc, r.begin, r.end) = r.sum
      /\ RecordAccepted(sess, r)
      /\ Write(k.acc, k.flushed, k.next)
      /\ run' = run
      /\ sess' \in Sessions /\ sess'.id = sess.id
      /\ sess'.records = sess.records \cup {r}
      /\ \/ Fail(s)
         \/ rx' = [rx EXCEPT ![s] = NoChunk] /\ UNCHANGED <<worker, resp>>
  BY RecordChunkFacts DEF MatchesActive, ChunkVerified
<1>2. /\ run = "streams" /\ sess.ready /\ sess \in Sessions /\ sess.id \in Ids
      /\ old \in Image /\ k.acc \in Image
      /\ k.start \in Nat /\ k.flushed \in Nat /\ k.next \in Nat
      /\ k.start <= k.flushed /\ k.flushed <= k.next
  BY <1>1, ReceivingFacts
<1>3. CASE Fail(s)
  BY <1>1, <1>2, <1>3, FailType, FailedData DEF ControlInv
<1>4. CASE rx' = [rx EXCEPT ![s] = NoChunk] /\ UNCHANGED worker
  <2>1. \A q \in Positions : new[q] = IF k.flushed <= q /\ q < k.next THEN k.acc[q] ELSE old[q]
    BY <1>1, <1>2, WriteType
  <2>2. ~rx'[s].active /\ (\A t \in Streams \ {s} : rx'[t] = rx[t])
    BY <1>4, NoChunkType DEF ControlInv, TypeOK
  <2>3. \A q \in Positions : q \in Blocks(r) <=> (k.start <= q /\ q < k.next)
    BY <1>1, <1>2 DEF Blocks, Positions
  <2>4. \A q \in Blocks(r) : q \in Positions /\ r.sum[q] = k.acc[q]
    BY <1>1, BlocksType, SumsAgree
  <2>5. \A d \in sess.records : Blocks(d) \cap Blocks(r) # {} => d = r
    BY <1>1 DEF RecordAccepted, ControlInv, SessionInv, Disjoint
  <2>6. ASSUME NEW q \in Positions, q \notin Blocks(r)
        PROVE  new[q] = old[q] /\ q \notin Flushed(s)
    BY <1>2, <2>1, <2>3, <2>6 DEF Flushed, Positions
  <2>7. ASSUME NEW q \in Positions, new[q] = old[q],
               NEW t \in Streams, t # s, q \in Flushed(t), old[q] = rx[t].acc[q]
        PROVE  InFlight(q)'
    <3>1. q \in Flushed(t)' /\ rx'[t].acc[q] = rx[t].acc[q]
      BY <2>2, <2>7 DEF Flushed
    <3> QED
      BY <1>1, <2>7, <3>1 DEF InFlight
  <2>8. VerifiedChunksIntact'
    <3> SUFFICES ASSUME "streams" \notin DecayPhases, \A t \in Streams : worker[t] # "failed",
                        NEW d \in sess'.records, NEW q \in Blocks(d)
                 PROVE  new[q] = d.sum[q] \/ InFlight(q)'
      BY <1>1, <1>4 DEF VerifiedChunksIntact
    <3>1. q \in Positions
      BY <1>1, BlocksType DEF Sessions
    <3>2. CASE q \notin Blocks(r)
      <4>1. d \in sess.records
        BY <1>1, <3>2
      <4>2. old[q] = d.sum[q] \/ InFlight(q)
        BY <1>2, <4>1 DEF DataInv, VerifiedChunksIntact
      <4> QED
        BY <2>6, <2>7, <3>1, <3>2, <4>2 DEF InFlight
    <3>3. CASE q \in Blocks(r)
      <4>1. d = r /\ r.sum[q] = k.acc[q]
        BY <1>1, <2>4, <2>5, <3>3
      <4>2. CASE k.flushed <= q /\ q < k.next
        BY <2>1, <3>1, <4>1, <4>2
      <4>3. CASE ~(k.flushed <= q /\ q < k.next)
        <5>1. k.start <= q /\ q < k.next
          BY <2>3, <3>1, <3>3
        <5>2. q \in Flushed(s)
          BY <1>1, <1>2, <3>1, <4>3, <5>1 DEF Flushed, Positions
        <5>3. new[q] = old[q]
          BY <2>1, <3>1, <4>3
        <5>4. InFlight(q) \/ q \in Covered(sess.records)
          BY <1>2, <5>2 DEF DataInv, FlushedBlocksInv
        <5>5. CASE InFlight(q)
          BY <2>7, <3>1, <4>1, <5>3, <5>5 DEF InFlight
        <5>6. CASE q \in Covered(sess.records)
          <6>1. r \in sess.records
            BY <2>5, <3>3, <5>6 DEF Covered
          <6>2. old[q] = r.sum[q] \/ InFlight(q)
            BY <1>2, <3>3, <6>1 DEF DataInv, VerifiedChunksIntact
          <6> QED
            BY <4>1, <5>3, <5>5, <6>2
        <5> QED
          BY <5>4, <5>5, <5>6
      <4> QED
        BY <4>2, <4>3
    <3> QED
      BY <3>2, <3>3
  <2>9. FlushedBlocksInv'
    <3> SUFFICES ASSUME "streams" \notin DecayPhases, \A t \in Streams : worker[t] # "failed",
                        NEW t \in Streams, NEW q \in Flushed(t)'
                 PROVE  InFlight(q)' \/ q \in Covered(sess'.records)
      BY <1>4 DEF FlushedBlocksInv
    <3>1. q \in Positions /\ t # s
      BY <2>2 DEF Flushed
    <3>2. q \in Flushed(t)
      BY <2>2, <3>1 DEF Flushed
    <3>3. CASE q \in Blocks(r)
      BY <1>1, <3>3 DEF Covered
    <3>4. CASE q \notin Blocks(r)
      <4>1. InFlight(q) \/ q \in Covered(sess.records)
        BY <1>2, <3>2 DEF DataInv, FlushedBlocksInv
      <4>2. q \in Covered(sess.records) => q \in Covered(sess'.records)
        BY <1>1 DEF Covered
      <4> QED
        BY <2>6, <2>7, <3>1, <3>4, <4>1, <4>2 DEF InFlight
    <3> QED
      BY <3>3, <3>4
  <2>10. VerifiedInv'
    BY <1>1, <1>2 DEF VerifiedInv
  <2> QED
    BY <2>8, <2>9, <2>10 DEF DataInv
<1> QED
  BY <1>1, <1>3, <1>4

(* What any frame does to the data. *)
LEMMA ReceiveData ==
  ASSUME ControlInv, DataInv, NEW s \in Streams, Receive(s)
  PROVE  DataInv'
<1>1. ASSUME worker[s] # "off", worker[s] # "ok", run' = run, Fail(s)
      PROVE  DataInv'
  <2>1. run = "streams"
    BY <1>1, ThreadRuns
  <2> QED
    BY <1>1, <2>1, FailType, FailedData DEF ControlInv
<1>2. ASSUME NEW c \in ChunkIds, NEW p \in Positions, NEW v \in Content, RecvData(s, c, p, v)
      PROVE  DataInv'
  BY <1>1, <1>2, AcceptDataData DEF RecvData, RefuseData, Receiving
<1>3. ASSUME NEW r \in ChunkRecords, RecvChunkComplete(s, r) PROVE DataInv'
  BY <1>1, <1>3, RecordChunkData DEF RecvChunkComplete, RefuseChunk, RejectChunk, Receiving
<1>4. CASE ConnectionFails(s)
  BY <1>1, <1>4 DEF ConnectionFails
<1>5. CASE RecvFin(s)
  <2>1. Receiving(s) /\ run' = run /\ UNCHANGED <<sess, temp>>
    BY <1>5 DEF RecvFin, shared, disk
  <2>2. CASE Fail(s)
    BY <1>1, <2>1, <2>2 DEF Receiving
  <2>3. CASE Become(s, "ok") /\ rx' = rx
    <3>1. \A t \in Streams : worker[t] = "failed" => worker'[t] = "failed"
      BY <2>1, <2>3, BecomeType DEF ControlInv, Receiving
    <3> QED
      BY <2>1, <2>3, <3>1, ReceivingFacts, ThreadData
  <2> QED
    BY <1>5, <2>2, <2>3 DEF RecvFin
<1>6. ASSUME NEW c \in ChunkIds, NEW lo \in Positions, NEW hi \in 1 .. TotalBlocks,
             NEW sum \in Sums(lo, hi), lo < hi, RecvChunkComplete(s, ChunkRecord(c, lo, hi, sum))
      PROVE  DataInv'
  BY <1>3, <1>6, ChunkRecordType
<1> QED
  BY <1>2, <1>4, <1>5, <1>6, RecvInitData DEF Receive

-----------------------------------------------------------------------------
(* The commit *)

(* Nothing is missing, and with every thread done no block is in flight:     *)
(* unless blocks decay, the temp file has every recorded checksum.           *)
LEMMA JoinOkData ==
  ASSUME ControlInv, DataInv, JoinOk
  PROVE  DataInv'
<1>1. /\ run = "streams" /\ \A s \in Streams : worker[s] = "ok"
      /\ run' \in {"verify", "failing"}
      /\ run' = "verify" => Missing(sess.records) = {}
      /\ UNCHANGED <<sess, temp, output>>
  BY DEF JoinOk, AllReturned, Continue, shared, disk
<1>2. sess.ready /\ sess \in Sessions /\ temp[sess.id] # NoFile
  BY <1>1, ReceiverAssumption DEF ControlInv, TypeOK, WorkerInv, SessionInv
<1>3. \A p : ~InFlight(p)
  BY <1>1 DEF ControlInv, WorkerInv, InFlight, Flushed
<1>4. ASSUME "streams" \notin DecayPhases
      PROVE  CorruptRecords(sess, temp[sess.id]) = {}
  <2> SUFFICES ASSUME NEW r \in sess.records
               PROVE  SumOf(temp[sess.id], r.begin, r.end) = r.sum
    BY DEF CorruptRecords
  <2>1. r \in ChunkRecords
    BY <1>2 DEF Sessions
  <2>2. \A p \in Blocks(r) : temp[sess.id][p] = r.sum[p]
    BY <1>1, <1>2, <1>3, <1>4 DEF DataInv, VerifiedChunksIntact
  <2> QED
    BY <2>1, <2>2, SumsEqual
<1>5. VerifiedInv'
  BY <1>1, <1>2, <1>4 DEF VerifiedInv
<1>6. VerifiedChunksIntact' /\ FlushedBlocksInv'
  BY <1>1 DEF VerifiedChunksIntact, FlushedBlocksInv
<1> QED
  BY <1>5, <1>6 DEF DataInv

(* The final verification, made or skipped. *)
LEMMA VerifyData ==
  ASSUME ControlInv, DataInv, SkipVerify \/ FullVerify
  PROVE  DataInv'
<1>1. /\ run = "verify" /\ run' \in {"exists", "failing"} /\ temp' = temp
  BY FullVerifyFacts DEF SkipVerify, Continue
<1>2. sess.ready /\ sess \in Sessions /\ temp[sess.id] # NoFile
  BY <1>1, CommitFacts DEF ControlInv, SessionInv
<1>3. sess'.id = sess.id /\ (run' = "exists" => Matches(temp[sess.id], sess'.records))
  <2>1. CASE SkipVerify
    <3>1. sess' = sess \/ sess' = Saved(sess)
      BY <2>1 DEF SkipVerify, Save, SaveFails
    <3>2. sess'.id = sess.id /\ sess'.records = sess.records
      BY <1>2, <3>1, SavedType
    <3>3. "streams" \notin DecayPhases
      BY <2>1, ReceiverAssumption DEF SkipVerify, MaySkipFinalVerify
    <3>4. Missing(sess.records) = {} /\ CorruptRecords(sess, temp[sess.id]) = {}
      BY <1>1, <3>3 DEF DataInv, VerifiedInv
    <3>5. Matches(temp[sess.id], sess.records)
      BY <1>2, <3>4, CleanMatches
    <3> QED
      BY <3>2, <3>5
  <2>2. CASE FullVerify
    BY <1>2, <2>2, FullVerifyFacts, CleanMatches
  <2> QED
    BY <2>1, <2>2
<1>4. VerifiedInv'
  BY <1>1, <1>2, <1>3 DEF VerifiedInv
<1>5. VerifiedChunksIntact' /\ FlushedBlocksInv'
  BY <1>1 DEF VerifiedChunksIntact, FlushedBlocksInv
<1> QED
  BY <1>4, <1>5 DEF DataInv

(* The verified temp file becomes the output. *)
LEMMA PublishData ==
  ASSUME ControlInv, DataInv, CheckOutput \/ RenameToOutput \/ SyncOutput
  PROVE  DataInv'
<1>1. /\ run \in {"exists", "rename", "sync"} /\ sess' = sess
      /\ run' \in {"rename", "sync", "markCommitted", "failing"}
  BY DEF CheckOutput, RenameToOutput, SyncOutput, Continue, shared
<1>2. sess.id \in Ids /\ temp \in [Ids -> Image \cup {NoFile}]
  BY <1>1, CommitFacts
<1>3. CASE CheckOutput
  <2>1. /\ run = "exists" /\ temp' = temp /\ run' \in {"rename", "failing"}
        /\ run' = "rename" => output' = NoFile
    BY <1>3 DEF CheckOutput, Continue, shared, disk
  <2>2. Matches(temp[sess.id], sess.records)
    BY <2>1 DEF DataInv, VerifiedInv
  <2> QED
    BY <1>1, <2>1, <2>2 DEF DataInv, VerifiedChunksIntact, FlushedBlocksInv, VerifiedInv, Matches
<1>4. CASE RenameToOutput
  <2>1. Matches(temp[sess.id], sess.records)
    BY <1>4 DEF RenameToOutput, DataInv, VerifiedInv
  <2>2. \/ output' = temp[sess.id] /\ run' = "sync"
        \/ temp' = temp /\ run' = "failing"
    BY <1>4 DEF RenameToOutput, Continue
  <2> QED
    BY <1>1, <2>1, <2>2 DEF DataInv, VerifiedChunksIntact, FlushedBlocksInv, VerifiedInv, Matches
<1>5. CASE SyncOutput
  <2>1. /\ Matches(output, sess.records) /\ output' = output
        /\ run' \in {"markCommitted", "failing"}
    BY <1>5 DEF SyncOutput, Continue, disk, DataInv, VerifiedInv
  <2> QED
    BY <1>1, <2>1 DEF DataInv, VerifiedChunksIntact, FlushedBlocksInv, VerifiedInv
<1> QED
  BY <1>3, <1>4, <1>5

(* Every step preserves DataInv. *)
LEMMA DataStep ==
  ASSUME ControlInv, DataInv, [Next]_vars
  PROVE  DataInv'
<1>1. ASSUME NEW o \in Options, StartClient(o) PROVE DataInv'
  BY <1>1, NotReadyData DEF StartClient, shared, ControlInv, SessionInv
<1>2. ASSUME NEW s \in Streams, Connect(s) PROVE DataInv'
  <2>1. /\ worker[s] = "connect" /\ Become(s, "waitInit") /\ run' = run /\ UNCHANGED <<sess, rx, temp>>
    BY <1>2 DEF Connect, shared, disk
  <2>2. \A t \in Streams : worker[t] = "failed" => worker'[t] = "failed"
    BY <2>1, BecomeType DEF ControlInv
  <2> QED
    BY <2>1, <2>2, ThreadRuns, ThreadData
<1>3. CASE JoinFailed \/ MarkCommitted \/ MarkFailed \/ Kill
  <2>1. run' = "down" /\ sess' = NoSession
    BY <1>3 DEF JoinFailed, MarkCommitted, MarkFailed, Kill, Exit
  <2> QED
    BY <2>1, NoSessionType, NotReadyData
<1>4. ASSUME NEW s \in Streams, WriteFails(s) PROVE DataInv'
  <2>1. worker[s] = "receive" /\ Fail(s) /\ run' = run
    BY <1>4 DEF WriteFails, Receiving
  <2> QED
    BY <2>1, ThreadRuns, FailType, FailedData DEF ControlInv
<1>5. ASSUME NEW i \in Ids, NEW p \in Positions, NEW v \in Content, TempDecays(i, p, v)
      PROVE  DataInv'
  <2>1. run \in {"down", "streams"} /\ run \in DecayPhases /\ run' = run
    BY <1>5, ReceiverAssumption DEF TempDecays
  <2> QED
    BY <2>1 DEF DataInv, VerifiedChunksIntact, FlushedBlocksInv, VerifiedInv
<1>6. CASE UNCHANGED vars
  <2>1. \A p : InFlight(p) = InFlight(p)'
    BY <1>6 DEF vars, InFlight, Flushed
  <2>2. VerifiedChunksIntact' /\ FlushedBlocksInv'
    BY <1>6, <2>1 DEF vars, DataInv, VerifiedChunksIntact, FlushedBlocksInv, Flushed
  <2>3. VerifiedInv'
    BY <1>6 DEF vars, DataInv, VerifiedInv
  <2> QED
    BY <2>2, <2>3 DEF DataInv
<1> QED
  BY <1>1, <1>2, <1>3, <1>4, <1>5, <1>6, ReceiveData, PreparingData, JoinOkData, VerifyData, PublishData
     DEF Next, ClientStep, Environment

-----------------------------------------------------------------------------
(* How far the manifest is behind *)

(* A verified chunk: it counts as dirty, unless the manifest was saved, and  *)
(* when the save that was due failed there is one fault more.                *)
LEMMA RecordChunkLag ==
  ASSUME ControlInv, LagInv, NEW s \in Streams, NEW r \in ChunkRecords, RecordChunk(s, r)
  PROVE  LagInv'
<1> DEFINE after == RecordVerifiedChunk(sess, r)
<1> SUFFICES ASSUME FlushPolicy = "every_n_chunks"
             PROVE  LagInv'
  BY DEF LagInv
<1>1. run = "streams" /\ sess.ready /\ sess \in Sessions
  BY RecordChunkFacts, ReceivingFacts
<1>2. /\ after \in Sessions /\ after.records = sess.records \cup {r}
      /\ after.dirty = IF r \in sess.records THEN sess.dirty ELSE sess.dirty + 1
  BY <1>1, RecordVerifiedType
<1>3. /\ sess.dirty \in Nat /\ faults \in Nat /\ FlushInterval \in Nat \ {0}
      /\ IsFiniteSet(Lag) /\ Cardinality(Lag) <= sess.dirty /\ sess.dirty < FlushInterval + faults
  BY <1>1, DownloadAssumption DEF LagInv, ControlInv, TypeOK, Sessions
<1>4. \/ ~FlushDue(sess, after) /\ sess' = after /\ UNCHANGED <<manifest, faults>>
      \/ Save(after, "Transferring")
      \/ SaveFails(after)
  BY DEF RecordChunk
<1> HIDE DEF after
<1>5. CASE Save(after, "Transferring")
  <2>1. sess'.dirty = 0 /\ sess'.records = after.records /\ manifest'.records = after.records
    BY <1>2, <1>5, SavedType, ManifestOfType DEF Save, ManifestStates
  <2>2. Lag' = {} /\ faults' = faults
    BY <1>5, <2>1 DEF Lag, Save
  <2> QED
    BY <1>3, <2>1, <2>2, FS_EmptySet DEF LagInv
<1>6. ASSUME sess' = after, manifest' = manifest, faults' \in Nat, faults' >= faults,
             after.dirty > sess.dirty => after.dirty < FlushInterval + faults'
      PROVE  LagInv'
  <2>1. CASE r \in sess.records
    <3>1. Lag' = Lag /\ sess'.dirty = sess.dirty
      BY <1>2, <1>6, <2>1 DEF Lag
    <3> QED
      BY <1>3, <1>6, <3>1 DEF LagInv
  <2>2. CASE r \notin sess.records
    <3>1. Lag' \subseteq Lag \cup {r} /\ sess'.dirty = sess.dirty + 1
      BY <1>2, <1>6, <2>2 DEF Lag
    <3>2. IsFiniteSet(Lag \cup {r}) /\ Cardinality(Lag \cup {r}) <= Cardinality(Lag) + 1
      <4>1. IsFiniteSet(Lag)
        BY <1>3
      <4>2. Cardinality(Lag) \in Nat
        BY <4>1, FS_CardinalityType
      <4>3. /\ IsFiniteSet(Lag \cup {r})
            /\ Cardinality(Lag \cup {r}) = IF r \in Lag THEN Cardinality(Lag) ELSE Cardinality(Lag) + 1
        BY <4>1, FS_AddElement
      <4> QED
        BY <4>2, <4>3
    <3>3. IsFiniteSet(Lag') /\ Cardinality(Lag') <= Cardinality(Lag \cup {r})
      BY <3>1, <3>2, FS_Subset
    <3>4. Cardinality(Lag) \in Nat /\ Cardinality(Lag \cup {r}) \in Nat /\ Cardinality(Lag') \in Nat
      BY <1>3, <3>2, <3>3, FS_CardinalityType
    <3>5. Cardinality(Lag') <= sess'.dirty
      BY <1>3, <3>1, <3>2, <3>3, <3>4
    <3>6. sess'.dirty < FlushInterval + faults'
      BY <1>3, <1>6, <3>1
    <3> QED
      BY <3>3, <3>5, <3>6 DEF LagInv
  <2> QED
    BY <2>1, <2>2
<1>7. CASE ~FlushDue(sess, after) /\ sess' = after /\ UNCHANGED <<manifest, faults>>
  <2>1. after.dirty > sess.dirty => after.dirty < FlushInterval + faults'
    BY <1>2, <1>3, <1>7 DEF FlushDue
  <2> QED
    BY <1>3, <1>6, <1>7, <2>1
<1>8. CASE SaveFails(after)
  <2>1. sess' = after /\ manifest' = manifest /\ faults' = faults + 1
    BY <1>8 DEF SaveFails, Fault
  <2>2. after.dirty <= sess.dirty + 1
    BY <1>2, <1>3
  <2> QED
    BY <1>2, <1>3, <1>6, <2>1, <2>2
<1> QED
  BY <1>4, <1>5, <1>7, <1>8

(* While data is received, only a preparation and a recorded chunk touch the *)
(* session or the manifest.                                                  *)
LEMMA StreamsStep ==
  ASSUME ControlInv, [Next]_vars, run' = "streams", sess'.ready
  PROVE  \/ \E s \in Streams : SaveInit(s)
         \/ \E s \in Streams, init \in Inits : PrepareResume(s, init) /\ sess' # sess
         \/ \E s \in Streams, r \in ChunkRecords : RecordChunk(s, r)
         \/ run = "streams" /\ UNCHANGED <<sess, manifest>> /\ (faults' = faults \/ Fault)
<1> DEFINE Same == run = "streams" /\ UNCHANGED <<sess, manifest>> /\ (faults' = faults \/ Fault)
           Resumes == \E s \in Streams, init \in Inits : PrepareResume(s, init) /\ sess' # sess
           Records == \E s \in Streams, r \in ChunkRecords : RecordChunk(s, r)
<1>1. ASSUME NEW o \in Options, StartClient(o) PROVE FALSE
  BY <1>1 DEF StartClient, shared, ControlInv, SessionInv
<1>2. ASSUME NEW s \in Streams, Connect(s) PROVE Same
  BY <1>2 DEF Connect, shared, disk
<1>3. ASSUME NEW s \in Streams, Receive(s) PROVE Same \/ Resumes \/ Records
  <2>1. ASSUME NEW init \in Inits, RecvInit(s, init) PROVE Same \/ Resumes
    <3>1. CASE InitRejected(s, init) \/ InitJoins(s, init) \/ PrepareNew(s, init)
      BY <3>1 DEF InitRejected, InitJoins, PrepareNew, shared, disk
    <3>2. CASE PrepareResume(s, init)
      <4>1. ~sess.ready
        BY <3>2 DEF PrepareResume
      <4> QED
        BY <3>2, <4>1
    <3> QED
      BY <2>1, <3>1, <3>2 DEF RecvInit
  <2>2. ASSUME NEW c \in ChunkIds, NEW p \in Positions, NEW v \in Content, RecvData(s, c, p, v)
        PROVE  Same
    BY <2>2 DEF RecvData, AcceptData, RefuseData, shared, disk
  <2>3. ASSUME NEW r \in ChunkRecords, RecvChunkComplete(s, r) PROVE Same \/ Records
    BY <2>3 DEF RecvChunkComplete, RefuseChunk, RejectChunk, shared, disk
  <2>4. CASE RecvFin(s) \/ ConnectionFails(s)
    BY <2>4 DEF RecvFin, ConnectionFails, shared, disk
  <2> HIDE DEF Same, Resumes, Records
  <2>5. ASSUME NEW c \in ChunkIds, NEW lo \in Positions, NEW hi \in 1 .. TotalBlocks,
               NEW sum \in Sums(lo, hi), lo < hi, RecvChunkComplete(s, ChunkRecord(c, lo, hi, sum))
        PROVE  Same \/ Records
    BY <2>3, <2>5, ChunkRecordType
  <2> QED
    BY <1>3, <2>1, <2>2, <2>4, <2>5 DEF Receive
<1>4. ASSUME NEW s \in Streams, RemoveOutput(s) \/ RemoveManifest(s) \/ CreateTemp(s) PROVE FALSE
  <2>1. worker[s] \in Preparing /\ sess' = sess
    BY <1>4 DEF RemoveOutput, RemoveManifest, CreateTemp, shared, Preparing
  <2> QED
    BY <2>1, PreparingFacts
<1>5. CASE \/ JoinFailed \/ JoinOk \/ SkipVerify \/ FullVerify \/ CheckOutput
           \/ RenameToOutput \/ SyncOutput \/ MarkCommitted \/ MarkFailed \/ Kill
  BY <1>5, FullVerifyFacts DEF JoinFailed, JoinOk, SkipVerify, CheckOutput, RenameToOutput, SyncOutput,
     MarkCommitted, MarkFailed, Kill, Continue, Exit
<1>6. CASE \/ \E s \in Streams : WriteFails(s)
           \/ \E i \in Ids, p \in Positions, v \in Content : TempDecays(i, p, v)
  BY <1>6 DEF WriteFails, TempDecays, shared
<1>7. CASE UNCHANGED vars
  BY <1>7 DEF vars
<1> HIDE DEF Same, Resumes, Records
<1> QED
  BY <1>1, <1>2, <1>3, <1>4, <1>5, <1>6, <1>7 DEF Next, ClientStep, Environment, Same, Resumes, Records

(* Every step preserves LagInv. *)
LEMMA LagStep ==
  ASSUME ControlInv, LagInv, [Next]_vars
  PROVE  LagInv'
<1> SUFFICES ASSUME run' = "streams", sess'.ready PROVE LagInv'
  BY DEF LagInv
<1>0. faults \in Nat /\ FlushInterval \in Nat \ {0} /\ sess \in Sessions
  BY DownloadAssumption DEF ControlInv, TypeOK
<1>1. ASSUME Lag' = {}, sess'.dirty = 0, faults' \in Nat PROVE LagInv'
  <2>1. IsFiniteSet(Lag') /\ Cardinality(Lag') = 0
    BY <1>1, FS_EmptySet
  <2>2. \A n \in Nat : 0 < FlushInterval + n
    BY <1>0
  <2>3. 0 < FlushInterval + faults'
    BY <1>1, <2>2
  <2> QED
    BY <1>1, <2>1, <2>3 DEF LagInv
<1>2. ASSUME NEW s \in Streams, SaveInit(s) PROVE LagInv'
  <2> DEFINE new == [CreateNew(opts.id) EXCEPT !.ready = TRUE]
  <2>1. ~sess.ready
    BY <1>2, PreparingFacts DEF SaveInit, Preparing
  <2>2. Save(new, "Transferring")
    BY <1>2, <2>1 DEF SaveInit, SaveFails
  <2>3. new \in Sessions
    BY OptionsType, NewSessionType DEF ControlInv
  <2> HIDE DEF new
  <2>4. sess'.records = manifest'.records /\ sess'.dirty = 0 /\ faults' = faults
    BY <2>2, <2>3, SavedType, ManifestOfType DEF Save, ManifestStates
  <2>5. Lag' = {}
    BY <2>4 DEF Lag
  <2> QED
    BY <1>0, <1>1, <2>4, <2>5
<1>3. ASSUME NEW s \in Streams, NEW init \in Inits, PrepareResume(s, init), sess' # sess
      PROVE  LagInv'
  <2> DEFINE resumed == [Resume(manifest) EXCEPT !.ready = TRUE]
  <2>1. LoadedManifestValid(manifest, opts.id, init.agrees) /\ VerifyTemp(resumed, TRUE, FALSE)
    BY <1>3 DEF PrepareResume, VerifyTemp
  <2>2. /\ manifest \in Manifests /\ Disjoint(manifest.records)
        /\ manifest.state \in {"Transferring", "Failed"} /\ TypeOK
    BY <2>1 DEF LoadedManifestValid, ControlInv, TypeOK, SessionInv, Manifests, ManifestStates
  <2>3. /\ resumed \in Sessions /\ resumed.ready /\ resumed.id = manifest.id
        /\ resumed.records = manifest.records /\ resumed.dirty = 0
    BY <2>2, ResumeType
  <2> HIDE DEF resumed
  <2>4. /\ sess'.records \subseteq manifest.records /\ sess'.dirty = 0 /\ faults' \in Nat
        /\ manifest' = manifest \/ manifest'.records = sess'.records
    BY <2>1, <2>2, <2>3, VerifyTempFacts
  <2>5. Lag' = {}
    BY <2>4 DEF Lag
  <2> QED
    BY <1>1, <2>4, <2>5
<1>4. CASE run = "streams" /\ UNCHANGED <<sess, manifest>> /\ (faults' = faults \/ Fault)
  <2>1. Lag' = Lag /\ faults' \in Nat /\ faults' >= faults /\ sess.dirty \in Nat
    BY <1>0, <1>4 DEF Lag, Fault, Sessions
  <2> QED
    BY <1>0, <1>4, <2>1 DEF LagInv
<1> QED
  BY <1>2, <1>3, <1>4, StreamsStep, RecordChunkLag

-----------------------------------------------------------------------------
(* What a step may do to the files *)

(* No temp file disappears. *)
KeepsTemps == \A i \in Ids : temp[i] # NoFile => temp'[i] # NoFile

(* The manifest stays the same download's and forgets nothing that is there. *)
KeepsProgress ==
  /\ manifest'.id = manifest.id
  /\ \A r \in manifest.records \ manifest'.records : Corrupt(r) \/ faults' # faults

(* A step leaves the files, or removes them where the client may start over, *)
(* or saves a manifest of a download that goes on or failed.                 *)
KeepsFiles == UNCHANGED <<output, manifest>> /\ KeepsTemps
ClearsFiles ==
  /\ opts.overwrite \/ manifest.state = "Absent"
  /\ output' = output \/ (output' = NoFile /\ opts.overwrite)
  /\ manifest' = manifest \/ (manifest' = NoManifest /\ opts.overwrite)
SavesProgress ==
  /\ output' = output
  /\ manifest'.state \in {"Transferring", "Failed"}
  /\ temp'[manifest'.id] # NoFile \/ NothingLost'
  /\ opts.overwrite \/ manifest.state = "Absent" \/ KeepsProgress

(* The preparation of a new session before its first save. *)
LEMMA PreparingDisk ==
  ASSUME ControlInv, NEW s \in Streams, RemoveOutput(s) \/ RemoveManifest(s) \/ CreateTemp(s)
  PROVE  ClearsFiles
<1>1. /\ worker[s] \in {"removeOutput", "removeManifest"} => opts.overwrite
      /\ worker[s] = "create" => opts.overwrite \/ manifest.state = "Absent"
  BY DEF ControlInv, WorkerInv
<1> QED
  BY <1>1 DEF RemoveOutput, RemoveManifest, CreateTemp, ClearsFiles

(* The first save of a new session. *)
LEMMA SaveInitDisk ==
  ASSUME ControlInv, NEW s \in Streams, SaveInit(s)
  PROVE  KeepsFiles \/ SavesProgress
<1> DEFINE new == [CreateNew(opts.id) EXCEPT !.ready = TRUE]
<1>1. /\ worker[s] = "save" /\ UNCHANGED <<output, temp>>
      /\ Save(new, "Transferring") \/ UNCHANGED manifest
  BY DEF SaveInit, SaveFails
<1>2. /\ temp[opts.id] # NoFile
      /\ opts.overwrite \/ manifest.state = "Absent"
  BY <1>1 DEF ControlInv, WorkerInv
<1>3. new \in Sessions /\ new.id = opts.id
  BY OptionsType, NewSessionType DEF ControlInv
<1> HIDE DEF new
<1>4. CASE Save(new, "Transferring")
  <2>1. manifest'.state = "Transferring" /\ manifest'.id = opts.id
    BY <1>3, <1>4, ManifestOfType DEF Save, ManifestStates
  <2> QED
    BY <1>1, <1>2, <2>1 DEF SavesProgress
<1>5. CASE UNCHANGED manifest
  BY <1>1, <1>5 DEF KeepsFiles, KeepsTemps
<1> QED
  BY <1>1, <1>4, <1>5

(* The save of a verification that dropped records: DownloadSession::resume  *)
(* on the manifest's records, the final verification on the session's.       *)
LEMMA VerifyDisk ==
  ASSUME ControlInv, NEW session \in Sessions, session.ready,
         manifest.id = session.id, temp[session.id] # NoFile,
         manifest.records \subseteq session.records,
         UNCHANGED <<output, temp>>,
         manifest'.id = session.id, manifest'.state \in {"Transferring", "Failed"},
         \A r \in manifest.records \ manifest'.records :
            SumOf(temp[session.id], r.begin, r.end) # r.sum \/ faults' # faults
  PROVE  SavesProgress
<1>1. KeepsProgress
  BY DEF KeepsProgress, Corrupt
<1> QED
  BY <1>1 DEF SavesProgress

(* Saving the request of a resume keeps every record that it does not find corrupt. *)
LEMMA PrepareResumeDisk ==
  ASSUME ControlInv, NEW s \in Streams, NEW init \in Inits, PrepareResume(s, init)
  PROVE  KeepsFiles \/ SavesProgress
<1> DEFINE resumed == [Resume(manifest) EXCEPT !.ready = TRUE]
<1>1. UNCHANGED <<output, temp>>
  BY DEF PrepareResume
<1>2. CASE manifest' = manifest
  BY <1>1, <1>2 DEF KeepsFiles, KeepsTemps
<1>3. CASE manifest' # manifest
  <2>1. /\ LoadedManifestValid(manifest, opts.id, init.agrees) /\ temp[opts.id] # NoFile
        /\ VerifyTemp(resumed, TRUE, FALSE)
    BY <1>3 DEF PrepareResume, VerifyTemp
  <2>2. /\ manifest \in Manifests /\ Disjoint(manifest.records) /\ manifest.id = opts.id
        /\ manifest.state \in {"Transferring", "Failed"} /\ TypeOK
    BY <2>1 DEF LoadedManifestValid, ControlInv, TypeOK, SessionInv, Manifests, ManifestStates
  <2>3. /\ resumed \in Sessions /\ resumed.ready /\ resumed.id = manifest.id
        /\ resumed.records = manifest.records
    BY <2>2, ResumeType
  <2> HIDE DEF resumed
  <2>4. /\ manifest'.id = resumed.id /\ manifest'.state \in {"Transferring", "Failed"}
        /\ manifest'.records = sess'.records
        /\ \A r \in resumed.records \ sess'.records :
             SumOf(temp[resumed.id], r.begin, r.end) # r.sum \/ faults' # faults
    BY <1>3, <2>1, <2>2, <2>3, VerifyTempFacts
  <2> QED
    BY <1>1, <2>1, <2>2, <2>3, <2>4, VerifyDisk
<1> QED
  BY <1>2, <1>3

(* A verified chunk. *)
LEMMA RecordChunkDisk ==
  ASSUME ControlInv, NEW s \in Streams, NEW r \in ChunkRecords, RecordChunk(s, r)
  PROVE  KeepsFiles \/ SavesProgress
<1>1. /\ run = "streams" /\ sess.ready /\ sess.id \in Ids
      /\ rx[s].acc \in Image /\ temp[sess.id] \in Image
  BY RecordChunkFacts, ReceivingFacts
<1>2. /\ output' = output /\ sess'.records = sess.records \cup {r}
      /\ Write(rx[s].acc, rx[s].flushed, rx[s].next)
      /\ \/ manifest' = manifest
         \/ /\ manifest'.state = "Transferring" /\ manifest'.id = sess.id
            /\ manifest'.records = sess'.records
  BY RecordChunkFacts
<1>3. temp'[sess.id] # NoFile /\ \A i \in Ids \ {sess.id} : temp'[i] = temp[i]
  BY <1>1, <1>2, WriteType
<1>4. manifest.id = sess.id /\ manifest.records \subseteq sess.records
  BY <1>1 DEF ControlInv, SessionInv
<1>5. CASE manifest' = manifest
  BY <1>2, <1>3, <1>5 DEF KeepsFiles, KeepsTemps
<1>6. CASE /\ manifest'.state = "Transferring" /\ manifest'.id = sess.id
           /\ manifest'.records = sess'.records
  BY <1>2, <1>3, <1>4, <1>6 DEF SavesProgress, KeepsProgress
<1> QED
  BY <1>2, <1>5, <1>6

(* Any frame. *)
LEMMA ReceiveDisk ==
  ASSUME ControlInv, NEW s \in Streams, Receive(s)
  PROVE  KeepsFiles \/ SavesProgress
<1>1. ASSUME NEW init \in Inits, RecvInit(s, init) PROVE KeepsFiles \/ SavesProgress
  <2>1. CASE InitRejected(s, init) \/ InitJoins(s, init) \/ PrepareNew(s, init)
    BY <2>1 DEF InitRejected, InitJoins, PrepareNew, disk, KeepsFiles, KeepsTemps
  <2> QED
    BY <1>1, <2>1, PrepareResumeDisk DEF RecvInit
<1>2. ASSUME Receiving(s), UNCHANGED <<output, manifest>>,
             NEW acc \in Image, NEW lo, NEW hi, Write(acc, lo, hi)
      PROVE  KeepsFiles
  <2>1. sess.id \in Ids /\ temp[sess.id] \in Image
    BY <1>2, ReceivingFacts
  <2>2. temp'[sess.id] # NoFile /\ \A i \in Ids \ {sess.id} : temp'[i] = temp[i]
    BY <1>2, <2>1, WriteType
  <2> QED
    BY <1>2, <2>2 DEF KeepsFiles, KeepsTemps
<1>3. ASSUME NEW c \in ChunkIds, NEW p \in Positions, NEW v \in Content, RecvData(s, c, p, v)
      PROVE  KeepsFiles
  <2>1. CASE RefuseData(s, c, p)
    BY <2>1 DEF RefuseData, disk, KeepsFiles, KeepsTemps
  <2>2. CASE AcceptData(s, c, p, v)
    <3> DEFINE k   == Current(s, c, p)
               acc == [k.acc EXCEPT ![p] = v]
    <3>1. PICK f : Receiving(s) /\ DataAcceptable(s, c, p) /\ Write(acc, k.flushed, f)
                   /\ UNCHANGED <<output, manifest>>
      BY <2>2 DEF AcceptData
    <3>2. acc \in Image
      BY <3>1, CurrentFacts DEF Image
    <3> HIDE DEF k, acc
    <3> QED
      BY <1>2, <3>1, <3>2
  <2> QED
    BY <1>3, <2>1, <2>2 DEF RecvData
<1>4. ASSUME NEW r \in ChunkRecords, RecvChunkComplete(s, r) PROVE KeepsFiles \/ SavesProgress
  <2>1. CASE RefuseChunk(s, r.chunk, r.begin, r.end)
    BY <2>1 DEF RefuseChunk, disk, KeepsFiles, KeepsTemps
  <2>2. CASE RejectChunk(s, r)
    <3>1. Receiving(s) /\ Write(rx[s].acc, rx[s].flushed, rx[s].next) /\ UNCHANGED <<output, manifest>>
      BY <2>2 DEF RejectChunk, FlushChunk
    <3> QED
      BY <1>2, <3>1, ReceivingFacts
  <2> QED
    BY <1>4, <2>1, <2>2, RecordChunkDisk DEF RecvChunkComplete
<1>5. CASE RecvFin(s) \/ ConnectionFails(s)
  BY <1>5 DEF RecvFin, ConnectionFails, disk, KeepsFiles, KeepsTemps
<1>6. ASSUME NEW c \in ChunkIds, NEW lo \in Positions, NEW hi \in 1 .. TotalBlocks,
             NEW sum \in Sums(lo, hi), lo < hi, RecvChunkComplete(s, ChunkRecord(c, lo, hi, sum))
      PROVE  KeepsFiles \/ SavesProgress
  BY <1>4, <1>6, ChunkRecordType
<1> QED
  BY <1>1, <1>3, <1>5, <1>6 DEF Receive

(* The main thread's saves: a failed or stopped download, a verification. *)
LEMMA MainSaveDisk ==
  ASSUME ControlInv, DataInv, JoinFailed \/ SkipVerify \/ FullVerify \/ MarkFailed
  PROVE  KeepsFiles \/ SavesProgress
<1>1. UNCHANGED <<output, temp>>
  BY DEF JoinFailed, SkipVerify, FullVerify, MarkFailed
<1>2. CASE manifest' = manifest
  BY <1>1, <1>2 DEF KeepsFiles, KeepsTemps
<1>3. ASSUME sess.ready, NEW state \in {"Transferring", "Failed"}, manifest' = ManifestOf(sess, state)
      PROVE  /\ sess \in Sessions /\ manifest.id = sess.id
             /\ manifest'.state = state /\ manifest'.id = sess.id /\ manifest'.records = sess.records
  BY <1>3, ManifestOfType DEF ControlInv, TypeOK, SessionInv, ManifestStates
<1>4. CASE JoinFailed /\ manifest' # manifest
  <2>1. PICK state \in {"Transferring", "Failed"} :
          run = "streams" /\ sess.ready /\ manifest' = ManifestOf(sess, state)
    BY <1>4 DEF JoinFailed, AllReturned
  <2>2. temp[sess.id] # NoFile /\ manifest.records \subseteq sess.records
    BY <2>1 DEF ControlInv, SessionInv
  <2> QED
    BY <1>1, <1>3, <2>1, <2>2 DEF SavesProgress, KeepsProgress
<1>5. CASE SkipVerify /\ manifest' # manifest
  <2>1. run = "verify" /\ manifest' = ManifestOf(sess, "Transferring")
    BY <1>5 DEF SkipVerify, Save, SaveFails
  <2>2. sess.ready /\ temp[sess.id] # NoFile /\ manifest.records \subseteq sess.records
    BY <2>1 DEF ControlInv, SessionInv
  <2> QED
    BY <1>1, <1>3, <2>1, <2>2 DEF SavesProgress, KeepsProgress
<1>6. CASE FullVerify
  <2>1. run = "verify"
    BY <1>6, FullVerifyFacts
  <2>2. sess.ready /\ temp[sess.id] # NoFile /\ manifest.records \subseteq sess.records
    BY <2>1 DEF ControlInv, SessionInv
  <2>3. sess \in Sessions /\ manifest.id = sess.id
    BY <2>1, CommitFacts
  <2> QED
    BY <1>1, <1>6, <2>2, <2>3, FullVerifyFacts, VerifyDisk
<1>7. CASE MarkFailed /\ manifest' # manifest
  <2>1. run = "failing" /\ manifest' = ManifestOf(sess, "Failed")
    BY <1>7 DEF MarkFailed
  <2>2. sess.ready
    BY <2>1 DEF ControlInv, SessionInv
  <2>3. \A r \in manifest.records \ sess.records : Corrupt(r)
    BY <2>1 DEF ControlInv, SessionInv
  <2>4. KeepsProgress
    BY <1>3, <2>1, <2>2, <2>3 DEF KeepsProgress
  <2>5. temp[sess.id] = NoFile => Matches(output, sess.records)
    BY <2>1 DEF DataInv, VerifiedInv
  <2>6. manifest'.state = "Failed" /\ manifest'.id = sess.id /\ manifest'.records = sess.records
    BY <1>3, <2>1, <2>2
  <2>7. temp'[manifest'.id] # NoFile \/ NothingLost'
    BY <1>1, <2>5, <2>6 DEF Matches, NothingLost
  <2> QED
    BY <1>1, <2>4, <2>6, <2>7 DEF SavesProgress
<1> QED
  BY <1>2, <1>4, <1>5, <1>6, <1>7

(* The steps that touch no file but the temp files. *)
LEMMA OtherDisk ==
  ASSUME ControlInv,
         \/ \E o \in Options : StartClient(o)
         \/ \E s \in Streams : Connect(s) \/ WriteFails(s)
         \/ JoinOk \/ SyncOutput \/ Kill \/ UNCHANGED vars
         \/ \E i \in Ids, p \in Positions, v \in Content : TempDecays(i, p, v)
  PROVE  KeepsFiles
<1>1. ASSUME NEW s \in Streams, WriteFails(s) PROVE KeepsFiles
  <2>1. PICK hi : Receiving(s) /\ Write(rx[s].acc, rx[s].flushed, hi) /\ UNCHANGED <<output, manifest>>
    BY <1>1 DEF WriteFails
  <2>2. sess.id \in Ids /\ temp[sess.id] \in Image /\ rx[s].acc \in Image
    BY <2>1, ReceivingFacts
  <2>3. temp'[sess.id] # NoFile /\ \A i \in Ids \ {sess.id} : temp'[i] = temp[i]
    BY <2>1, <2>2, WriteType
  <2> QED
    BY <2>1, <2>3 DEF KeepsFiles, KeepsTemps
<1>2. ASSUME NEW i \in Ids, NEW p \in Positions, NEW v \in Content, TempDecays(i, p, v)
      PROVE  KeepsFiles
  <2>1. temp \in [Ids -> Image \cup {NoFile}] /\ temp[i] # NoFile
    BY <1>2 DEF TempDecays, ControlInv, TypeOK
  <2>2. [temp[i] EXCEPT ![p] = v] \in Image
    BY <2>1 DEF Image
  <2>3. temp'[i] # NoFile /\ \A j \in Ids \ {i} : temp'[j] = temp[j]
    BY <1>2, <2>1, <2>2, DownloadAssumption DEF TempDecays
  <2> QED
    BY <1>2, <2>3 DEF TempDecays, KeepsFiles, KeepsTemps
<1>3. CASE \/ \E o \in Options : StartClient(o)
           \/ \E s \in Streams : Connect(s)
           \/ JoinOk \/ SyncOutput \/ Kill \/ UNCHANGED vars
  BY <1>3 DEF StartClient, Connect, JoinOk, SyncOutput, Kill, vars, disk, KeepsFiles, KeepsTemps
<1> QED
  BY <1>1, <1>2, <1>3

(* The files in any step. *)
LEMMA DiskStep ==
  ASSUME ControlInv, DataInv, [Next]_vars
  PROVE  \/ KeepsFiles \/ ClearsFiles \/ SavesProgress
         \/ CheckOutput \/ RenameToOutput
         \/ MarkCommitted
<1>1. CASE ClientStep
  BY <1>1, PreparingDisk, SaveInitDisk, MainSaveDisk, OtherDisk DEF ClientStep
<1>2. CASE Environment
  BY <1>2, OtherDisk DEF Environment
<1> QED
  BY <1>1, <1>2, ReceiveDisk, OtherDisk DEF Next

-----------------------------------------------------------------------------
(* The theorems *)

(* A committed manifest goes on describing the output file. *)
LEMMA IntegrityStep ==
  ASSUME ControlInv, DataInv, Integrity, [Next]_vars
  PROVE  Integrity'
<1>1. CASE KeepsFiles
  BY <1>1 DEF KeepsFiles, Integrity, Committed, Matches
<1>2. CASE ClearsFiles
  <2>1. opts \in Options
    BY DEF ControlInv, TypeOK
  <2>2. CASE manifest' = NoManifest
    BY <2>2 DEF NoManifest, Integrity, Committed
  <2>3. CASE manifest' = manifest
    BY <1>2, <2>1, <2>3 DEF ClearsFiles, Integrity, Committed, Matches
  <2> QED
    BY <1>2, <2>2, <2>3 DEF ClearsFiles
<1>3. CASE SavesProgress
  BY <1>3 DEF SavesProgress, Integrity, Committed
<1>4. CASE CheckOutput \/ RenameToOutput
  <2>1. run \in {"exists", "rename"} /\ manifest' = manifest
    BY <1>4 DEF CheckOutput, RenameToOutput
  <2>2. manifest.state \in {"Transferring", "Failed"}
    BY <2>1, CommitFacts
  <2> QED
    BY <2>1, <2>2 DEF Integrity, Committed
<1>5. CASE MarkCommitted
  <2>1. run = "markCommitted" /\ output' = output
    BY <1>5 DEF MarkCommitted
  <2>2. Matches(output, sess.records) /\ sess \in Sessions /\ manifest.state # "Committed"
    BY <2>1, CommitFacts DEF DataInv, VerifiedInv
  <2>3. CASE manifest' = manifest
    BY <2>2, <2>3 DEF Integrity, Committed
  <2>4. CASE manifest' = ManifestOf(sess, "Committed")
    <3>1. manifest'.records = sess.records
      BY <2>2, <2>4, ManifestOfType DEF ManifestStates
    <3> QED
      BY <2>1, <2>2, <3>1 DEF Integrity, Matches
  <2> QED
    BY <1>5, <2>3, <2>4 DEF MarkCommitted
<1> QED
  BY <1>1, <1>2, <1>3, <1>4, <1>5, DiskStep

(* The inductive invariant of the safety properties: at the start ... *)
LEMMA InductiveInit == Init => InductiveInv
<1> SUFFICES ASSUME Init PROVE InductiveInv
  OBVIOUS
<1>1. ControlInv
  BY ControlInit
<1>2. run = "down" /\ manifest.state = "Absent"
  BY DEF Init, NoManifest
<1> QED
  BY <1>1, <1>2 DEF InductiveInv, ControlInv, VerifiedChunksIntact, FlushedBlocksInv, VerifiedInv,
     LagInv, Integrity, Committed

(* ... and after every step. *)
LEMMA InductiveStep == InductiveInv /\ [Next]_vars => InductiveInv'
<1> SUFFICES ASSUME InductiveInv, [Next]_vars PROVE InductiveInv'
  OBVIOUS
<1>1. ControlInv /\ DataInv
  BY DEF InductiveInv, ControlInv, DataInv
<1>2. ControlInv' /\ DataInv'
  BY <1>1, ControlStep, DataStep
<1>3. LagInv' /\ Integrity'
  BY <1>1, LagStep, IntegrityStep DEF InductiveInv
<1> QED
  BY <1>2, <1>3 DEF InductiveInv, ControlInv, DataInv

(* The inductive invariant of a download: whatever frames arrive on whatever *)
(* stream, whichever call fails and whenever the client is killed.           *)
THEOREM Inductive == Spec => []InductiveInv
BY InductiveInit, InductiveStep, PTL DEF Spec

(* A manifest that says Committed describes the output file, unless a client *)
(* with --overwrite removed that and stopped.                                *)
THEOREM CommittedIsIntact == Spec => []Integrity
<1>1. InductiveInv => Integrity
  BY DEF InductiveInv
<1> QED
  BY <1>1, Inductive, PTL

(* Threads that write the temp file without the mutex never damage what      *)
(* another has verified and recorded, but for blocks they write again.       *)
THEOREM RecordedIsIntact == Spec => []VerifiedChunksIntact
<1>1. InductiveInv => VerifiedChunksIntact
  BY DEF InductiveInv
<1> QED
  BY <1>1, Inductive, PTL

(* The final verification is skipped only when it would find nothing. *)
THEOREM SkipSound == Spec => []SkipIsSound
<1>1. InductiveInv => SkipIsSound
  BY ReceiverAssumption DEF InductiveInv, VerifiedInv, SkipIsSound, MaySkipFinalVerify
<1> QED
  BY <1>1, Inductive, PTL

(* The manifest claims nothing unverified and lags by less than one flush    *)
(* interval and a chunk for every failed save.                               *)
THEOREM LossBounded == Spec => []BoundedLoss
<1>1. InductiveInv => BoundedLoss
  <2> SUFFICES ASSUME InductiveInv, run = "streams", sess.ready
               PROVE  /\ manifest.records \subseteq sess.records
                      /\ FlushPolicy = "every_n_chunks" => Cardinality(Lag) < FlushInterval + faults
    BY DEF BoundedLoss, Lag
  <2>1. manifest.records \subseteq sess.records
    BY DEF InductiveInv, SessionInv
  <2>2. sess.dirty \in Nat /\ faults \in Nat /\ FlushInterval \in Nat
    BY DownloadAssumption DEF InductiveInv, TypeOK, Sessions
  <2>3. ASSUME FlushPolicy = "every_n_chunks" PROVE Cardinality(Lag) < FlushInterval + faults
    <3>1. IsFiniteSet(Lag) /\ Cardinality(Lag) <= sess.dirty /\ sess.dirty < FlushInterval + faults
      BY <2>3 DEF InductiveInv, LagInv
    <3>2. Cardinality(Lag) \in Nat
      BY <3>1, FS_CardinalityType
    <3> QED
      BY <2>2, <3>1, <3>2
  <2> QED
    BY <2>1, <2>3
<1> QED
  BY <1>1, Inductive, PTL

(* Without --overwrite an output path stays with its download and keeps what *)
(* it recorded, as long as the temp file has it.                             *)
THEOREM OneTransfer == Spec => OneTransferPerOutput
<1>1. InductiveInv /\ [Next]_vars
      => [manifest.state # "Absent" /\ ~opts.overwrite
            => /\ manifest'.state # "Absent" /\ manifest'.id = manifest.id
               /\ \A r \in manifest.records \ manifest'.records : Corrupt(r) \/ faults' # faults]_vars
  <2> SUFFICES ASSUME InductiveInv, [Next]_vars, manifest.state # "Absent", ~opts.overwrite
               PROVE  manifest'.state # "Absent" /\ KeepsProgress
    BY DEF KeepsProgress
  <2>1. ControlInv /\ DataInv
    BY DEF InductiveInv, ControlInv, DataInv
  <2>2. CASE manifest' = manifest
    BY <2>2 DEF KeepsProgress
  <2>3. CASE KeepsFiles \/ ClearsFiles \/ CheckOutput \/ RenameToOutput
    BY <2>2, <2>3 DEF KeepsFiles, ClearsFiles, CheckOutput, RenameToOutput
  <2>4. CASE SavesProgress
    BY <2>4 DEF SavesProgress
  <2>5. CASE MarkCommitted /\ manifest' # manifest
    <3>1. run = "markCommitted" /\ manifest' = ManifestOf(sess, "Committed")
      BY <2>5 DEF MarkCommitted
    <3>2. sess \in Sessions /\ manifest.id = sess.id /\ manifest.records \subseteq sess.records
      BY <2>1, <3>1, CommitFacts DEF ControlInv, SessionInv
    <3>3. /\ manifest'.state = "Committed" /\ manifest'.id = sess.id
          /\ manifest'.records = sess.records
      BY <3>1, <3>2, ManifestOfType DEF ManifestStates
    <3> QED
      BY <3>2, <3>3 DEF KeepsProgress
  <2> QED
    BY <2>1, <2>2, <2>3, <2>4, <2>5, DiskStep
<1> QED
  BY <1>1, Inductive, PTL DEF Spec, OneTransferPerOutput

(* A download left without temp file by a client that was not to overwrite   *)
(* has lost nothing that was verified.                                       *)
THEOREM StuckIsHarmless == Spec => StuckLosesNothing
<1>1. InductiveInv /\ [Next]_vars
      => [Stuck' /\ ~opts.overwrite /\ ~(Stuck /\ manifest' = manifest) => NothingLost']_vars
  <2> SUFFICES ASSUME InductiveInv, [Next]_vars,
                      Stuck', ~opts.overwrite, ~(Stuck /\ manifest' = manifest)
               PROVE  NothingLost'
    OBVIOUS
  <2>1. ControlInv /\ DataInv /\ manifest.id \in Ids
    BY DEF InductiveInv, ControlInv, DataInv, TypeOK, Manifests
  <2>2. CASE manifest' = manifest /\ KeepsTemps
    BY <2>1, <2>2 DEF Stuck, KeepsTemps
  <2>3. CASE ClearsFiles
    BY <2>3 DEF ClearsFiles, Stuck, NoManifest
  <2>4. CASE SavesProgress
    BY <2>4 DEF SavesProgress, Stuck
  <2>5. CASE CheckOutput
    BY <2>2, <2>5 DEF CheckOutput, KeepsTemps
  <2>6. CASE RenameToOutput
    <3>1. run = "rename" /\ manifest' = manifest
      BY <2>6 DEF RenameToOutput
    <3>2. Matches(temp[sess.id], sess.records) /\ manifest.records \subseteq sess.records
      BY <2>1, <3>1 DEF DataInv, VerifiedInv, ControlInv, SessionInv
    <3>3. CASE output' = temp[sess.id]
      BY <3>1, <3>2, <3>3 DEF Matches, NothingLost
    <3>4. CASE temp' = temp
      BY <2>2, <3>1, <3>4 DEF KeepsTemps
    <3> QED
      BY <2>6, <3>3, <3>4 DEF RenameToOutput
  <2>7. CASE MarkCommitted
    <3>1. CASE manifest' = manifest
      BY <2>2, <2>7, <3>1 DEF MarkCommitted, KeepsTemps
    <3>2. CASE manifest' = ManifestOf(sess, "Committed")
      BY <3>2 DEF Stuck, ManifestOf
    <3> QED
      BY <2>7, <3>1, <3>2 DEF MarkCommitted
  <2> QED
    BY <2>1, <2>2, <2>3, <2>4, <2>5, <2>6, <2>7, DiskStep DEF KeepsFiles
<1> QED
  BY <1>1, Inductive, PTL DEF Spec, StuckLosesNothing
=============================================================================
