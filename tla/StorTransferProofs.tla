------------------------- MODULE StorTransferProofs -------------------------
(***************************************************************************)
(* An upload implements AtomicUpload, for every value of the constants.    *)
(* What StorReceiverProofs shows of the receiver with any sender holds     *)
(* here, with the repository's client; ClientInv says what that client     *)
(* sends, and SourceInv follows: every checksum the receiver records is    *)
(* one of the source file.                                                 *)
(***************************************************************************)
EXTENDS StorTransfer, StorReceiverProofs, FiniteSetTheorems

ThreadStates == {"off", "connect", "init", "waitResponse", "send", "waitFinal", "ok", "failed"}

(* The frames the client sends: blocks of the right places, with whatever   *)
(* content, but checksums of the source.                                    *)
Frames ==
  [type : {"init", "fin"}]
  \cup [type : {"data"}, chunk : Chunks, pos : Positions, value : Content]
  \cup {f \in [type : {"complete"}, chunk : Chunks, sum : AnySum] :
          f.sum = ChunkSum(Source, f.chunk)}

ClientInv ==
  /\ job \in [resume : BOOLEAN, id : Ids]
  /\ thread \in [Streams -> [state : ThreadStates, todo : SUBSET Chunks,
                             at : Nat, corrupt : BOOLEAN]]
  /\ net \in [Streams -> Seq(Frames)]

FromSource(records) == \A c \in Chunks : records[c] \in {NoRecord, ChunkSum(Source, c)}

SourceInv == FromSource(sess.records) /\ FromSource(manifest.records)

-----------------------------------------------------------------------------
(* Operators *)

(* A chunk number is the quotient of a block number. *)
LEMMA ChunksBounded == Chunks \subseteq 0 .. TotalBlocks
BY SessionAssumption DEF Chunks, Positions

(* First picks one of the chunks still to send: the set has a least element, *)
(* because the intervals below its elements are ordered by inclusion.        *)
LEMMA MinIsMember ==
  ASSUME NEW S \in SUBSET Chunks, S # {}
  PROVE  Min(S) \in S
<1> DEFINE all == 0 .. TotalBlocks
           below(n) == 0 .. n - 1
<1>1. TotalBlocks \in Nat /\ S \subseteq all
  BY ChunksBounded, SessionAssumption
<1>2. IsFiniteSet(all)
  BY <1>1, FS_Interval
<1>3. IsWellFoundedOn(StrictSubsetOrdering(all), SUBSET all)
  BY <1>2, FS_FiniteSubsetsOfFinite, FS_StrictSubsetOrderingWellFounded
<1>4. \A n \in S : n \in Nat /\ below(n) \in SUBSET all
  BY <1>1
<1> HIDE DEF all
<1>5. PICK x \in {below(n) : n \in S} :
        \A y \in {below(n) : n \in S} : ~(<<y, x>> \in StrictSubsetOrdering(all))
  <2>1. {below(n) : n \in S} \subseteq SUBSET all /\ {below(n) : n \in S} # {}
    BY <1>4
  <2> QED
    BY <1>3, <2>1, WFMin
<1>6. PICK least \in S : x = below(least)
  BY <1>5
<1>7. \A n \in S : ~(below(n) \subseteq below(least) /\ below(n) # below(least))
  BY <1>4, <1>5, <1>6, ZenonT(60) DEF StrictSubsetOrdering
<1>8. \A n \in S : least <= n
  <2> SUFFICES ASSUME NEW n \in S, n < least PROVE FALSE
    BY <1>4
  <2>1. below(n) \subseteq below(least) /\ n \in below(least) /\ n \notin below(n)
    BY <1>4
  <2> QED
    BY <1>7, <2>1
<1> QED
  BY <1>6, <1>8 DEF Min

(* The checksum of a chunk of the source. *)
LEMMA SourceSum == \A c \in Chunks : ChunkSum(Source, c) \in Sums(c) /\ ChunkSum(Source, c) \in AnySum
<1>1. \A c \in Chunks : ChunkSum(Source, c) \in Sums(c)
  BY TransferAssumption, ChunkSumType
<1> QED
  BY <1>1 DEF AnySum

(* What a frame of each type carries. *)
LEMMA FrameTypes ==
  ASSUME NEW f \in Frames
  PROVE  /\ f.type \in {"init", "fin", "data", "complete"}
         /\ f.type = "data" => f.chunk \in Chunks /\ f.pos \in Positions /\ f.value \in Content
         /\ f.type = "complete" => f.chunk \in Chunks /\ f.sum = ChunkSum(Source, f.chunk)
<1>1. CASE f \in [type : {"init", "fin"}]
  BY <1>1
<1>2. CASE f \in [type : {"data"}, chunk : Chunks, pos : Positions, value : Content]
  BY <1>2
<1>3. CASE f \in {g \in [type : {"complete"}, chunk : Chunks, sum : AnySum] :
                    g.sum = ChunkSum(Source, g.chunk)}
  BY <1>3
<1> QED
  BY <1>1, <1>2, <1>3 DEF Frames

-----------------------------------------------------------------------------
(* The client *)

(* A frame put into a socket. *)
LEMMA SendType ==
  ASSUME ClientInv, NEW s \in Streams, NEW f \in Frames, Send(s, f)
  PROVE  net' \in [Streams -> Seq(Frames)]
<1>1. net[s] \in Seq(Frames)
  BY DEF ClientInv
<1>2. Append(net[s], f) \in Seq(Frames)
  BY <1>1
<1> QED
  BY <1>2 DEF Send, ClientInv

(* A thread that goes on to another state. *)
LEMMA ThreadBecomes ==
  ASSUME ClientInv, NEW s \in Streams, NEW state \in ThreadStates, Become(s, state)
  PROVE  /\ thread' \in [Streams -> [state : ThreadStates, todo : SUBSET Chunks,
                                     at : Nat, corrupt : BOOLEAN]]
         /\ thread'[s].state = state
BY DEF Become, ClientInv

(* The first state. *)
LEMMA ClientInit == TransferInit => ClientInv /\ SourceInv
<1> SUFFICES ASSUME TransferInit PROVE ClientInv /\ SourceInv
  OBVIOUS
<1>1. ClientInv
  BY AnyIdType DEF TransferInit, ClientInv, Thread, ThreadStates
<1>2. SourceInv
  BY DEF TransferInit, Init, SourceInv, FromSource, NoSession, CreateNew, NoManifest, NoRecords
<1> QED
  BY <1>1, <1>2

(* Every step leaves the client with a job, threads and frames of the right  *)
(* shape.                                                                    *)
LEMMA ClientStep ==
  ASSUME ControlInv, ClientInv, [TransferNext]_allVars
  PROVE  ClientInv'
<1> USE DEF ThreadStates
<1>1. ASSUME NEW o \in Options, Launch(o) PROVE ClientInv'
  <2>1. job' \in [resume : BOOLEAN, id : Ids]
    BY <1>1, ReceiverAssumption DEF Launch
  <2>2. thread' \in [Streams -> [state : ThreadStates, todo : SUBSET Chunks,
                                 at : Nat, corrupt : BOOLEAN]]
    BY <1>1 DEF Launch, Thread
  <2>3. net' \in [Streams -> Seq(Frames)]
    BY <1>1 DEF Launch
  <2> QED
    BY <2>1, <2>2, <2>3 DEF ClientInv
<1>2. ASSUME NEW s \in Streams, ThreadStep(s) \/ ThreadFault(s) PROVE ClientInv'
  <2>1. CASE Connect(s) \/ RecvFinal(s) \/ ThreadFails(s) \/ ThreadGivesUp(s)
    <3>1. UNCHANGED <<job, net>> /\ \E state \in ThreadStates : Become(s, state)
      BY <2>1 DEF Connect, RecvFinal, ThreadFails, ThreadGivesUp
    <3> QED
      BY <3>1, ThreadBecomes DEF ClientInv
  <2>2. CASE SendInit(s) \/ SendFin(s)
    <3>1. job' = job /\ \E state \in ThreadStates : Become(s, state)
      BY <2>2 DEF SendInit, SendFin
    <3>2. [type |-> "init"] \in Frames /\ [type |-> "fin"] \in Frames
      BY DEF Frames
    <3>3. net' \in [Streams -> Seq(Frames)]
      BY <2>2, <3>2, SendType DEF SendInit, SendFin
    <3> QED
      BY <3>1, <3>3, ThreadBecomes DEF ClientInv
  <2>3. CASE RecvResponse(s)
    <3>1. Assigned(s) \cap resp[s].missing \in SUBSET Chunks
      BY DEF Assigned
    <3> QED
      BY <2>3, <3>1 DEF RecvResponse, Thread, ClientInv, vars
  <2>4. CASE SendData(s)
    <3> DEFINE p     == Min(ChunkRange(First(s))) + thread[s].at
               frame == [type |-> "data", chunk |-> First(s), pos |-> p, value |-> Payload(s, p)]
    <3>1. p \in ChunkRange(First(s)) /\ Send(s, frame)
      BY <2>4 DEF SendData
    <3>2. p \in Positions /\ First(s) \in Chunks
      BY <3>1 DEF ChunkRange, Chunks
    <3> HIDE DEF p
    <3>3. Payload(s, p) \in Content
      BY <3>2, SessionAssumption, TransferAssumption DEF Payload, Image
    <3>4. frame \in Frames
      BY <3>2, <3>3 DEF Frames
    <3> HIDE DEF frame
    <3>5. net' \in [Streams -> Seq(Frames)]
      BY <3>1, <3>4, SendType
    <3> DEFINE at == thread[s].at + 1
    <3>6. job' = job /\ thread' = [thread EXCEPT ![s].at = at]
      BY <2>4 DEF SendData
    <3>7. at \in Nat
      BY DEF ClientInv
    <3> HIDE DEF at
    <3>8. thread' \in [Streams -> [state : ThreadStates, todo : SUBSET Chunks,
                                   at : Nat, corrupt : BOOLEAN]]
      BY <3>6, <3>7 DEF ClientInv
    <3> QED
      BY <3>5, <3>6, <3>8 DEF ClientInv
  <2>5. ASSUME NEW again \in BOOLEAN, SendChunkComplete(s, again) PROVE ClientInv'
    <3> DEFINE frame == [type |-> "complete", chunk |-> First(s), sum |-> ChunkSum(Source, First(s))]
    <3>1. First(s) \in Chunks
      BY <2>5, MinIsMember DEF SendChunkComplete, First, ClientInv
    <3>2. frame \in Frames
      BY <3>1, SourceSum DEF Frames
    <3>3. net' \in [Streams -> Seq(Frames)]
      BY <2>5, <3>2, SendType DEF SendChunkComplete
    <3>4. /\ job' = job
          /\ thread' = [thread EXCEPT ![s].at = 0,
                                      ![s].todo = IF again THEN @ ELSE @ \ {First(s)},
                                      ![s].corrupt = again]
      BY <2>5 DEF SendChunkComplete
    <3>5. thread' \in [Streams -> [state : ThreadStates, todo : SUBSET Chunks,
                                   at : Nat, corrupt : BOOLEAN]]
      <4> DEFINE t  == thread[s]
                 t1 == [t EXCEPT !.at = 0,
                                 !.todo = IF again THEN t.todo ELSE t.todo \ {First(s)},
                                 !.corrupt = again]
      <4>1. t \in [state : ThreadStates, todo : SUBSET Chunks, at : Nat, corrupt : BOOLEAN]
        BY DEF ClientInv
      <4>2. t1 \in [state : ThreadStates, todo : SUBSET Chunks, at : Nat, corrupt : BOOLEAN]
        BY <4>1
      <4>3. thread' = [thread EXCEPT ![s] = t1]
        BY <3>4 DEF ClientInv
      <4> HIDE DEF t1
      <4> QED
        BY <4>2, <4>3 DEF ClientInv
    <3> QED
      BY <3>3, <3>4, <3>5 DEF ClientInv
  <2>6. CASE CorruptChunk(s)
    BY <2>6 DEF CorruptChunk, ClientInv
  <2> QED
    BY <1>2, <2>1, <2>2, <2>3, <2>4, <2>5, <2>6 DEF ThreadStep, ThreadFault
<1>3. ASSUME NEW s \in Streams, Deliver(s) PROVE ClientInv'
  <2>1. net[s] \in Seq(Frames) /\ net[s] # <<>>
    BY <1>3 DEF Deliver, ClientInv
  <2>2. Tail(net[s]) \in Seq(Frames)
    BY <2>1
  <2> QED
    BY <1>3, <2>2 DEF Deliver, ClientInv
<1>4. CASE UNCHANGED client
  BY <1>4 DEF client, ClientInv
<1> QED
  BY <1>1, <1>2, <1>3, <1>4 DEF TransferNext, DeliverClose, ServerInternal, FinishServer, allVars

-----------------------------------------------------------------------------
(* The receiver *)

(* What the server does with a frame of the client, it may do with a frame   *)
(* of any sender.                                                            *)
LEMMA HandleReceives ==
  ASSUME ClientInv, NEW s \in Streams, NEW f \in Frames, Handle(s, f)
  PROVE  Receive(s)
<1>1. [resume |-> job.resume, id |-> job.id, agrees |-> TRUE] \in Inits
  BY DEF ClientInv, Inits
<1>2. CASE f.type = "init"
  BY <1>1, <1>2 DEF Handle, Receive
<1>3. CASE f.type = "data"
  BY <1>3, FrameTypes DEF Handle, Receive
<1>4. CASE f.type = "complete"
  BY <1>4, FrameTypes, SourceSum DEF Handle, Receive
<1>5. CASE f.type = "fin"
  BY <1>5 DEF Handle, Receive
<1> QED
  BY <1>2, <1>3, <1>4, <1>5, FrameTypes

(* A fault of the client, which only counts. *)
ClientFault == Fault /\ UNCHANGED <<process, replies, disk>>

(* A step of the upload is a step of the receiver, or a fault of the client. *)
LEMMA ReceiverStep ==
  ASSUME ClientInv, [TransferNext]_allVars
  PROVE  [Next]_vars \/ ClientFault
<1>1. ASSUME NEW o \in Options, Launch(o) PROVE Next
  BY <1>1 DEF Launch, Next, Start
<1>2. ASSUME NEW s \in Streams, ThreadStep(s) PROVE [Next]_vars
  <2>1. CASE Connect(s)
    BY <2>1 DEF Connect, Next
  <2>2. CASE SendChunkComplete(s, FALSE)
    BY <2>2 DEF SendChunkComplete, vars, process, replies, disk
  <2>3. CASE SendInit(s) \/ RecvResponse(s) \/ SendData(s) \/ SendFin(s) \/ RecvFinal(s) \/ ThreadFails(s)
    BY <2>3 DEF SendInit, RecvResponse, SendData, SendFin, RecvFinal, ThreadFails
  <2> QED
    BY <1>2, <2>1, <2>2, <2>3 DEF ThreadStep
<1>3. ASSUME NEW s \in Streams, ThreadFault(s) PROVE ClientFault
  BY <1>3 DEF ThreadFault, SendChunkComplete, CorruptChunk, ThreadGivesUp, ClientFault
<1>4. ASSUME NEW s \in Streams, Deliver(s) PROVE Next
  <2>1. net[s] \in Seq(Frames) /\ net[s] # <<>> /\ Handle(s, Head(net[s]))
    BY <1>4 DEF Deliver, ClientInv
  <2>2. Head(net[s]) \in Frames
    BY <2>1
  <2> QED
    BY <2>1, <2>2, HandleReceives DEF Next
<1>5. ASSUME NEW s \in Streams, DeliverClose(s) PROVE Next
  BY <1>5 DEF DeliverClose, Next, Receive
<1>6. CASE ServerInternal \/ (\E ok \in BOOLEAN : FinishServer(ok)) \/ Environment
  BY <1>6 DEF ServerInternal, FinishServer, Next
<1> QED
  BY <1>1, <1>2, <1>3, <1>4, <1>5, <1>6 DEF TransferNext, allVars

(* No part of the receiver's invariant depends on how many faults there were. *)
LEMMA FaultKeepsInv ==
  ASSUME InductiveInv, ClientFault
  PROVE  InductiveInv'
<1>1. /\ UNCHANGED <<phase, opts, sess, initBy, conn, rx, resp, final, outcome, output, temp, manifest>>
      /\ faults' = faults + 1 /\ faults \in Nat
  BY DEF ClientFault, Fault, process, replies, disk, InductiveInv, TypeOK
<1>2. faults' \in Nat
  BY <1>1
<1>3. TypeOK' /\ ConnInv' /\ PhaseInv'
  BY <1>1, <1>2 DEF InductiveInv, TypeOK, ConnInv, PhaseInv, Committed
<1>4. VerifiedChunksIntact' /\ FlushedBlocksInv'
  <2>1. \A p : InFlight(p)' = InFlight(p)
    BY <1>1 DEF InFlight, Flushed
  <2> QED
    BY <1>1, <2>1 DEF InductiveInv, VerifiedChunksIntact, FlushedBlocksInv, Flushed
<1>5. VerifiedInv' /\ Integrity' /\ AckAfterCommit'
  BY <1>1 DEF InductiveInv, VerifiedInv, Integrity, AckAfterCommit, Committed
<1> QED
  BY <1>3, <1>4, <1>5 DEF InductiveInv

(* The receiver's inductive invariant holds throughout an upload. *)
LEMMA ReceiverInv ==
  ASSUME InductiveInv, ClientInv, [TransferNext]_allVars
  PROVE  InductiveInv'
BY ReceiverStep, InductiveStep, FaultKeepsInv

-----------------------------------------------------------------------------
(* What the receiver records *)

(* All records of a session and a manifest are old ones. *)
KeepsRecords(session, file) ==
  \A c \in Chunks : /\ session.records[c] \in {NoRecord, sess.records[c], manifest.records[c]}
                    /\ file.records[c] \in {NoRecord, sess.records[c], manifest.records[c]}

(* A SessionInit that opens a session takes up the records of the manifest,  *)
(* or none.                                                                  *)
LEMMA OpensKeepsRecords ==
  ASSUME NEW s \in Streams, NEW init \in Inits, InitOpens(s, init)
  PROVE  KeepsRecords(sess', manifest')
BY DEF InitOpens, Resume, CreateNew, NoRecords, KeepsRecords, disk

(* A session that lost records is saved, or not. *)
LEMMA DropKeepsRecords ==
  ASSUME ControlInv, NEW dropped,
         NEW kept, kept = DropRecords(sess, dropped),
         sess' = kept \/ sess' = Saved(kept),
         manifest' = manifest \/ manifest' = ManifestOf(kept, "Transferring")
  PROVE  KeepsRecords(sess', manifest')
<1>1. sess \in Sessions
  BY DEF ControlInv, TypeOK
<1>2. /\ kept \in Sessions
      /\ kept.records = [c \in Chunks |-> IF c \in dropped THEN NoRecord ELSE sess.records[c]]
  BY <1>1, DropRecordsType, DropRecordsFields
<1>3. sess'.records = kept.records
  BY <1>2, SavedFields
<1>4. manifest'.records \in {manifest.records, kept.records}
  BY DEF ManifestOf
<1> QED
  BY <1>2, <1>3, <1>4 DEF KeepsRecords

(* No other step of the server adds a record. *)
LEMMA ServerRecords ==
  ASSUME ControlInv, ServerStep \/ (\E ok \in BOOLEAN : SendComplete(ok)) \/ Environment
                     \/ Start \/ (\E s \in Streams : Accept(s)) \/ UNCHANGED <<sess, manifest>>
  PROVE  KeepsRecords(sess', manifest')
<1>0. sess \in Sessions /\ manifest \in Manifests
  BY DEF ControlInv, TypeOK
<1>1. CASE UNCHANGED <<sess, manifest>>
  BY <1>1 DEF KeepsRecords
<1>2. ASSUME sess' = sess \/ sess' = Saved(sess) \/ sess' = NoSession,
             manifest' = manifest \/ \E state : manifest' = ManifestOf(sess, state)
      PROVE  KeepsRecords(sess', manifest')
  <2>1. NoSession.records = NoRecords
    BY DEF NoSession, CreateNew
  <2>2. sess'.records \in {sess.records, NoRecords}
    BY <1>0, <1>2, <2>1, SavedFields
  <2>3. manifest'.records \in {manifest.records, sess.records}
    BY <1>2 DEF ManifestOf
  <2> QED
    BY <2>2, <2>3 DEF KeepsRecords, NoRecords
<1>3. CASE Precheck \/ FullVerify
  <2> DEFINE corrupt == CorruptRecords(sess, temp[sess.id])
  <2>1. \/ UNCHANGED <<sess, manifest>>
        \/ Save(DropRecords(sess, corrupt), "Transferring")
        \/ SaveFails(DropRecords(sess, corrupt))
        \/ \E c \in Recorded(sess.records) \ corrupt :
             /\ manifest' = ManifestOf(DropRecords(sess, corrupt \cup {c}), "Transferring")
             /\ sess' = Saved(DropRecords(sess, corrupt \cup {c}))
    BY <1>3 DEF Precheck, FullVerify, VerifyTemp
  <2> HIDE DEF corrupt
  <2>2. CASE Save(DropRecords(sess, corrupt), "Transferring") \/ SaveFails(DropRecords(sess, corrupt))
    <3> DEFINE kept == DropRecords(sess, corrupt)
    <3>1. /\ sess' = kept \/ sess' = Saved(kept)
          /\ manifest' = manifest \/ manifest' = ManifestOf(kept, "Transferring")
      BY <2>2 DEF Save, SaveFails
    <3> QED
      BY <3>1, DropKeepsRecords
  <2>3. CASE \E c \in Recorded(sess.records) \ corrupt :
               /\ manifest' = ManifestOf(DropRecords(sess, corrupt \cup {c}), "Transferring")
               /\ sess' = Saved(DropRecords(sess, corrupt \cup {c}))
    <3>1. PICK c \in Recorded(sess.records) \ corrupt :
               /\ manifest' = ManifestOf(DropRecords(sess, corrupt \cup {c}), "Transferring")
               /\ sess' = Saved(DropRecords(sess, corrupt \cup {c}))
      BY <2>3
    <3> DEFINE dropped == corrupt \cup {c}
               kept    == DropRecords(sess, dropped)
    <3>2. sess' = Saved(kept) /\ manifest' = ManifestOf(kept, "Transferring")
      BY <3>1
    <3> QED
      BY <3>2, DropKeepsRecords
  <2> QED
    BY <1>1, <2>1, <2>2, <2>3
<1>4. CASE \/ OpenOutput \/ SaveInit \/ AllFin \/ SkipVerify \/ FlushManifest \/ CheckOutput
           \/ RenameToOutput \/ SyncOutput \/ MarkCommitted \/ MarkFailedBestEffort
           \/ (\E ok \in BOOLEAN : SendComplete(ok)) \/ Environment
           \/ Start \/ (\E s \in Streams : Accept(s))
  <2>1. /\ sess' = sess \/ sess' = Saved(sess) \/ sess' = NoSession
        /\ manifest' = manifest \/ \E state : manifest' = ManifestOf(sess, state)
    BY <1>4 DEF OpenOutput, SaveInit, AllFin, SkipVerify, FlushManifest, FlushManifestThen, CheckOutput,
       RenameToOutput, SyncOutput, MarkCommitted, MarkFailedBestEffort, SendComplete, Environment,
       Kill, LoopFails, WriteFails, TempDecays, Start, StartServer, RejectServer, Accept,
       Save, SaveFails, Exit, process, disk
  <2> QED
    BY <1>2, <2>1
<1> QED
  BY <1>1, <1>3, <1>4 DEF ServerStep

(* What the receiver records of this client is the checksum of a chunk of    *)
(* the source.                                                               *)
LEMMA RecordsSource ==
  ASSUME ControlInv, SourceInv, NEW s \in Streams, NEW c \in Chunks,
         RecordChunk(s, c, ChunkSum(Source, c))
  PROVE  SourceInv'
<1> DEFINE sum   == ChunkSum(Source, c)
           after == RecordVerifiedChunk(sess, c, sum)
<1>1. sess \in Sessions /\ sum \in Sums(c)
  BY SourceSum DEF ControlInv, TypeOK
<1>2. after \in Sessions /\ after.records = [sess.records EXCEPT ![c] = sum]
  BY <1>1, RecordVerifiedType, RecordVerifiedFields
<1>3. /\ sess' = after \/ sess' = Saved(after)
      /\ manifest' = manifest \/ manifest' = ManifestOf(after, "Transferring")
  BY DEF RecordChunk, Save, SaveFails
<1>4. sess.records \in [Chunks -> AnySum \cup {NoRecord}]
  BY <1>1 DEF Sessions, Records
<1> HIDE DEF after
<1>5. sess'.records = after.records /\ manifest'.records \in {manifest.records, after.records}
  BY <1>2, <1>3, SavedFields DEF ManifestOf
<1>6. FromSource(after.records)
  BY <1>2, <1>4 DEF SourceInv, FromSource
<1> QED
  BY <1>5, <1>6 DEF SourceInv, FromSource

(* Records that are kept or dropped stay records of the source. *)
LEMMA KeptFromSource ==
  ASSUME SourceInv, KeepsRecords(sess', manifest')
  PROVE  SourceInv'
BY DEF SourceInv, FromSource, KeepsRecords

(* All the receiver ever records are checksums of the source. *)
LEMMA SourceStep ==
  ASSUME ControlInv, ClientInv, SourceInv, [TransferNext]_allVars
  PROVE  SourceInv'
<1>1. ASSUME NEW o \in Options, Launch(o) PROVE SourceInv'
  BY <1>1, ServerRecords, KeptFromSource DEF Launch, Start
<1>2. ASSUME NEW s \in Streams, ThreadStep(s) \/ ThreadFault(s) PROVE SourceInv'
  <2>1. Accept(s) \/ UNCHANGED <<sess, manifest>>
    BY <1>2 DEF ThreadStep, ThreadFault, Connect, SendInit, RecvResponse, SendData, SendChunkComplete,
       SendFin, RecvFinal, ThreadFails, CorruptChunk, ThreadGivesUp, vars, process, disk
  <2> QED
    BY <2>1, ServerRecords, KeptFromSource
<1>3. ASSUME NEW s \in Streams, Deliver(s) PROVE SourceInv'
  <2>1. net[s] \in Seq(Frames) /\ net[s] # <<>> /\ Handle(s, Head(net[s]))
    BY <1>3 DEF Deliver, ClientInv
  <2>2. PICK f \in Frames : Handle(s, f)
    BY <2>1
  <2>3. CASE f.type = "complete"
    <3>1. f.chunk \in Chunks /\ f.sum = ChunkSum(Source, f.chunk)
      BY <2>3, FrameTypes
    <3>2. RecvChunkComplete(s, f.chunk, f.sum)
      BY <2>2, <2>3 DEF Handle
    <3>3. CASE RecordChunk(s, f.chunk, f.sum)
      BY <3>1, <3>3, RecordsSource
    <3>4. CASE ~RecordChunk(s, f.chunk, f.sum)
      <4>1. UNCHANGED <<sess, manifest>>
        BY <3>2, <3>4 DEF RecvChunkComplete, RefuseChunk, RejectChunk, disk
      <4> QED
        BY <4>1, ServerRecords, KeptFromSource
    <3> QED
      BY <3>3, <3>4
  <2>4. CASE f.type = "init"
    <3> DEFINE init == [resume |-> job.resume, id |-> job.id, agrees |-> TRUE]
    <3>1. init \in Inits /\ RecvInit(s, init)
      BY <2>2, <2>4 DEF Handle, ClientInv, Inits
    <3> HIDE DEF init
    <3>2. CASE InitOpens(s, init)
      BY <3>1, <3>2, OpensKeepsRecords, KeptFromSource
    <3>3. CASE InitRejected(s, init) \/ InitJoins(s, init)
      <4>1. UNCHANGED <<sess, manifest>>
        BY <3>3 DEF InitRejected, InitJoins, disk
      <4> QED
        BY <4>1, ServerRecords, KeptFromSource
    <3> QED
      BY <3>1, <3>2, <3>3 DEF RecvInit
  <2>5. CASE f.type = "data" \/ f.type = "fin"
    <3>1. UNCHANGED <<sess, manifest>>
      BY <2>2, <2>5 DEF Handle, RecvData, AcceptData, RefuseData, RecvFin, disk
    <3> QED
      BY <3>1, ServerRecords, KeptFromSource
  <2> QED
    BY <2>3, <2>4, <2>5, FrameTypes
<1>4. ASSUME NEW s \in Streams, DeliverClose(s) PROVE SourceInv'
  <2>1. UNCHANGED <<sess, manifest>>
    BY <1>4 DEF DeliverClose, ConnectionFails, disk
  <2> QED
    BY <2>1, ServerRecords, KeptFromSource
<1>5. CASE ServerInternal \/ (\E ok \in BOOLEAN : FinishServer(ok)) \/ Environment
  BY <1>5, ServerRecords, KeptFromSource DEF ServerInternal, FinishServer
<1>6. CASE UNCHANGED allVars
  <2>1. UNCHANGED <<sess, manifest>>
    BY <1>6 DEF allVars, vars
  <2> QED
    BY <2>1, ServerRecords, KeptFromSource
<1> QED
  BY <1>1, <1>2, <1>3, <1>4, <1>5, <1>6 DEF TransferNext

(* A file that has the checksums recorded of the source is the source. *)
LEMMA SourceRecords ==
  ASSUME NEW image \in Image, NEW records, Matches(image, records), FromSource(records)
  PROVE  image = Source
<1>1. \A c \in Chunks : ChunkSum(image, c) = ChunkSum(Source, c)
  BY ChunkSumType DEF Matches, FromSource
<1>2. \A p \in Positions : p \div ChunkBlocks \in Chunks /\ p \in ChunkRange(p \div ChunkBlocks)
  BY DEF Chunks, ChunkRange
<1>3. \A p \in Positions : image[p] = Source[p]
  BY <1>1, <1>2 DEF ChunkSum
<1> QED
  BY <1>3, TransferAssumption DEF Image

-----------------------------------------------------------------------------
(* Refinement *)

(* The invariant the refinement rests on: what the receiver keeps, what this *)
(* client sends, and whose checksums are recorded.                           *)
TransferInv == InductiveInv /\ ClientInv /\ SourceInv

(* It holds at first ... *)
LEMMA TransferInvInit == TransferInit => TransferInv
BY InductiveInit, ClientInit DEF TransferInit, TransferInv

(* ... and after every step. *)
LEMMA TransferInvStep == TransferInv /\ [TransferNext]_allVars => TransferInv'
<1> SUFFICES ASSUME TransferInv, [TransferNext]_allVars PROVE TransferInv'
  OBVIOUS
<1>1. ControlInv
  BY DEF TransferInv, InductiveInv, ControlInv
<1> QED
  BY <1>1, ReceiverInv, ClientStep, SourceStep DEF TransferInv

(* Throughout an upload the receiver keeps its inductive invariant. *)
THEOREM ReceiverStaysCorrect == TransferSpec => []InductiveInv
<1>1. TransferSpec => []TransferInv
  BY TransferInvInit, TransferInvStep, PTL DEF TransferSpec
<1>2. TransferInv => InductiveInv
  BY DEF TransferInv
<1> QED
  BY <1>1, <1>2, PTL

(* A thread reports success only of a transfer the manifest calls Committed, *)
(* and never takes it back.                                                  *)
LEMMA AckOnce ==
  ASSUME TransferInv, [TransferNext]_allVars, Streams # {}
  PROVE  /\ ClientOk => ClientOk'
         /\ ClientOk' /\ ~ClientOk => Committed /\ UNCHANGED <<output, manifest>>
<1>1. ASSUME NEW o \in Options, Launch(o) PROVE ~ClientOk /\ ~ClientOk'
  BY <1>1, Zenon DEF Launch, ClientOk, Thread
<1>2. ASSUME NEW s \in Streams, RecvFinal(s)
      PROVE  Committed /\ UNCHANGED <<output, manifest>> /\ ~ClientOk
  BY <1>2 DEF RecvFinal, TransferInv, InductiveInv, AckAfterCommit, ClientOk, vars
<1>3. ASSUME NEW s \in Streams, ThreadStep(s) \/ ThreadFault(s), ~RecvFinal(s)
      PROVE  ~ClientOk /\ ~ClientOk'
  <2>0. s \in DOMAIN thread
    BY DEF TransferInv, ClientInv
  <2>1. thread[s].state # "ok"
    BY <1>3 DEF ThreadStep, ThreadFault, Connect, SendInit, RecvResponse, SendData, SendChunkComplete,
       SendFin, ThreadFails, CorruptChunk, ThreadGivesUp, Ended
  <2>2. thread'[s].state # "ok"
    <3>1. CASE Connect(s) \/ SendInit(s) \/ SendFin(s) \/ ThreadFails(s) \/ ThreadGivesUp(s)
      <4>1. \E state \in ThreadStates \ {"ok"} : Become(s, state)
        BY <3>1 DEF Connect, SendInit, SendFin, ThreadFails, ThreadGivesUp, ThreadStates
      <4> QED
        BY <4>1, ThreadBecomes DEF TransferInv
    <3>2. CASE RecvResponse(s)
      BY <3>2, <2>0 DEF RecvResponse, Thread
    <3>3. CASE SendData(s)
      <4> DEFINE at == thread[s].at + 1
      <4>1. thread' = [thread EXCEPT ![s].at = at]
        BY <3>3 DEF SendData
      <4> HIDE DEF at
      <4> QED
        BY <4>1, <2>0, <2>1 DEF TransferInv, ClientInv
    <3>4. ASSUME NEW again \in BOOLEAN, SendChunkComplete(s, again) PROVE thread'[s].state # "ok"
      <4>1. thread' = [thread EXCEPT ![s].at = 0,
                                     ![s].todo = IF again THEN @ ELSE @ \ {First(s)},
                                     ![s].corrupt = again]
        BY <3>4 DEF SendChunkComplete
      <4> QED
        BY <4>1, <2>0, <2>1 DEF TransferInv, ClientInv
    <3>5. CASE CorruptChunk(s)
      BY <3>5, <2>0, <2>1 DEF CorruptChunk, TransferInv, ClientInv
    <3> QED
      BY <1>3, <3>1, <3>2, <3>3, <3>4, <3>5 DEF ThreadStep, ThreadFault
  <2> QED
    BY <2>1, <2>2 DEF ClientOk
<1>4. thread' = thread => (ClientOk' <=> ClientOk)
  BY DEF ClientOk
<1> QED
  BY <1>1, <1>2, <1>3, <1>4 DEF TransferNext, Deliver, DeliverClose, ServerInternal, FinishServer,
     allVars, client, ThreadStep

(* A state of an upload is a state of AtomicUpload. *)
LEMMA UploadInit == TransferInit => Upload!Init
<1> SUFFICES ASSUME TransferInit PROVE Upload!Init
  OBVIOUS
<1>1. output \in InitialOutputs /\ ~Committed
  BY DEF TransferInit, Init, Committed, NoManifest
<1>2. ~ClientOk
  BY DEF TransferInit, Init, ClientOk, Thread
<1> QED
  BY <1>1, <1>2 DEF Upload!Init, Committed, ClientOk

(* Only the whole source file is published, and only before the commit. *)
LEMMA OutputStep ==
  ASSUME TransferInv, [TransferNext]_allVars, output' # output
  PROVE  ~Committed /\ output' = Source /\ manifest' = manifest
<1>1. ControlInv
  BY DEF TransferInv, InductiveInv, ControlInv
<1>2. [Next]_vars
  BY ReceiverStep DEF TransferInv, ClientFault, disk
<1>3. phase = "rename" /\ output' = temp[sess.id] /\ manifest' = manifest
  BY <1>1, <1>2, DiskStep
<1>4. ~Committed /\ Matches(temp[sess.id], sess.records)
  BY <1>3 DEF TransferInv, InductiveInv, PhaseInv, VerifiedInv, Committing
<1>5. temp[sess.id] \in Image
  BY <1>4 DEF TransferInv, InductiveInv, TypeOK, Sessions, Matches
<1> QED
  BY <1>3, <1>4, <1>5, SourceRecords DEF TransferInv, SourceInv

(* The manifest is marked Committed once, when the output is the source. *)
LEMMA CommittedStep ==
  ASSUME TransferInv, [TransferNext]_allVars
  PROVE  /\ Committed => Committed'
         /\ Committed' /\ ~Committed => output = Source /\ output' = output
<1>1. ControlInv
  BY DEF TransferInv, InductiveInv, ControlInv
<1>2. CASE manifest' = manifest
  BY <1>2 DEF Committed
<1>3. CASE manifest' # manifest
  <2>1. [Next]_vars
    BY <1>3, ReceiverStep DEF TransferInv, ClientFault, disk
  <2>2. ~Committed
    BY <1>1, <1>3, <2>1, DiskStep DEF TransferInv, InductiveInv, PhaseInv, Committing
  <2>3. Committed' => phase = "markCommitted" /\ output' = output
    BY <1>1, <1>3, <2>1, DiskStep DEF Committed
  <2>4. phase = "markCommitted" => Matches(output, sess.records) /\ output \in Image
    BY DEF TransferInv, InductiveInv, TypeOK, VerifiedInv, Matches
  <2> QED
    BY <2>2, <2>3, <2>4, SourceRecords DEF TransferInv, SourceInv
<1> QED
  BY <1>2, <1>3

(* Every step of an upload is a step of AtomicUpload or invisible to it. *)
LEMMA UploadStep ==
  ASSUME TransferInv, [TransferNext]_allVars
  PROVE  [Upload!Next]_(Upload!vars)
<1>1. Streams # {} /\ Committed \in BOOLEAN /\ ClientOk \in BOOLEAN
  BY DEF TransferInv, InductiveInv, TypeOK, Committed, ClientOk
<1>2. /\ ClientOk => ClientOk'
      /\ ClientOk' /\ ~ClientOk => Committed /\ UNCHANGED <<output, manifest>>
  BY <1>1, AckOnce
<1>3. ClientOk' \in BOOLEAN /\ Committed' \in BOOLEAN
  BY DEF ClientOk, Committed
<1>4. CASE output' # output
  <2>1. ~Committed /\ output' = Source /\ manifest' = manifest
    BY <1>4, OutputStep
  <2>2. Committed' = Committed /\ ClientOk' = ClientOk
    BY <1>1, <1>2, <1>3, <1>4, <2>1 DEF Committed
  <2> QED
    BY <2>1, <2>2 DEF Upload!Next, Upload!Publish
<1>5. CASE output' = output /\ ClientOk' /\ ~ClientOk
  <2>1. Committed /\ Committed' = Committed
    BY <1>2, <1>5 DEF Committed
  <2> QED
    BY <1>3, <1>5, <2>1 DEF Upload!Next, Upload!Acknowledge
<1>6. CASE output' = output /\ ~(ClientOk' /\ ~ClientOk) /\ Committed' /\ ~Committed
  <2>1. output = Source /\ ClientOk' = ClientOk
    BY <1>1, <1>2, <1>3, <1>6, CommittedStep
  <2> QED
    BY <1>3, <1>6, <2>1 DEF Upload!Next, Upload!Commit
<1>7. CASE output' = output /\ ~(ClientOk' /\ ~ClientOk) /\ ~(Committed' /\ ~Committed)
  <2>1. ClientOk' = ClientOk /\ Committed' = Committed
    BY <1>1, <1>2, <1>3, <1>7, CommittedStep
  <2> QED
    BY <1>7, <2>1 DEF Upload!vars
<1> QED
  BY <1>4, <1>5, <1>6, <1>7

(* An upload implements AtomicUpload: at the output path only the whole      *)
(* source file ever replaces what was there (commitTempFile), the manifest   *)
(* is marked Committed only then, and runFileTransferClient returns success  *)
(* only for a committed transfer.                                            *)
THEOREM UploadIsAtomic == TransferSpec => ImplementsAtomicUpload
<1>1. TransferSpec => []TransferInv
  BY TransferInvInit, TransferInvStep, PTL DEF TransferSpec
<1>2. TransferInv /\ [TransferNext]_allVars => [Upload!Next]_(Upload!vars)
  BY UploadStep
<1> QED
  BY <1>1, <1>2, UploadInit, PTL DEF TransferSpec, ImplementsAtomicUpload, Upload!Spec

(* A client that returned success (runFileTransferClient) leaves the whole   *)
(* source file at the output path, for good.                                 *)
THEOREM SuccessMeansDelivered == TransferSpec => [](ClientOk => output = Source)
<1> DEFINE Delivered == ClientOk => output = Source
<1>1. TransferInit => Delivered
  BY DEF TransferInit, Init, ClientOk, Thread
<1>2. TransferInv /\ Delivered /\ [TransferNext]_allVars => Delivered'
  <2> SUFFICES ASSUME TransferInv, Delivered, [TransferNext]_allVars, ClientOk'
               PROVE  output' = Source
    OBVIOUS
  <2>1. Streams # {}
    BY DEF TransferInv, InductiveInv, TypeOK
  <2>2. CASE output' # output
    BY <2>2, OutputStep
  <2>3. CASE output' = output /\ ClientOk
    BY <2>3
  <2>4. CASE output' = output /\ ~ClientOk
    <3>1. Committed
      BY <2>1, <2>4, AckOnce
    <3>2. Matches(output, manifest.records) /\ output \in Image
      BY <3>1 DEF TransferInv, InductiveInv, Integrity, TypeOK, Matches
    <3> QED
      BY <2>4, <3>2, SourceRecords DEF TransferInv, SourceInv
  <2> QED
    BY <2>2, <2>3, <2>4
<1>3. TransferSpec => []TransferInv
  BY TransferInvInit, TransferInvStep, PTL DEF TransferSpec
<1> QED
  BY <1>1, <1>2, <1>3, PTL DEF TransferSpec
=============================================================================
