---------------------------- MODULE RetrReceiver ----------------------------
(***************************************************************************)
(* The receiving side of a download (core/io/file_download_client.cpp):    *)
(* one client process at a time works on one output path, with one         *)
(* receiving thread per stream.  The threads share a session and the temp  *)
(* file.  A mutex protects the session: the first SessionInit prepares it  *)
(* under the mutex, and every verified chunk is recorded under it, while   *)
(* the temp file is written without it.  Each thread answers FIN with      *)
(* COMPLETE at once; when all have returned, the main thread verifies,     *)
(* renames the temp file to the output and marks the manifest Committed.   *)
(*                                                                         *)
(* The sender is left open: any frame may arrive on any connection in any  *)
(* order.  RetrTransfer closes the system with the repository's sender.    *)
(*                                                                         *)
(* A thread's step runs to the next frame, to the mutex or to the next     *)
(* time it touches the disk, because the process may be killed there.      *)
(***************************************************************************)
EXTENDS DownloadSession

CONSTANTS
  Streams,         \* the receiving threads, options.connections of them
  Options,         \* client options: [resume, overwrite, id, limit]
  InitialOutputs,  \* what may be at the output path before the first run
  MaxRanges,       \* missing ranges that fit in one ResumeResponse
  DecayPhases,     \* when a block of a temp file may decay
  MaxFaults        \* bound: kills, I/O errors and decayed blocks in total

(* A session that trusts its own verified chunks does not look at the temp  *)
(* file again, so nothing is claimed if blocks decay underneath it.         *)
ASSUME ReceiverAssumption ==
  /\ Streams # {}
  /\ Options \subseteq [resume : BOOLEAN, overwrite : BOOLEAN, id : Ids, limit : Nat]
  /\ InitialOutputs \subseteq Image \cup {NoFile}
  /\ MaxRanges \in Nat
  /\ MaxFaults \in Nat
  /\ DecayPhases \subseteq {"down", "streams"}
  /\ "streams" \in DecayPhases => FinalVerify = "full"

VARIABLES
  run,       \* where the main thread is
  opts,      \* the options the client was started with
  sess,      \* SharedDownloadState.session
  count,     \* SharedDownloadState.verifiedChunks, up to options.maxChunks
  worker,    \* the receiving threads
  rx,        \* the chunk each of them is receiving
  resp,      \* missing blocks sent to a stream in its ResumeResponse
  completed, \* the streams whose thread sent COMPLETE
  outcome,   \* how the last client process ended
  output,    \* file at options.path
  temp,      \* the temp files, one path per transfer id
  manifest,  \* file at the manifest path
  faults     \* faults so far

shared == <<sess, count>>
disk == <<output, temp, manifest>>
vars == <<run, opts, sess, count, worker, rx, resp, completed, outcome,
          output, temp, manifest, faults>>

(* A thread that prepares a new session holds the mutex all the while. *)
Preparing == {"removeOutput", "removeManifest", "create", "save"}

(* What readSessionInit checks of a SessionInit, and whether its sizes and  *)
(* source path are those of the session or of the manifest it meets.        *)
Inits == [resume : BOOLEAN, id : Ids, agrees : BOOLEAN]

NoReply == [known |-> FALSE, missing |-> {}]

(* The chunk being received: blocks start .. next-1 have arrived, those     *)
(* below `flushed` are in the temp file and the others in the thread's      *)
(* BufferedFileWriter.                                                      *)
Chunk(active, c, start, next, flushed, acc) ==
  [active |-> active, chunk |-> c, start |-> start, next |-> next,
   flushed |-> flushed, acc |-> acc]
InChunk == [active : BOOLEAN, chunk : ChunkIds \cup {0},
            start : Nat, next : Nat, flushed : Nat, acc : Image]
NoChunk == Chunk(FALSE, 0, 0, 0, 0, EmptyImage)

Init ==
  /\ run = "down"
  /\ opts \in Options
  /\ sess = NoSession
  /\ count = 0
  /\ worker = [s \in Streams |-> "off"]
  /\ rx = [s \in Streams |-> NoChunk]
  /\ resp = [s \in Streams |-> NoReply]
  /\ completed = {}
  /\ outcome = "none"
  /\ output \in InitialOutputs
  /\ temp = [i \in Ids |-> NoFile]
  /\ manifest = NoManifest
  /\ faults = 0

-----------------------------------------------------------------------------
(* Helpers *)

(* A system call fails, the process is killed, a block decays. *)
Fault == faults < MaxFaults /\ faults' = faults + 1

Become(s, state) == worker' = [worker EXCEPT ![s] = state]

(* receiveStream returns an error: its locals are gone and its connection   *)
(* is closed.  Whether an Error frame goes out before makes no difference   *)
(* to the sender, which gives up either way.                                *)
Fail(s) ==
  /\ Become(s, "failed")
  /\ rx' = [rx EXCEPT ![s] = NoChunk]
  /\ resp' = [resp EXCEPT ![s] = NoReply]

Save(session, state) ==
  /\ manifest' = ManifestOf(session, state)
  /\ sess' = Saved(session)
  /\ UNCHANGED faults

SaveFails(session) == Fault /\ sess' = session /\ UNCHANGED manifest

(* The process returns: sockets are closed, memory is gone. *)
Exit(how) ==
  /\ run' = "down"
  /\ sess' = NoSession
  /\ count' = 0
  /\ worker' = [s \in Streams |-> "off"]
  /\ rx' = [s \in Streams |-> NoChunk]
  /\ resp' = [s \in Streams |-> NoReply]
  /\ outcome' = how

-----------------------------------------------------------------------------
(* Start, connections *)

StartClient(o) ==
  /\ run = "down"
  /\ run' = "streams"
  /\ opts' = o
  /\ worker' = [s \in Streams |-> "connect"]
  /\ completed' = {}
  /\ outcome' = "none"
  /\ UNCHANGED <<shared, rx, resp, disk, faults>>

Connect(s) ==
  /\ worker[s] = "connect"
  /\ Become(s, "waitInit")
  /\ UNCHANGED <<run, opts, shared, rx, resp, completed, outcome, disk, faults>>

(* Connecting fails, the sender closes, 60 s pass without a frame, or one    *)
(* arrives that no branch accepts: a header that does not validate, another  *)
(* stream's id, a stream id seen before, a zero chunk_size, a wrong type.    *)
ConnectionFails(s) ==
  /\ worker[s] \in {"connect", "waitInit", "receive"}
  /\ Fail(s)
  /\ UNCHANGED <<run, opts, shared, completed, outcome, disk, faults>>

-----------------------------------------------------------------------------
(* SessionInit: prepareDownloadSession, under the mutex *)

InitAcceptable(init) == init.resume = opts.resume /\ init.id = opts.id

AtInit(s) == worker[s] = "waitInit" /\ \A t \in Streams : worker[t] \notin Preparing

InitRejected(s, init) ==
  /\ AtInit(s)
  /\ ~InitAcceptable(init)
  /\ Fail(s)
  /\ UNCHANGED <<run, opts, shared, completed, outcome, disk, faults>>

(* sendResumeResponse, which fails when the missing ranges do not fit. *)
Respond(s, records) ==
  IF MissingRunCount(records) <= MaxRanges
    THEN /\ resp' = [resp EXCEPT ![s] = [known |-> TRUE, missing |-> Missing(records)]]
         /\ Become(s, "receive")
         /\ UNCHANGED rx
    ELSE Fail(s)

InitJoins(s, init) ==
  /\ AtInit(s)
  /\ InitAcceptable(init)
  /\ sess.ready
  /\ IF init.agrees THEN Respond(s, sess.records) ELSE Fail(s)
  /\ UNCHANGED <<run, opts, shared, completed, outcome, disk, faults>>

(* verifyTempChunks: it saves when it dropped a record, because the chunk   *)
(* is corrupt or could not be read.                                         *)
VerifyTemp(session, next, fails) ==
  LET corrupt == CorruptRecords(session, temp[session.id])
      kept    == DropRecords(session, corrupt)
  IN \/ corrupt = {} /\ sess' = session /\ UNCHANGED <<manifest, faults>> /\ next
     \/ corrupt # {} /\ Save(kept, "Transferring") /\ next
     \/ corrupt # {} /\ SaveFails(kept) /\ fails
     \/ \E r \in session.records \ corrupt :
          LET readable == DropRecords(session, corrupt \cup {r})
          IN /\ Fault
             /\ manifest' = ManifestOf(readable, "Transferring")
             /\ sess' = Saved(readable)
             /\ next

(* DownloadSession::resume, openReadWrite and the precheck of the temp file. *)
(* A preparation that fails, its save included, leaves sessionReady false,   *)
(* so that the next stream tries again.                                      *)
PrepareResume(s, init) ==
  LET loadable == /\ LoadedManifestValid(manifest, opts.id, init.agrees)
                  /\ temp[opts.id] # NoFile
      resumed  == [Resume(manifest) EXCEPT !.ready = TRUE]
  IN /\ AtInit(s)
     /\ InitAcceptable(init)
     /\ ~sess.ready
     /\ init.resume
     /\ \/ ~loadable /\ Fail(s) /\ UNCHANGED <<sess, manifest, faults>>
        \/ loadable /\ Fault /\ Fail(s) /\ UNCHANGED <<sess, manifest>>
        \/ loadable /\ VerifyTemp(resumed, Respond(s, sess'.records), FALSE)
     /\ UNCHANGED <<run, opts, count, completed, outcome, output, temp>>

OutputStateValid ==
  opts.overwrite \/ (output = NoFile /\ manifest.state = "Absent")

PrepareNew(s, init) ==
  /\ AtInit(s)
  /\ InitAcceptable(init)
  /\ ~sess.ready
  /\ ~init.resume
  /\ IF OutputStateValid
       THEN /\ Become(s, IF opts.overwrite THEN "removeOutput" ELSE "create")
            /\ UNCHANGED <<rx, resp>>
       ELSE Fail(s)
  /\ UNCHANGED <<run, opts, shared, completed, outcome, disk, faults>>

RecvInit(s, init) ==
  \/ InitRejected(s, init) \/ InitJoins(s, init)
  \/ PrepareResume(s, init) \/ PrepareNew(s, init)

(* --overwrite removes the output and the manifest before the first byte    *)
(* arrives; a removal that fails is ignored.                                *)
RemoveOutput(s) ==
  /\ worker[s] = "removeOutput"
  /\ Become(s, "removeManifest")
  /\ \/ output' = NoFile /\ UNCHANGED faults
     \/ Fault /\ UNCHANGED output
  /\ UNCHANGED <<run, opts, shared, rx, resp, completed, outcome, temp, manifest>>

RemoveManifest(s) ==
  /\ worker[s] = "removeManifest"
  /\ Become(s, "create")
  /\ \/ manifest' = NoManifest /\ UNCHANGED faults
     \/ Fault /\ UNCHANGED manifest
  /\ UNCHANGED <<run, opts, shared, rx, resp, completed, outcome, output, temp>>

(* An old temp file of this id is removed, a new one created and sized.  It  *)
(* stays behind when sizing it fails.                                        *)
CreateTemp(s) ==
  /\ worker[s] = "create"
  /\ \/ /\ temp' = [temp EXCEPT ![opts.id] = EmptyImage]
        /\ Become(s, "save")
        /\ UNCHANGED <<rx, resp, faults>>
     \/ /\ Fault
        /\ \E left \in {NoFile, temp[opts.id], EmptyImage} :
             temp' = [temp EXCEPT ![opts.id] = left]
        /\ Fail(s)
  /\ UNCHANGED <<run, opts, shared, completed, outcome, output, manifest>>

SaveInit(s) ==
  /\ worker[s] = "save"
  /\ \/ /\ Save([CreateNew(opts.id) EXCEPT !.ready = TRUE], "Transferring")
        /\ Respond(s, {})
     \/ SaveFails(sess) /\ Fail(s)
  /\ UNCHANGED <<run, opts, count, completed, outcome, output, temp>>

-----------------------------------------------------------------------------
(* DATA, ChunkComplete, FIN: the loop of receiveStream *)

Receiving(s) == worker[s] = "receive"

(* Blocks lo .. hi-1 of a thread reach the temp file. *)
Write(acc, lo, hi) ==
  temp' = [temp EXCEPT ![sess.id] =
             [p \in Positions |-> IF lo <= p /\ p < hi THEN acc[p] ELSE @[p]]]

(* The first DATA frame after a chunk starts the next, at any offset. *)
Current(s, c, p) ==
  IF rx[s].active THEN rx[s] ELSE Chunk(TRUE, c, p, p, p, EmptyImage)

DataAcceptable(s, c, p) ==
  Current(s, c, p).chunk = c /\ Current(s, c, p).next = p

(* The buffered writer keeps the new block, or flushes what it held before  *)
(* it, or flushes all: which of them depends on the buffer size.            *)
AcceptData(s, c, p, v) ==
  LET k   == Current(s, c, p)
      acc == [k.acc EXCEPT ![p] = v]
  IN /\ Receiving(s)
     /\ DataAcceptable(s, c, p)
     /\ \E f \in {k.flushed, p, p + 1} :
          /\ rx' = [rx EXCEPT ![s] = Chunk(TRUE, c, k.start, p + 1, f, acc)]
          /\ Write(acc, k.flushed, f)
     /\ UNCHANGED <<run, opts, shared, worker, resp, completed, outcome, output, manifest, faults>>

RefuseData(s, c, p) ==
  /\ Receiving(s)
  /\ ~DataAcceptable(s, c, p)
  /\ Fail(s)
  /\ UNCHANGED <<run, opts, shared, completed, outcome, disk, faults>>

RecvData(s, c, p, v) == AcceptData(s, c, p, v) \/ RefuseData(s, c, p)

(* A write of buffered blocks fails; some of them may have been written. *)
WriteFails(s) ==
  /\ Receiving(s)
  /\ rx[s].active
  /\ Fault
  /\ \E hi \in rx[s].flushed .. rx[s].next : Write(rx[s].acc, rx[s].flushed, hi)
  /\ Fail(s)
  /\ UNCHANGED <<run, opts, shared, completed, outcome, output, manifest>>

(* ChunkComplete must describe what was received on this connection.  It is *)
(* not compared with a chunk plan.                                          *)
MatchesActive(s, c, lo, hi) ==
  rx[s].active /\ rx[s].chunk = c /\ rx[s].start = lo /\ rx[s].next = hi

RefuseChunk(s, c, lo, hi) ==
  /\ Receiving(s)
  /\ ~MatchesActive(s, c, lo, hi)
  /\ Fail(s)
  /\ UNCHANGED <<run, opts, shared, completed, outcome, disk, faults>>

(* Fault variant: the chunk is recorded before the writer is flushed. *)
FlushChunkLater(s) == Write(rx[s].acc, rx[s].flushed, rx[s].flushed)

(* The writer is flushed before the checksum is compared and recorded. *)
FlushChunk(s) == Write(rx[s].acc, rx[s].flushed, rx[s].next)

ChunkVerified(s, r) ==
  SumOf(rx[s].acc, r.begin, r.end) = r.sum /\ RecordAccepted(sess, r)

RejectChunk(s, r) ==
  /\ Receiving(s)
  /\ MatchesActive(s, r.chunk, r.begin, r.end)
  /\ FlushChunk(s)
  /\ ~ChunkVerified(s, r)
  /\ Fail(s)
  /\ UNCHANGED <<run, opts, shared, completed, outcome, output, manifest, faults>>

(* A save that fails ends this thread; the others go on with the session,   *)
(* the new record included.  --max-chunks ends the thread that reaches it.  *)
RecordChunk(s, r) ==
  LET after == RecordVerifiedChunk(sess, r)
      due   == FlushDue(sess, after)
      seen  == IF count < opts.limit THEN count + 1 ELSE count
      Done  == /\ count' = seen
               /\ IF opts.limit # 0 /\ seen >= opts.limit
                    THEN Fail(s)
                    ELSE rx' = [rx EXCEPT ![s] = NoChunk] /\ UNCHANGED <<worker, resp>>
  IN /\ Receiving(s)
     /\ MatchesActive(s, r.chunk, r.begin, r.end)
     /\ FlushChunk(s)
     /\ ChunkVerified(s, r)
     /\ \/ ~due /\ sess' = after /\ Done /\ UNCHANGED <<manifest, faults>>
        \/ due /\ Save(after, "Transferring") /\ Done
        \/ due /\ SaveFails(after) /\ Fail(s) /\ UNCHANGED count
     /\ UNCHANGED <<run, opts, completed, outcome, output>>

RecvChunkComplete(s, r) ==
  RefuseChunk(s, r.chunk, r.begin, r.end) \/ RejectChunk(s, r) \/ RecordChunk(s, r)

(* Fault variant: FIN is accepted in the middle of a chunk. *)
RecvFinInChunk(s) ==
  /\ Receiving(s)
  /\ Become(s, "ok")
  /\ completed' = completed \cup {s}
  /\ UNCHANGED <<run, opts, shared, rx, resp, outcome, disk, faults>>

(* FIN is answered by COMPLETE before anything is committed. *)
RecvFin(s) ==
  /\ Receiving(s)
  /\ IF rx[s].active
       THEN Fail(s) /\ UNCHANGED completed
       ELSE /\ Become(s, "ok")
            /\ completed' = completed \cup {s}
            /\ UNCHANGED <<rx, resp>>
  /\ UNCHANGED <<run, opts, shared, outcome, disk, faults>>

-----------------------------------------------------------------------------
(* The main thread after the join *)

AllReturned == run = "streams" /\ \A s \in Streams : worker[s] \in {"ok", "failed"}

(* A stream failed: the manifest is marked Failed, or just saved when the   *)
(* download was to stop after --max-chunks.                                 *)
JoinFailed ==
  /\ AllReturned
  /\ \E s \in Streams : worker[s] = "failed"
  /\ \/ ~sess.ready /\ UNCHANGED <<manifest, faults>>
     \/ /\ sess.ready
        /\ manifest' = ManifestOf(sess, IF opts.limit = 0 THEN "Failed" ELSE "Transferring")
        /\ UNCHANGED faults
     \/ sess.ready /\ Fault /\ UNCHANGED manifest
  /\ Exit("failed")
  /\ UNCHANGED <<opts, completed, output, temp>>

Continue(next) == run' = next

JoinOk ==
  /\ AllReturned
  /\ \A s \in Streams : worker[s] = "ok"
  /\ \/ Missing(sess.records) = {} /\ Continue("verify") /\ UNCHANGED faults
     \/ Missing(sess.records) # {} /\ Continue("failing") /\ UNCHANGED faults
     \/ Fault /\ Continue("failing")
  /\ UNCHANGED <<opts, shared, worker, rx, resp, completed, outcome, disk>>

(* Fault variant: the manifest says Committed before the rename. *)
SkipVerifyAndCommit ==
  /\ run = "verify"
  /\ MaySkipFinalVerify(sess)
  /\ Save(sess, "Committed")
  /\ Continue("exists")
  /\ UNCHANGED <<opts, count, worker, rx, resp, completed, outcome, output, temp>>

SkipVerify ==
  /\ run = "verify"
  /\ MaySkipFinalVerify(sess)
  /\ \/ Save(sess, "Transferring") /\ Continue("exists")
     \/ SaveFails(sess) /\ Continue("failing")
  /\ UNCHANGED <<opts, count, worker, rx, resp, completed, outcome, output, temp>>

FullVerify ==
  /\ run = "verify"
  /\ ~MaySkipFinalVerify(sess)
  /\ VerifyTemp(sess,
                Continue(IF Missing(sess'.records) = {} THEN "exists" ELSE "failing"),
                Continue("failing"))
  /\ UNCHANGED <<opts, count, worker, rx, resp, completed, outcome, output, temp>>

(* An old output is removed before the rename. *)
CheckOutput ==
  /\ run = "exists"
  /\ \/ output = NoFile /\ Continue("rename") /\ UNCHANGED <<output, faults>>
     \/ output # NoFile /\ ~opts.overwrite /\ Continue("failing") /\ UNCHANGED <<output, faults>>
     \/ /\ output # NoFile /\ opts.overwrite
        /\ \/ output' = NoFile /\ Continue("rename") /\ UNCHANGED faults
           \/ Fault /\ Continue("failing") /\ UNCHANGED output
  /\ UNCHANGED <<opts, shared, worker, rx, resp, completed, outcome, temp, manifest>>

RenameToOutput ==
  /\ run = "rename"
  /\ \/ /\ output' = temp[sess.id]
        /\ temp' = [temp EXCEPT ![sess.id] = NoFile]
        /\ Continue("sync")
        /\ UNCHANGED faults
     \/ Fault /\ Continue("failing") /\ UNCHANGED <<output, temp>>
  /\ UNCHANGED <<opts, shared, worker, rx, resp, completed, outcome, manifest>>

(* applyCommitSyncPolicy *)
SyncOutput ==
  /\ run = "sync"
  /\ \/ Continue("markCommitted") /\ UNCHANGED faults
     \/ Fault /\ Continue("failing")
  /\ UNCHANGED <<opts, shared, worker, rx, resp, completed, outcome, disk>>

(* A failing save here returns without marking the manifest Failed. *)
MarkCommitted ==
  /\ run = "markCommitted"
  /\ \/ manifest' = ManifestOf(sess, "Committed") /\ Exit("ok") /\ UNCHANGED faults
     \/ Fault /\ Exit("failed") /\ UNCHANGED manifest
  /\ UNCHANGED <<opts, completed, output, temp>>

(* Fault variant: the temp file is cleaned up after a failure. *)
MarkFailedAndRemoveTemp ==
  /\ run = "failing"
  /\ manifest' = ManifestOf(sess, "Failed")
  /\ temp' = [temp EXCEPT ![sess.id] = NoFile]
  /\ Exit("failed")
  /\ UNCHANGED <<opts, completed, output, faults>>

(* Fault variant: the wrong state is written. *)
MarkFailedAsCommitted ==
  /\ run = "failing"
  /\ manifest' = ManifestOf(sess, "Committed")
  /\ Exit("failed")
  /\ UNCHANGED <<opts, completed, output, temp, faults>>

MarkFailed ==
  /\ run = "failing"
  /\ \/ manifest' = ManifestOf(sess, "Failed") /\ UNCHANGED faults
     \/ Fault /\ UNCHANGED manifest
  /\ Exit("failed")
  /\ UNCHANGED <<opts, completed, output, temp>>

-----------------------------------------------------------------------------
(* Environment *)

Kill ==
  /\ run # "down"
  /\ Fault
  /\ Exit("killed")
  /\ UNCHANGED <<opts, completed, disk>>

(* A block of a temp file decays. *)
TempDecays(i, p, v) ==
  /\ run \in DecayPhases
  /\ temp[i] # NoFile
  /\ Fault
  /\ temp' = [temp EXCEPT ![i] = [@ EXCEPT ![p] = v]]
  /\ UNCHANGED <<run, opts, shared, worker, rx, resp, completed, outcome, output, manifest>>

(* Any frame a sender could send on connection s. *)
Receive(s) ==
  \/ \E init \in Inits : RecvInit(s, init)
  \/ \E c \in ChunkIds, p \in Positions, v \in Content : RecvData(s, c, p, v)
  \/ \E c \in ChunkIds, lo \in Positions, hi \in 1 .. TotalBlocks : \E sum \in Sums(lo, hi) :
       lo < hi /\ RecvChunkComplete(s, ChunkRecord(c, lo, hi, sum))
  \/ RecvFin(s)
  \/ ConnectionFails(s)

ClientStep ==
  \/ \E s \in Streams : RemoveOutput(s) \/ RemoveManifest(s) \/ CreateTemp(s) \/ SaveInit(s)
  \/ JoinFailed \/ JoinOk \/ SkipVerify \/ FullVerify \/ CheckOutput
  \/ RenameToOutput \/ SyncOutput \/ MarkCommitted \/ MarkFailed

Environment ==
  \/ Kill
  \/ \E s \in Streams : WriteFails(s)
  \/ \E i \in Ids, p \in Positions, v \in Content : TempDecays(i, p, v)

Next ==
  \/ \E o \in Options : StartClient(o)
  \/ \E s \in Streams : Connect(s) \/ Receive(s)
  \/ ClientStep
  \/ Environment

Spec == Init /\ [][Next]_vars

-----------------------------------------------------------------------------
(* Properties *)

(* Type correctness of the client's state; a thread never has more blocks   *)
(* in the temp file than it received, nor receives past total_size.         *)
TypeOK ==
  /\ run \in {"down", "streams", "verify", "exists", "rename", "sync", "markCommitted", "failing"}
  /\ opts \in Options
  /\ sess \in Sessions
  /\ count \in Nat
  /\ worker \in [Streams -> Preparing \cup {"off", "connect", "waitInit", "receive", "ok", "failed"}]
  /\ rx \in [Streams -> InChunk]
  /\ resp \in [Streams -> [known : BOOLEAN, missing : SUBSET Positions]]
  /\ completed \subseteq Streams
  /\ outcome \in {"none", "ok", "failed", "killed"}
  /\ output \in Image \cup {NoFile}
  /\ temp \in [Ids -> Image \cup {NoFile}]
  /\ manifest \in Manifests
  /\ faults \in Nat
  /\ \A s \in Streams : /\ rx[s].start <= rx[s].flushed
                         /\ rx[s].flushed <= rx[s].next
                         /\ rx[s].next <= TotalBlocks

Committed == manifest.state = "Committed"
Matches(image, records) ==
  /\ image # NoFile
  /\ Missing(records) = {}
  /\ \A r \in records : SumOf(image, r.begin, r.end) = r.sum

(* A download manifest that says Committed covers the file, and the output  *)
(* has the checksums it records, after any history of kills, resumes, I/O   *)
(* errors and chunks of any shape.  The one exception is a client with      *)
(* --overwrite that was stopped after it removed the committed output.      *)
Integrity ==
  Committed => \/ Matches(output, manifest.records)
               \/ output = NoFile /\ \E o \in Options : o.overwrite

(* Without --overwrite no client (prepareDownloadSession) gives an output   *)
(* path whose manifest belongs to one transfer id to another, or forgets    *)
(* progress: a record leaves the manifest only when the temp file does not  *)
(* have that content any more, or could not be read.                        *)
Corrupt(r) == temp[manifest.id] = NoFile \/ SumOf(temp[manifest.id], r.begin, r.end) # r.sum
OneTransferPerOutput ==
  [][manifest.state # "Absent" /\ ~opts.overwrite
       => /\ manifest'.state # "Absent" /\ manifest'.id = manifest.id
          /\ \A r \in manifest.records \ manifest'.records : Corrupt(r) \/ faults' # faults]_vars

Flushed(s) == {p \in Positions : rx[s].active /\ rx[s].start <= p /\ p < rx[s].flushed}
InFlight(p) == \E s \in Streams : p \in Flushed(s) /\ temp[sess.id][p] = rx[s].acc[p]

(* Threads write the temp file without the mutex.  Even so, as long as no   *)
(* stream has failed every recorded range is intact in it, but for blocks a *)
(* thread is writing again and has not completed.                           *)
VerifiedChunksIntact ==
  /\ run = "streams" /\ sess.ready /\ "streams" \notin DecayPhases
  /\ \A s \in Streams : worker[s] # "failed"
  =>
    \A r \in sess.records : \A p \in Blocks(r) :
      temp[sess.id][p] = r.sum[p] \/ InFlight(p)

(* When the final verification may be skipped (verified_chunks policy), it  *)
(* would not have found a single corrupt chunk.                             *)
SkipIsSound ==
  run = "verify" /\ MaySkipFinalVerify(sess)
    => CorruptRecords(sess, temp[sess.id]) = {}

(* The manifest on disk never claims a chunk the session has not verified,  *)
(* and lacks fewer chunks than one flush interval, plus one for every save  *)
(* that failed: a thread whose save failed ends, the others go on.          *)
BoundedLoss ==
  run = "streams" /\ sess.ready =>
    /\ manifest.records \subseteq sess.records
    /\ FlushPolicy = "every_n_chunks" =>
         Cardinality(sess.records \ manifest.records) < FlushInterval + faults

(* The pieces of the inductive invariant.                                   *)
(* The threads: one at a time prepares, and only while there is no session; *)
(* what it may remove and create; a chunk is received by a thread that is   *)
(* in its receive loop, and the main thread goes on when all are done.      *)
WorkerInv ==
  /\ \A s \in Streams :
       /\ run = "down" => worker[s] = "off"
       /\ run \notin {"down", "streams"} => worker[s] = "ok"
       /\ rx[s].active => worker[s] = "receive"
       /\ worker[s] \in {"receive", "ok"} => sess.ready
       /\ worker[s] \in Preparing => ~sess.ready
       /\ worker[s] \in {"removeOutput", "removeManifest"} => opts.overwrite
       /\ worker[s] \in {"create", "save"} => opts.overwrite \/ manifest.state = "Absent"
       /\ worker[s] = "save" => temp[opts.id] # NoFile
  /\ \A s, t \in Streams : worker[s] \in Preparing /\ worker[t] \in Preparing => s = t

Disjoint(records) == \A r, t \in records : r = t \/ Blocks(r) \cap Blocks(t) = {}

(* The session and its manifest: they are about the same download, the      *)
(* manifest claims nothing the session has not verified until a final       *)
(* verification drops a record, and then the temp file does not have it.    *)
SessionInv ==
  /\ run = "down" => ~sess.ready
  /\ run \notin {"down", "streams"} => sess.ready
  /\ Disjoint(sess.records) /\ Disjoint(manifest.records)
  /\ sess.ready => manifest.state \in {"Transferring", "Failed"} /\ manifest.id = sess.id
  /\ sess.ready /\ run \in {"streams", "verify", "exists", "rename"} => temp[sess.id] # NoFile
  /\ sess.ready /\ run # "failing" => manifest.records \subseteq sess.records
  /\ run = "failing" => \A r \in manifest.records \ sess.records : Corrupt(r)

(* A block that a thread in the middle of a chunk put into the temp file is *)
(* accounted for: some such thread wrote what is there now, or it belongs   *)
(* to a recorded range.                                                     *)
FlushedBlocksInv ==
  /\ run = "streams" /\ sess.ready /\ "streams" \notin DecayPhases
  /\ \A s \in Streams : worker[s] # "failed"
  =>
    \A s \in Streams : \A p \in Flushed(s) : InFlight(p) \/ p \in Covered(sess.records)

(* What verification established on the way to the commit. *)
VerifiedInv ==
  /\ run = "verify" => Missing(sess.records) = {}
  /\ run = "verify" /\ "streams" \notin DecayPhases => CorruptRecords(sess, temp[sess.id]) = {}
  /\ run \in {"exists", "rename"} => Matches(temp[sess.id], sess.records)
  /\ run = "rename" => output = NoFile
  /\ run \in {"sync", "markCommitted"} => Matches(output, sess.records)
  /\ run = "failing" /\ temp[sess.id] = NoFile => Matches(output, sess.records)

(* BoundedLoss made inductive. *)
Lag == sess.records \ manifest.records
LagInv ==
  run = "streams" /\ sess.ready /\ FlushPolicy = "every_n_chunks" =>
    /\ IsFiniteSet(Lag)
    /\ Cardinality(Lag) <= sess.dirty
    /\ sess.dirty < FlushInterval + faults

(* The state of every step between a DATA frame and markCommitted on which  *)
(* Integrity and the other claims rest.                                     *)
InductiveInv ==
  /\ TypeOK
  /\ WorkerInv
  /\ SessionInv
  /\ VerifiedChunksIntact
  /\ FlushedBlocksInv
  /\ VerifiedInv
  /\ LagInv
  /\ Integrity

Stuck == manifest.state \in {"Transferring", "Failed"} /\ temp[manifest.id] = NoFile

(* A client without --overwrite that leaves a download without temp file,   *)
(* which no client resumes again, has lost nothing: either nothing of it    *)
(* was verified or the output already holds all that the manifest records.  *)
NothingLost ==
  manifest.records = {} \/
  (output # NoFile /\ \A r \in manifest.records : SumOf(output, r.begin, r.end) = r.sum)
StuckLosesNothing ==
  [][Stuck' /\ ~opts.overwrite /\ ~(Stuck /\ manifest' = manifest) => NothingLost']_vars

(* Where there was a file there is one after every run of the client, the   *)
(* old one or a new one, however the run ended: what an atomic commit by    *)
(* rename (docs/ENGINEERING.md:230) gives.  Under --overwrite the client    *)
(* removes the old file before it has received a byte of the new one.       *)
OldOrNewOutput == run = "down" /\ NoFile \notin InitialOutputs => output # NoFile
=============================================================================
