---------------------------- MODULE StorReceiver ----------------------------
(***************************************************************************)
(* The receiving side of an upload (core/io/file_transfer_server.cpp): one *)
(* server process at a time works on one output path.  It accepts one      *)
(* connection per stream, opens a new or a resumed session on the first    *)
(* SessionInit, writes DATA frames to the temp file through a per          *)
(* connection buffer, records a chunk once its checksum agrees, and after  *)
(* the last FIN verifies, renames the temp file to the output and marks    *)
(* the manifest Committed.                                                 *)
(*                                                                         *)
(* The sender is left open: any frame may arrive on any connection in any  *)
(* order, so what is shown here does not rest on a well behaved client.    *)
(* StorTransfer closes the system with the client of the repository.       *)
(*                                                                         *)
(* The process is single threaded: a handler is one step, except that it   *)
(* is cut wherever it touches the disk a second time, because the process  *)
(* may be killed between the two.                                          *)
(***************************************************************************)
EXTENDS TransferSession

CONSTANTS
  Streams,         \* the data connections, options.connections of them
  Options,         \* server options: [resume, overwrite, ids]
  InitialOutputs,  \* what may be at the output path before the first run
  MaxRanges,       \* missing ranges that fit in one ResumeResponse
  DecayPhases,     \* when a block of a temp file may decay
  MaxFaults        \* bound: kills, I/O errors and decayed blocks in total

(* A session that trusts its own verified chunks does not look at the temp  *)
(* file again, so nothing is claimed if blocks decay underneath it.         *)
ASSUME ReceiverAssumption ==
  /\ Options \subseteq [resume : BOOLEAN, overwrite : BOOLEAN, ids : SUBSET Ids]
  /\ InitialOutputs \subseteq Image \cup {NoFile}
  /\ MaxRanges \in Nat
  /\ MaxFaults \in Nat
  /\ DecayPhases \subseteq {"down", "serving"}
  /\ "serving" \in DecayPhases => FinalVerify = "full"

VARIABLES
  phase,     \* where the server process is
  opts,      \* the options it was started with
  sess,      \* TransferState.session
  initBy,    \* connection whose SessionInit opened the session
  conn,      \* FileServerConnection, one per stream: its life cycle
  rx,        \* ... and the chunk it is receiving
  resp,      \* missing chunks sent to a stream in its ResumeResponse
  final,     \* final status frame sent to a stream
  outcome,   \* how the last server process ended
  output,    \* file at options.path
  temp,      \* the temp files, one path per transfer id
  manifest,  \* file at the manifest path
  faults     \* faults so far

disk == <<output, temp, manifest>>
process == <<phase, opts, sess, initBy, conn, rx>>
replies == <<resp, final, outcome>>
vars == <<phase, opts, sess, initBy, conn, rx, resp, final, outcome,
          output, temp, manifest, faults>>

(* A SessionInit; `agrees`: its sizes and checksum algorithm are those of   *)
(* the session or of the manifest it meets.                                 *)
Inits == [resume : BOOLEAN, id : Ids, agrees : BOOLEAN]

Phases == {"down", "serving", "open", "precheck", "save", "finalVerify", "flush",
           "exists", "rename", "sync", "markCommitted", "complete", "failing"}

NoReply == [known |-> FALSE, missing |-> {}]

Conns == [open : BOOLEAN, ready : BOOLEAN, fin : BOOLEAN]
Closed == [open |-> FALSE, ready |-> FALSE, fin |-> FALSE]

(* The chunk being received: blocks start .. next-1 have arrived, those     *)
(* below `flushed` are in the temp file and the others in the connection's  *)
(* BufferedFileWriter.  Between two chunks the fields are dead.             *)
Chunk(active, c, start, next, flushed, acc) ==
  [active |-> active, chunk |-> c, start |-> start, next |-> next,
   flushed |-> flushed, acc |-> acc]

InChunk == [active : BOOLEAN, chunk : Chunks \cup {0},
            start : Nat, next : Nat, flushed : Nat, acc : Image]
NoChunk == Chunk(FALSE, 0, 0, 0, 0, EmptyImage)

Init ==
  /\ phase = "down"
  /\ opts \in Options
  /\ sess = NoSession
  /\ initBy \in Streams
  /\ conn = [s \in Streams |-> Closed]
  /\ rx = [s \in Streams |-> NoChunk]
  /\ resp = [s \in Streams |-> NoReply]
  /\ final = [s \in Streams |-> "none"]
  /\ outcome = "none"
  /\ output \in InitialOutputs
  /\ temp = [i \in Ids |-> NoFile]
  /\ manifest = NoManifest
  /\ faults = 0

-----------------------------------------------------------------------------
(* Helpers *)

(* A system call fails, the process is killed, a block decays. *)
Fault == faults < MaxFaults /\ faults' = faults + 1

FrameToAll(kind) == [s \in Streams |-> IF conn[s].open THEN kind ELSE final[s]]

(* An error return of a handler: an Error frame goes to every connection    *)
(* that is open; marking the manifest Failed is the next step.              *)
Abort == phase' = "failing" /\ final' = FrameToAll("Error")

Continue(next) == phase' = next /\ UNCHANGED final

(* The process returns: sockets are closed, memory is gone. *)
Exit(how) ==
  /\ phase' = "down"
  /\ sess' = NoSession
  /\ conn' = [s \in Streams |-> Closed]
  /\ rx' = [s \in Streams |-> NoChunk]
  /\ outcome' = how

(* session.save(): the manifest file is replaced by rename, or on an error  *)
(* stays as it was.                                                         *)
Save(session, state) ==
  /\ manifest' = ManifestOf(session, state)
  /\ sess' = Saved(session)
  /\ UNCHANGED faults

SaveFails(session) == Fault /\ sess' = session /\ UNCHANGED manifest

-----------------------------------------------------------------------------
(* Start of a server process *)

(* Fault variant: the manifest is looked at by a resume only. *)
OutputStateValidIgnoringManifest(o) ==
  /\ output # NoFile => o.overwrite
  /\ o.resume => manifest.state # "Absent"

OutputStateValid(o) ==
  /\ output # NoFile => o.overwrite
  /\ o.resume <=> manifest.state # "Absent"

StartServer(o) ==
  /\ phase = "down"
  /\ OutputStateValid(o)
  /\ phase' = "serving"
  /\ opts' = o
  /\ resp' = [s \in Streams |-> NoReply]
  /\ final' = [s \in Streams |-> "none"]
  /\ outcome' = "none"
  /\ UNCHANGED <<sess, initBy, conn, rx, disk, faults>>

RejectServer(o) ==
  /\ phase = "down"
  /\ ~OutputStateValid(o)
  /\ outcome' = "rejected"
  /\ resp' = [s \in Streams |-> NoReply]
  /\ final' = [s \in Streams |-> "none"]
  /\ UNCHANGED <<process, disk, faults>>

Accept(s) ==
  /\ phase = "serving"
  /\ ~conn[s].open
  /\ conn' = [conn EXCEPT ![s].open = TRUE]
  /\ UNCHANGED <<phase, opts, sess, initBy, rx, replies, disk, faults>>

(* epoll_wait, accept4 or epoll_ctl fails: no Error frame is sent. *)
LoopFails ==
  /\ phase = "serving"
  /\ Fault
  /\ phase' = "failing"
  /\ UNCHANGED <<opts, sess, initBy, conn, rx, replies, disk>>

-----------------------------------------------------------------------------
(* SessionInit *)

(* sendResumeResponse: the missing ranges, unless they do not fit.  A peer   *)
(* that is gone when it is sent is found by ConnectionFails.                 *)
ResponseFits == MissingRunCount(sess.records) <= MaxRanges

Respond(s) ==
  /\ ResponseFits
  /\ resp' = [resp EXCEPT ![s] = [known |-> TRUE, missing |-> Missing(sess.records)]]
  /\ conn' = [conn EXCEPT ![s].ready = TRUE]
  /\ Continue("serving")

RespondFails == ~ResponseFits /\ Abort /\ UNCHANGED <<resp, conn>>

InitAcceptable(init) ==
  /\ init.resume = opts.resume
  /\ init.id \in opts.ids
  /\ IF sess.open
       THEN init.id = sess.id /\ init.agrees
       ELSE init.resume => LoadedManifestValid(manifest, init.id, init.agrees)

Receiving(s) == phase = "serving" /\ conn[s].open /\ ~conn[s].fin

InitRejected(s, init) ==
  /\ Receiving(s)
  /\ ~InitAcceptable(init)
  /\ Abort
  /\ UNCHANGED <<opts, sess, initBy, conn, rx, resp, outcome, disk, faults>>

InitJoins(s, init) ==
  /\ Receiving(s)
  /\ InitAcceptable(init)
  /\ sess.open
  /\ Respond(s) \/ RespondFails
  /\ UNCHANGED <<opts, sess, initBy, rx, outcome, disk, faults>>

InitOpens(s, init) ==
  /\ Receiving(s)
  /\ InitAcceptable(init)
  /\ ~sess.open
  /\ sess' = IF init.resume THEN Resume(manifest) ELSE CreateNew(init.id)
  /\ phase' = "open"
  /\ initBy' = s
  /\ UNCHANGED <<opts, conn, rx, replies, disk, faults>>

RecvInit(s, init) == InitRejected(s, init) \/ InitJoins(s, init) \/ InitOpens(s, init)

(* openOutputForSession.  A resume needs the temp file; a new session       *)
(* creates it (O_EXCL) and sizes it, and leaves it behind when sizing fails. *)
CreateTemp == temp' = [temp EXCEPT ![sess.id] = EmptyImage]

OpenOutput ==
  /\ phase = "open"
  /\ LET exists == temp[sess.id] # NoFile
     IN \/ opts.resume /\ exists /\ Continue("precheck") /\ UNCHANGED <<temp, faults>>
        \/ ~opts.resume /\ ~exists /\ CreateTemp /\ Continue("save") /\ UNCHANGED faults
        \/ opts.resume # exists /\ Abort /\ UNCHANGED <<temp, faults>>
        \/ Fault /\ Abort /\ UNCHANGED temp
        \/ Fault /\ ~opts.resume /\ ~exists /\ CreateTemp /\ Abort
  /\ UNCHANGED <<opts, sess, initBy, conn, rx, resp, outcome, output, manifest>>

(* verifyTempChunks: it saves when it dropped a record, because the chunk   *)
(* is corrupt or could not be read.                                         *)
VerifyTemp(next) ==
  LET corrupt == CorruptRecords(sess, temp[sess.id])
      kept    == DropRecords(sess, corrupt)
  IN \/ corrupt = {} /\ UNCHANGED <<sess, manifest, faults>> /\ next
     \/ corrupt # {} /\ Save(kept, "Transferring") /\ next
     \/ corrupt # {} /\ SaveFails(kept) /\ Abort
     \/ \E c \in Recorded(sess.records) \ corrupt :
          LET readable == DropRecords(sess, corrupt \cup {c})
          IN /\ Fault
             /\ manifest' = ManifestOf(readable, "Transferring")
             /\ sess' = Saved(readable)
             /\ next

Precheck ==
  /\ phase = "precheck"
  /\ VerifyTemp(Continue("save"))
  /\ UNCHANGED <<opts, initBy, conn, rx, resp, outcome, output, temp>>

SaveInit ==
  /\ phase = "save"
  /\ \/ Save(sess, "Transferring") /\ (Respond(initBy) \/ RespondFails)
     \/ SaveFails(sess) /\ Abort /\ UNCHANGED <<conn, resp>>
  /\ UNCHANGED <<opts, initBy, rx, outcome, output, temp>>

-----------------------------------------------------------------------------
(* DATA, ChunkComplete, FIN *)

(* Blocks lo .. hi-1 of a connection reach the temp file. *)
Overlay(image, acc, lo, hi) ==
  [p \in Positions |-> IF lo <= p /\ p < hi THEN acc[p] ELSE image[p]]

Write(acc, lo, hi) ==
  temp' = [temp EXCEPT ![sess.id] = Overlay(temp[sess.id], acc, lo, hi)]

(* processDataPayload: the first DATA frame after a chunk starts the next,  *)
(* at whatever offset it names: the plan is checked by ChunkComplete only.  *)
Current(s, c, p) ==
  IF rx[s].active THEN rx[s] ELSE Chunk(TRUE, c, p, p, p, EmptyImage)

DataAcceptable(s, c, p) ==
  conn[s].ready /\ Current(s, c, p).chunk = c /\ Current(s, c, p).next = p

(* The buffered writer keeps the new block, or flushes what it held before  *)
(* it, or flushes all: which of them depends on the buffer size.            *)
AcceptData(s, c, p, v) ==
  LET k   == Current(s, c, p)
      acc == [k.acc EXCEPT ![p] = v]
  IN /\ Receiving(s)
     /\ DataAcceptable(s, c, p)
     /\ \E f \in {k.flushed, p, p + 1} :
          /\ rx' = [rx EXCEPT ![s] = Chunk(TRUE, c, k.start, p + 1, f, acc)]
          /\ Write(acc, k.flushed, f)
     /\ UNCHANGED <<phase, opts, sess, initBy, conn, replies, output, manifest, faults>>

(* Not contiguous, or before the SessionInit. *)
RefuseData(s, c, p) ==
  /\ Receiving(s)
  /\ ~DataAcceptable(s, c, p)
  /\ Abort
  /\ UNCHANGED <<opts, sess, initBy, conn, rx, resp, outcome, disk, faults>>

RecvData(s, c, p, v) == AcceptData(s, c, p, v) \/ RefuseData(s, c, p)

(* A write of buffered blocks fails; some of them may have been written. *)
WriteFails(s) ==
  /\ Receiving(s)
  /\ rx[s].active
  /\ Fault
  /\ \E hi \in rx[s].flushed .. rx[s].next : Write(rx[s].acc, rx[s].flushed, hi)
  /\ Abort
  /\ UNCHANGED <<opts, sess, initBy, conn, rx, resp, outcome, output, manifest>>

(* processChunkCompletePayload: the frame must describe what was received   *)
(* on this connection, and that must be the whole of chunk c of the plan.   *)
MatchesActive(s, c) ==
  /\ conn[s].ready /\ rx[s].active
  /\ rx[s].chunk = c
  /\ ChunkRange(c) = rx[s].start .. rx[s].next - 1

RefuseChunk(s, c) ==
  /\ Receiving(s)
  /\ ~MatchesActive(s, c)
  /\ Abort
  /\ UNCHANGED <<opts, sess, initBy, conn, rx, resp, outcome, disk, faults>>

(* Fault variant: the chunk is recorded while blocks are still buffered. *)
FlushChunkLater(s) == Write(rx[s].acc, rx[s].flushed, rx[s].flushed)

(* The writer is flushed before the checksum is compared and recorded. *)
FlushChunk(s) == Write(rx[s].acc, rx[s].flushed, rx[s].next)

ChunkVerified(s, c, sum) ==
  ChunkSum(rx[s].acc, c) = sum /\ RecordAccepted(sess, c, sum)

RejectChunk(s, c, sum) ==
  /\ Receiving(s)
  /\ MatchesActive(s, c)
  /\ FlushChunk(s)
  /\ ~ChunkVerified(s, c, sum)
  /\ Abort
  /\ UNCHANGED <<opts, sess, initBy, conn, rx, resp, outcome, output, manifest, faults>>

RecordChunk(s, c, sum) ==
  LET after == RecordVerifiedChunk(sess, c, sum)
      due   == FlushDue(sess, after)
      Done  == rx' = [rx EXCEPT ![s] = NoChunk] /\ UNCHANGED <<phase, final>>
  IN /\ Receiving(s)
     /\ MatchesActive(s, c)
     /\ FlushChunk(s)
     /\ ChunkVerified(s, c, sum)
     /\ \/ ~due /\ sess' = after /\ Done /\ UNCHANGED <<manifest, faults>>
        \/ due /\ Save(after, "Transferring") /\ Done
        \/ due /\ SaveFails(after) /\ Abort /\ UNCHANGED rx
     /\ UNCHANGED <<opts, initBy, conn, resp, outcome, output>>

RecvChunkComplete(s, c, sum) ==
  RefuseChunk(s, c) \/ RejectChunk(s, c, sum) \/ RecordChunk(s, c, sum)

(* Fault variant: FIN is accepted in the middle of a chunk. *)
RecvFinInChunk(s) ==
  /\ Receiving(s)
  /\ IF conn[s].ready
       THEN conn' = [conn EXCEPT ![s].fin = TRUE] /\ UNCHANGED <<phase, final>>
       ELSE Abort /\ UNCHANGED conn
  /\ UNCHANGED <<opts, sess, initBy, rx, resp, outcome, disk, faults>>

RecvFin(s) ==
  /\ Receiving(s)
  /\ IF conn[s].ready /\ ~rx[s].active
       THEN conn' = [conn EXCEPT ![s].fin = TRUE] /\ UNCHANGED <<phase, final>>
       ELSE Abort /\ UNCHANGED conn
  /\ UNCHANGED <<opts, sess, initBy, rx, resp, outcome, disk, faults>>

(* Fault variant: the end of a stream before its FIN is overlooked. *)
ConnectionEndOverlooked(s) == Receiving(s) /\ UNCHANGED vars

(* The peer closed before FIN, or sent a frame that no handler accepts: a   *)
(* bad header, another connection's stream id, a server-only type.  After   *)
(* FIN the connection is no longer read.                                    *)
ConnectionFails(s) ==
  /\ Receiving(s)
  /\ Abort
  /\ UNCHANGED <<opts, sess, initBy, conn, rx, resp, outcome, disk, faults>>

-----------------------------------------------------------------------------
(* Commit *)

AllFin ==
  /\ phase = "serving"
  /\ \A s \in Streams : conn[s].fin
  /\ IF Missing(sess.records) = {} THEN Continue("finalVerify") ELSE Abort
  /\ UNCHANGED <<opts, sess, initBy, conn, rx, resp, outcome, disk, faults>>

(* flushManifest on the way to the commit. *)
FlushManifestThen(next) ==
  \/ Save(sess, "Transferring") /\ Continue(next)
  \/ SaveFails(sess) /\ Abort

SkipVerify ==
  /\ phase = "finalVerify"
  /\ MaySkipFinalVerify(sess)
  /\ FlushManifestThen("flush")
  /\ UNCHANGED <<opts, initBy, conn, rx, resp, outcome, output, temp>>

(* A record dropped by the final verification leaves a missing range. *)
FullVerify ==
  /\ phase = "finalVerify"
  /\ ~MaySkipFinalVerify(sess)
  /\ VerifyTemp(IF Missing(sess'.records) = {} THEN Continue("flush") ELSE Abort)
  /\ UNCHANGED <<opts, initBy, conn, rx, resp, outcome, output, temp>>

(* Fault variant: the manifest already says Committed before the rename. *)
FlushManifestAsCommitted ==
  /\ phase = "flush"
  /\ \/ Save(sess, "Committed") /\ Continue("exists")
     \/ SaveFails(sess) /\ Abort
  /\ UNCHANGED <<opts, initBy, conn, rx, resp, outcome, output, temp>>

FlushManifest ==
  /\ phase = "flush"
  /\ FlushManifestThen("exists")
  /\ UNCHANGED <<opts, initBy, conn, rx, resp, outcome, output, temp>>

CheckOutput ==
  /\ phase = "exists"
  /\ IF output # NoFile /\ ~opts.overwrite THEN Abort ELSE Continue("rename")
  /\ UNCHANGED <<opts, sess, initBy, conn, rx, resp, outcome, disk, faults>>

RenameToOutput ==
  /\ phase = "rename"
  /\ \/ /\ output' = temp[sess.id]
        /\ temp' = [temp EXCEPT ![sess.id] = NoFile]
        /\ Continue("sync")
        /\ UNCHANGED faults
     \/ Fault /\ Abort /\ UNCHANGED <<output, temp>>
  /\ UNCHANGED <<opts, sess, initBy, conn, rx, resp, outcome, manifest>>

(* applyCommitSyncPolicy: an fsync error aborts although the rename is done. *)
SyncOutput ==
  /\ phase = "sync"
  /\ \/ Continue("markCommitted") /\ UNCHANGED faults
     \/ Fault /\ Abort
  /\ UNCHANGED <<opts, sess, initBy, conn, rx, resp, outcome, disk>>

(* Fault variant: a failing save of the Committed state is ignored. *)
MarkCommittedBestEffort ==
  /\ phase = "markCommitted"
  /\ \/ Save(sess, "Committed") /\ Continue("complete") /\ UNCHANGED <<conn, rx, outcome>>
     \/ SaveFails(sess) /\ Continue("complete") /\ UNCHANGED <<conn, rx, outcome>>
  /\ UNCHANGED <<opts, initBy, resp, output, temp>>

(* A failing save here returns without marking the manifest Failed. *)
MarkCommitted ==
  /\ phase = "markCommitted"
  /\ \/ Save(sess, "Committed") /\ Continue("complete") /\ UNCHANGED <<conn, rx, outcome>>
     \/ Fault /\ Exit("failed") /\ final' = FrameToAll("Error") /\ UNCHANGED manifest
  /\ UNCHANGED <<opts, initBy, resp, output, temp>>

(* COMPLETE to every connection; `ok` is whether every send succeeded. *)
SendComplete(ok) ==
  /\ phase = "complete"
  /\ final' = FrameToAll("Complete")
  /\ Exit(IF ok THEN "ok" ELSE "failed")
  /\ UNCHANGED <<opts, initBy, resp, disk, faults>>

(* Fault variant: the temp file is cleaned up after a failure. *)
MarkFailedAndRemoveTemp ==
  /\ phase = "failing"
  /\ \/ ~sess.open /\ UNCHANGED <<temp, manifest, faults>>
     \/ /\ sess.open
        /\ manifest' = ManifestOf(sess, "Failed")
        /\ temp' = [temp EXCEPT ![sess.id] = NoFile]
        /\ UNCHANGED faults
  /\ Exit("failed")
  /\ UNCHANGED <<opts, initBy, resp, final, output>>

MarkFailedBestEffort ==
  /\ phase = "failing"
  /\ \/ ~sess.open /\ UNCHANGED <<manifest, faults>>
     \/ sess.open /\ manifest' = ManifestOf(sess, "Failed") /\ UNCHANGED faults
     \/ sess.open /\ Fault /\ UNCHANGED manifest
  /\ Exit("failed")
  /\ UNCHANGED <<opts, initBy, resp, final, output, temp>>

-----------------------------------------------------------------------------
(* Environment *)

Kill ==
  /\ phase # "down"
  /\ Fault
  /\ Exit("killed")
  /\ UNCHANGED <<opts, initBy, resp, final, disk>>

(* A block of a temp file decays. *)
TempDecays(i, p, v) ==
  /\ phase \in DecayPhases
  /\ temp[i] # NoFile
  /\ Fault
  /\ temp' = [temp EXCEPT ![i] = [@ EXCEPT ![p] = v]]
  /\ UNCHANGED <<process, replies, output, manifest>>

Start == \E o \in Options : StartServer(o) \/ RejectServer(o)

Receive(s) ==
  \/ \E init \in Inits : RecvInit(s, init)
  \/ \E c \in Chunks, p \in Positions, v \in Content : RecvData(s, c, p, v)
  \/ \E c \in Chunks : \E sum \in Sums(c) : RecvChunkComplete(s, c, sum)
  \/ RecvFin(s)
  \/ ConnectionFails(s)

ServerStep ==
  \/ OpenOutput \/ Precheck \/ SaveInit
  \/ AllFin \/ SkipVerify \/ FullVerify \/ FlushManifest \/ CheckOutput
  \/ RenameToOutput \/ SyncOutput \/ MarkCommitted \/ MarkFailedBestEffort

Environment ==
  \/ Kill
  \/ LoopFails
  \/ \E s \in Streams : WriteFails(s)
  \/ \E i \in Ids, p \in Positions, v \in Content : TempDecays(i, p, v)

Next ==
  \/ Start
  \/ \E s \in Streams : Accept(s) \/ Receive(s)
  \/ ServerStep
  \/ \E ok \in BOOLEAN : SendComplete(ok)
  \/ Environment

Spec == Init /\ [][Next]_vars

-----------------------------------------------------------------------------
(* Properties *)

(* Type correctness of the receiver's state; a connection never has more    *)
(* blocks in the temp file than it received, nor receives past total_size.  *)
TypeOK ==
  /\ phase \in Phases
  /\ opts \in Options
  /\ sess \in Sessions
  /\ initBy \in Streams
  /\ conn \in [Streams -> Conns]
  /\ rx \in [Streams -> InChunk]
  /\ resp \in [Streams -> [known : BOOLEAN, missing : SUBSET Chunks]]
  /\ final \in [Streams -> {"none", "Error", "Complete"}]
  /\ outcome \in {"none", "ok", "failed", "killed", "rejected"}
  /\ output \in Image \cup {NoFile}
  /\ temp \in [Ids -> Image \cup {NoFile}]
  /\ manifest \in Manifests
  /\ faults \in Nat
  /\ \A s \in Streams : /\ rx[s].start <= rx[s].flushed
                         /\ rx[s].flushed <= rx[s].next
                         /\ rx[s].next <= TotalBlocks

Committed == manifest.state = "Committed"
Matches(image, records) ==
  image # NoFile /\ \A c \in Chunks : records[c] = ChunkSum(image, c)

(* A manifest that says Committed (markCommitted) has a verified record for *)
(* every chunk, and the file at the output path has those checksums: after  *)
(* any history of kills, resumes, I/O errors, duplicate or interleaved      *)
(* chunks, and whether or not the final verification was skipped.           *)
Integrity == Committed => Matches(output, manifest.records)

(* The rename publishes a file whose every chunk has the checksum recorded  *)
(* for it, and replaces an existing file only under --overwrite.  Nothing   *)
(* else ever changes the output.                                            *)
PublishesVerifiedOnly ==
  [][output' # output => /\ output = NoFile \/ opts.overwrite
                         /\ Matches(output', sess.records)]_vars

(* A committed transfer is never touched again: no resume, no late error    *)
(* path (markFailedBestEffort) and no new session changes its manifest or   *)
(* its output.                                                              *)
CommittedIsFinal == [][Committed => UNCHANGED <<output, manifest>>]_vars

(* From the first manifest on, an output path belongs to one transfer id:   *)
(* no server (validateServerOutputState, validateLoadedManifest) replaces   *)
(* the progress of one transfer by that of another.                         *)
OneTransferPerOutput ==
  [][manifest.state # "Absent" => manifest'.state # "Absent" /\ manifest'.id = manifest.id]_vars

(* COMPLETE is sent, and success reported, only once the manifest says      *)
(* Committed.                                                               *)
AckAfterCommit ==
  outcome = "ok" \/ (\E s \in Streams : final[s] = "Complete") => Committed

Flushed(s) == {p \in Positions : rx[s].active /\ rx[s].start <= p /\ p < rx[s].flushed}

(* Block p of the temp file was last written by a stream that is still in   *)
(* the middle of its chunk.                                                 *)
InFlight(p) == \E s \in Streams : p \in Flushed(s) /\ temp[sess.id][p] = rx[s].acc[p]

(* While data is received, every chunk recorded as verified is intact in    *)
(* the temp file, except for blocks a stream is writing again and has not   *)
(* completed: what ResumeResponse told a sender to skip need not be sent.   *)
VerifiedChunksIntact ==
  phase = "serving" /\ sess.open /\ "serving" \notin DecayPhases =>
    \A c \in Recorded(sess.records) : \A p \in ChunkRange(c) :
      temp[sess.id][p] = sess.records[c][p] \/ InFlight(p)

(* When the final verification may be skipped (verified_chunks policy), it  *)
(* would not have found a single corrupt chunk.                             *)
SkipIsSound ==
  phase = "finalVerify" /\ MaySkipFinalVerify(sess)
    => CorruptRecords(sess, temp[sess.id]) = {}

(* The manifest on disk never claims a chunk the session has not verified,  *)
(* and is behind the session by less than one flush interval: that is all   *)
(* the verified work a kill can cost.                                       *)
BoundedLoss ==
  phase = "serving" /\ sess.open =>
    /\ \A c \in Chunks : manifest.records[c] \in {NoRecord, sess.records[c]}
    /\ FlushPolicy = "every_n_chunks" =>
         Cardinality({c \in Chunks : manifest.records[c] # sess.records[c]}) < FlushInterval

(* The pieces of the inductive invariant.                                   *)
(* Connections: a chunk is received only between SessionInit and FIN, and   *)
(* no connection is ready before the session is open.                       *)
ConnInv ==
  /\ phase = "down" => ~sess.open
  /\ phase \in {"open", "precheck", "save"} => conn[initBy].open
  /\ \A s \in Streams :
       /\ phase = "down" => ~conn[s].open
       /\ rx[s].active => conn[s].ready /\ ~conn[s].fin
       /\ conn[s].fin => conn[s].ready
       /\ conn[s].ready => conn[s].open /\ sess.open
       /\ phase \in {"open", "precheck", "save"} => ~conn[s].ready

Committing == {"finalVerify", "flush", "exists", "rename", "sync", "markCommitted", "complete"}

(* Phases: which of them have an open session, a temp file, all FINs, and a *)
(* manifest that may say Committed.                                         *)
PhaseInv ==
  /\ phase \in Committing => \A s \in Streams : conn[s].fin
  /\ phase \in Committing \cup {"open", "precheck", "save"} => sess.open
  /\ sess.open /\ phase \in {"serving", "precheck", "save", "finalVerify", "flush", "exists", "rename"}
       => temp[sess.id] # NoFile
  /\ sess.open /\ phase # "complete" => ~Committed
  /\ phase = "complete" => Committed
  /\ phase # "down" /\ ~sess.open => (opts.resume <=> manifest.state # "Absent")
  /\ phase = "rename" => output = NoFile \/ opts.overwrite

(* A block that a stream in the middle of a chunk put into the temp file is *)
(* accounted for: some such stream wrote what is there now, or the chunk it *)
(* belongs to is recorded.                                                  *)
FlushedBlocksInv ==
  phase = "serving" /\ sess.open /\ "serving" \notin DecayPhases =>
    \A s \in Streams : \A p \in Flushed(s) :
      InFlight(p) \/ sess.records[p \div ChunkBlocks] # NoRecord

(* What verification established on the way to the commit. *)
VerifiedInv ==
  /\ phase = "open" /\ ~opts.resume => sess.records = NoRecords
  /\ phase = "save" => CorruptRecords(sess, temp[sess.id]) = {}
  /\ phase = "finalVerify" => Missing(sess.records) = {}
  /\ phase = "finalVerify" /\ "serving" \notin DecayPhases => CorruptRecords(sess, temp[sess.id]) = {}
  /\ phase \in {"flush", "exists", "rename"} => Matches(temp[sess.id], sess.records)
  /\ phase \in {"sync", "markCommitted"} => Matches(output, sess.records)

(* Integrity made inductive: the state of every step between a DATA frame   *)
(* and markCommitted that the final claim rests on.                         *)
InductiveInv ==
  /\ TypeOK
  /\ ConnInv
  /\ PhaseInv
  /\ VerifiedChunksIntact
  /\ FlushedBlocksInv
  /\ VerifiedInv
  /\ Integrity
  /\ AckAfterCommit

Stuck == manifest.state \in {"Transferring", "Failed"} /\ temp[manifest.id] = NoFile

(* A transfer whose temp file is gone, which no server will accept again,   *)
(* lost nothing: either no chunk of it was ever verified or the output      *)
(* already holds all of it.                                                 *)
StuckLosesNothing ==
  phase = "down" /\ Stuck =>
    manifest.records = NoRecords \/ Matches(output, manifest.records)

(* A killed server can be followed by one that takes the transfer up again. *)
(* docs/ENGINEERING.md:230 asks for this at any moment.                     *)
KillIsRecoverable == phase = "down" /\ outcome = "killed" => ~Stuck
=============================================================================
