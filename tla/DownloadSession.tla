--------------------------- MODULE DownloadSession ---------------------------
(***************************************************************************)
(* The download session (core/session/download_session.cpp) and the        *)
(* manifest file it is saved to (checkpoint/download_manifest.cpp): the    *)
(* data and the pure part of its operations.  RetrReceiver turns them into *)
(* steps that touch the disk.                                              *)
(*                                                                         *)
(* Unlike the upload session it is never told the chunk plan: a verified   *)
(* chunk is any range of the file that does not overlap another one.  As   *)
(* in TransferSession a block is the payload of one DATA frame, and the    *)
(* checksum of a range is the content of its blocks.                       *)
(***************************************************************************)
EXTENDS Integers, FiniteSets

CONSTANTS
  Ids,            \* transfer ids
  TotalBlocks,    \* total_size, in blocks
  ChunkIds,       \* chunk ids a frame may carry
  Content,        \* what a block may hold
  Zero,           \* what a block of a fresh temp file holds
  NoFile,         \* "no such file"
  FlushPolicy,    \* manifest_flush_policy
  FlushInterval,  \* manifest_flush_interval_chunks
  FinalVerify     \* final_verify_policy

Positions == 0 .. TotalBlocks - 1
Image == [Positions -> Content]
EmptyImage == [p \in Positions |-> Zero]

ASSUME DownloadAssumption ==
  /\ Ids # {}
  /\ TotalBlocks \in Nat
  /\ ChunkIds \subseteq Nat
  /\ Zero \in Content
  /\ NoFile \notin Image
  /\ FlushPolicy \in {"every_n_chunks", "final_only"}
  /\ FlushInterval \in Nat \ {0}
  /\ FinalVerify \in {"full", "verified_chunks"}

(* ChecksumComputer over blocks lo .. hi-1. *)
SumOf(image, lo, hi) == [p \in lo .. hi - 1 |-> image[p]]
Sums(lo, hi) == [lo .. hi - 1 -> Content]

(* A ChunkChecksumRecord: its id, its range and the checksum of the range. *)
ChunkRecord(c, lo, hi, sum) == [chunk |-> c, begin |-> lo, end |-> hi, sum |-> sum]
AnySum == UNION {Sums(lo, hi) : lo \in Positions, hi \in 1 .. TotalBlocks}
ChunkRecords ==
  {r \in [chunk : ChunkIds, begin : Positions, end : 1 .. TotalBlocks, sum : AnySum] :
     r.begin < r.end /\ r.sum \in Sums(r.begin, r.end)}

Blocks(r) == r.begin .. r.end - 1
Covered(records) == UNION {Blocks(r) : r \in records}
Missing(records) == Positions \ Covered(records)

(* Number of maximal runs of missing blocks: the entries of missingRanges. *)
MissingRunCount(records) ==
  Cardinality({p \in Missing(records) : p - 1 \notin Missing(records)})

(* The manifest file.  `Absent` stands for "no file at the manifest path". *)
ManifestStates == {"Absent", "Transferring", "Failed", "Committed"}
Manifests == [state : ManifestStates, id : Ids, records : SUBSET ChunkRecords]
AnyId == CHOOSE i \in Ids : TRUE
NoManifest == [state |-> "Absent", id |-> AnyId, records |-> {}]

(* The session object.  `ready` is SharedDownloadState::sessionReady,       *)
(* `loaded` and `removed` say whether loadedVerifiedChunks and              *)
(* removedCorruptChunks are non-zero, `dirty` is dirtyVerifiedChunks_.      *)
Sessions == [ready : BOOLEAN, id : Ids, records : SUBSET ChunkRecords,
             dirty : Nat, loaded : BOOLEAN, removed : BOOLEAN]

CreateNew(id) ==
  [ready |-> FALSE, id |-> id, records |-> {},
   dirty |-> 0, loaded |-> FALSE, removed |-> FALSE]

NoSession == CreateNew(AnyId)

(* Fault variant: a download marked Failed is not resumed. *)
LoadedManifestValidUnlessFailed(m, id, agrees) ==
  m.state = "Transferring" /\ m.id = id /\ agrees

(* validateLoadedManifest.  `agrees` stands for the tests on source path,   *)
(* total_size, chunk_size, checksum algorithm and paths.                    *)
LoadedManifestValid(m, id, agrees) ==
  /\ m.state # "Absent"
  /\ m.id = id
  /\ agrees
  /\ m.state # "Committed"

Resume(m) ==
  [ready |-> FALSE, id |-> m.id, records |-> m.records,
   dirty |-> 0, loaded |-> m.records # {}, removed |-> FALSE]

(* What save() writes when the session's state is `state`. *)
ManifestOf(session, state) ==
  [state |-> state, id |-> session.id, records |-> session.records]

Saved(session) == [session EXCEPT !.dirty = 0]

(* recordVerifiedChunk: a record with the same id or offset must be the     *)
(* same record; a new range must not overlap a completed one.               *)
SameIdentity(r, t) == r.begin = t.begin \/ r.chunk = t.chunk

(* Fault variant: overlapping ranges are merged instead of refused. *)
RecordAcceptedIfNewIdentity(session, r) ==
  r \in session.records \/ \A t \in session.records : ~SameIdentity(r, t)

RecordAccepted(session, r) ==
  \/ r \in session.records
  \/ \A t \in session.records : ~SameIdentity(r, t) /\ Blocks(r) \cap Blocks(t) = {}

RecordVerifiedChunk(session, r) ==
  IF r \in session.records
    THEN session
    ELSE [session EXCEPT !.records = @ \cup {r}, !.dirty = @ + 1]

(* Fault variant: only the chunk that completes an interval is flushed. *)
FlushDueOnce(before, after) ==
  /\ after.dirty > before.dirty
  /\ FlushPolicy = "every_n_chunks"
  /\ after.dirty = FlushInterval

FlushDue(before, after) ==
  /\ after.dirty > before.dirty
  /\ FlushPolicy = "every_n_chunks"
  /\ after.dirty >= FlushInterval

(* verifyTempChunks: the records whose range no longer has their checksum.  *)
CorruptRecords(session, image) ==
  {r \in session.records : SumOf(image, r.begin, r.end) # r.sum}

(* Fault variant: one corrupt chunk clears the whole list. *)
DropAllRecords(session, dropped) ==
  [session EXCEPT !.records = IF dropped = {} THEN @ ELSE {}, !.removed = @ \/ dropped # {}]

DropRecords(session, dropped) ==
  [session EXCEPT !.records = @ \ dropped, !.removed = @ \/ dropped # {}]

(* canUseCurrentSessionVerifiedChunksFinalVerify *)
MaySkipFinalVerify(session) ==
  /\ FinalVerify = "verified_chunks"
  /\ Missing(session.records) = {}
  /\ ~session.loaded
  /\ ~session.removed
=============================================================================
