--------------------------- MODULE TransferSession ---------------------------
(***************************************************************************)
(* The receiver's transfer session: the in-memory record of which chunks   *)
(* are verified (core/session/transfer_session.cpp) and the manifest file  *)
(* it is saved to (checkpoint/manifest_store.cpp).  This module holds the  *)
(* session's data and the pure part of its operations; StorReceiver turns  *)
(* them into steps that touch the disk.                                    *)
(*                                                                         *)
(* Bytes are abstracted to blocks: one block is the payload of one DATA    *)
(* frame, a file is TotalBlocks blocks, a chunk of the plan ChunkBlocks of *)
(* them (the last chunk may be shorter).  CRC32C is taken to be collision  *)
(* free, so the checksum of a chunk is the content of its blocks.  The     *)
(* completed range list is the set of recorded chunks: RangeList shows     *)
(* that the list and the set of bytes it stands for agree.                 *)
(***************************************************************************)
EXTENDS Integers, FiniteSets

CONSTANTS
  Ids,            \* transfer ids
  TotalBlocks,    \* total_size, in blocks
  ChunkBlocks,    \* chunk_size, in blocks
  Content,        \* what a block may hold
  Zero,           \* what a block of a fresh temp file holds
  NoRecord,       \* "no verified chunk record"
  NoFile,         \* "no such file"
  FlushPolicy,    \* manifest_flush_policy
  FlushInterval,  \* manifest_flush_interval_chunks
  FinalVerify     \* final_verify_policy

Positions == 0 .. TotalBlocks - 1
Image == [Positions -> Content]
EmptyImage == [p \in Positions |-> Zero]

(* The plan of planChunks: chunk c is the blocks with p \div chunk_size = c. *)
Chunks == {p \div ChunkBlocks : p \in Positions}
ChunkRange(c) == {p \in Positions : p \div ChunkBlocks = c}

(* ChecksumComputer over the blocks of one chunk. *)
Sums(c) == [ChunkRange(c) -> Content]
ChunkSum(image, c) == [p \in ChunkRange(c) |-> image[p]]

ASSUME SessionAssumption ==
  /\ Ids # {}
  /\ TotalBlocks \in Nat
  /\ ChunkBlocks \in Nat \ {0}
  /\ Zero \in Content
  /\ \A c \in Chunks : NoRecord \notin Sums(c)
  /\ NoFile \notin Image
  /\ FlushPolicy \in {"every_n_chunks", "final_only"}
  /\ FlushInterval \in Nat \ {0}
  /\ FinalVerify \in {"full", "verified_chunks"}

(* verifiedChunks: for every chunk of the plan its checksum, or NoRecord. *)
AnySum == UNION {Sums(c) : c \in Chunks}
Records == {r \in [Chunks -> AnySum \cup {NoRecord}] :
              \A c \in Chunks : r[c] \in Sums(c) \cup {NoRecord}}
NoRecords == [c \in Chunks |-> NoRecord]
Recorded(records) == {c \in Chunks : records[c] # NoRecord}
Missing(records) == {c \in Chunks : records[c] = NoRecord}

(* Number of maximal runs of missing chunks: the entries of missingRanges. *)
MissingRunCount(records) ==
  Cardinality({c \in Missing(records) : c - 1 \notin Missing(records)})

(* The manifest file.  `Absent` stands for "no file at the manifest path". *)
ManifestStates == {"Absent", "Transferring", "Failed", "Committed"}
Manifests == [state : ManifestStates, id : Ids, records : Records]
AnyId == CHOOSE i \in Ids : TRUE
NoManifest == [state |-> "Absent", id |-> AnyId, records |-> NoRecords]

(* The session object.  `open` is TransferState::hasSession, `loaded` and   *)
(* `removed` say whether loadedVerifiedChunks and removedCorruptChunks are  *)
(* non-zero, `dirty` is dirtyVerifiedChunks_.                               *)
Sessions == [open : BOOLEAN, id : Ids, records : Records,
             dirty : Nat, loaded : BOOLEAN, removed : BOOLEAN]

CreateNew(id) ==
  [open |-> TRUE, id |-> id, records |-> NoRecords,
   dirty |-> 0, loaded |-> FALSE, removed |-> FALSE]

NoSession == [CreateNew(AnyId) EXCEPT !.open = FALSE]

(* Fault variant: a committed transfer may be resumed. *)
LoadedManifestValidWhateverState(m, id, agrees) ==
  m.state # "Absent" /\ m.id = id /\ agrees

(* validateLoadedManifest.  `agrees` stands for the tests on total_size,    *)
(* chunk_size, checksum algorithm, version and paths.                       *)
LoadedManifestValid(m, id, agrees) ==
  /\ m.state # "Absent"
  /\ m.id = id
  /\ agrees
  /\ m.state # "Committed"

Resume(m) ==
  [open |-> TRUE, id |-> m.id, records |-> m.records,
   dirty |-> 0, loaded |-> Recorded(m.records) # {}, removed |-> FALSE]

(* What save() writes when the session's state is `state`. *)
ManifestOf(session, state) ==
  [state |-> state, id |-> session.id, records |-> session.records]

Saved(session) == [session EXCEPT !.dirty = 0]

(* Fault variant: the newer of two different records of a chunk wins. *)
RecordAlwaysAccepted(session, c, sum) == TRUE

(* recordVerifiedChunk: a second record of a chunk must equal the first ... *)
RecordAccepted(session, c, sum) == session.records[c] \in {NoRecord, sum}

(* ... and is then dropped; a first record is added.                        *)
RecordVerifiedChunk(session, c, sum) ==
  IF session.records[c] = sum
    THEN session
    ELSE [session EXCEPT !.records = [@ EXCEPT ![c] = sum], !.dirty = @ + 1]

(* Fault variant: the flush comes one chunk late. *)
FlushDueLate(before, after) ==
  /\ after.dirty > before.dirty
  /\ FlushPolicy = "every_n_chunks"
  /\ after.dirty > FlushInterval

FlushDue(before, after) ==
  /\ after.dirty > before.dirty
  /\ FlushPolicy = "every_n_chunks"
  /\ after.dirty >= FlushInterval

(* Fault variant: the checksums are not compared. *)
NoRecordCorrupt(session, image) == {}

(* verifyTempChunks: the records whose checksum no longer matches the temp  *)
(* file are dropped, and those whose chunk cannot be read.                  *)
CorruptRecords(session, image) ==
  {c \in Recorded(session.records) : ChunkSum(image, c) # session.records[c]}

DropRecords(session, dropped) ==
  [session EXCEPT
     !.records = [c \in Chunks |-> IF c \in dropped THEN NoRecord ELSE @[c]],
     !.removed = @ \/ dropped # {}]

(* canUseCurrentSessionVerifiedChunksFinalVerify *)
MaySkipFinalVerify(session) ==
  /\ FinalVerify = "verified_chunks"
  /\ Missing(session.records) = {}
  /\ ~session.loaded
  /\ ~session.removed
=============================================================================
