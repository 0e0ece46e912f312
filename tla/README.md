# GridFlux: TLA+ models of the transfer engine and its tools

GridFlux moves files over several TCP connections at once, in checksummed chunks,
with a manifest beside the output from which an interrupted transfer is resumed.
Two things are modelled here. First the part on which every other part rests: the
upload and the download of one file, both sides of each, with their sessions and
manifests, and the completed range list. Second the Python programs that decide whether
a version is released and what its figures are: the release gates and candidates of
tools/release/, which run one another and publish reports, and the benchmark matrices and
campaigns of tools/perf/, which start servers and clients on two machines. TLC checks the
models on small instances; TLAPS proves, for every instance, every safety property that
the passing runs check.

Paths below are relative to the repository root (`src/core/...`, `docs/...`).

## 1. The system

| Component | State it keeps | Operations | Hard parts |
|---|---|---|---|
| Upload receiver `src/core/io/file_transfer_server.cpp` | `TransferState`, one `FileServerConnection` per stream, temp file, output | accept, SessionInit, DATA, ChunkComplete, FIN, final verify, rename, mark, COMPLETE | interleaved streams writing one file; kill or I/O error between any two disk operations; a wait without timeout |
| Transfer session `src/core/session/transfer_session.cpp` | verified chunk records, completed ranges, dirty count, statistics that later decide whether verification may be skipped | createNew, resume, save, recordVerifiedChunk, verifyTempChunks, markFailed, markCommitted | batched flushes, duplicate chunks, corrupt temp data |
| Manifest store `src/checkpoint/manifest_store.cpp` | the manifest file | saveAtomicPrepared, load | replaced by rename; temp name shared inside one process |
| Range list `src/core/chunk/range_list.cpp` | sorted vector of ranges, byte count | insert, merge, missingRanges, clear | 64-bit overflow, adjacency, overlap |
| Chunk planner `src/core/chunk/chunk_planner.cpp` | none | planChunks | last short chunk, empty file |
| Upload client `src/core/io/file_transfer_client.cpp` | one thread per stream | SessionInit, send missing chunks, FIN, wait for status | receive timeout racing a slow commit, fault injection |
| Frame codec `src/core/protocol/frame.cpp` | none | encode, decode, validate | byte order, limits |
| Download sender and client `src/core/io/file_download_*.cpp`, `src/core/session/download_session.cpp` | session, manifest, temp file of the downloader | SessionInit with ranges, DATA, FIN, COMPLETE, commit | several receiving threads under one mutex; COMPLETE before the commit; remove before rename |
| Control server `src/protocol/control/*` | login, TYPE, passive listener, REST marker, parallelism, directory | the FTP-like commands, STOR, RETR | leftovers of a failed command; two STORs on one path |
| Directory transfer `src/core/io/tree_transfer_client.cpp`, `src/core/tree/*` | tree manifest, scheduler state | scan, dispatch, update record, resume | worker threads, kill between a file's commit and its record |
| File I/O `src/storage/*` | write buffer, io_uring queue | readAtAll, writeAtAll, BufferedFileWriter | partial writes, queue depth |
| TLS sockets, metrics, event log, options, TCP sink | | | no state a transfer depends on |
| Release gates and candidates, freeze check `tools/release/run_*.py` | report in memory; JSON, Markdown, artifact manifest on disk; a lock file per gate | commands, nested tools, manifest, freshness check, sync, verification, last report, exit status | tools that run one another; files that change between collection, hash and copy; reports written before and after the manifest that lists them; a kill after a first verdict |
| Artifact sync and check `tools/release/{sync_remote_artifacts,check_remote_artifact_sync}.py` | the remote tree | validate, hash, copy, compare | a copy or an ssh that fails half way; private paths |
| Public export `tools/release/{export_public_repo,check_public_hygiene}.py` | none | exclude, sanitise, scan | three filters that must cover one another |
| Private and tree matrix `tools/perf/run_gridftp_{private,tree_private}_matrix.py` | rows, control server, remote client, files on two machines, CSV and summary | cases, ports; per case: clean, start server, make source, transfer, resume, hash, stop, clean, rewrite CSV | processes that outlive a timeout or a kill; names and ports shared by runs; exceptions inside the exception handler |
| Campaigns `tools/perf/run_{gridftp_vs_gridflux_cloud_matrix,three_way_ftp_gridftp_gridflux,cloud_disk_bottleneck_proof}.py` | servers and an account they created, rows read from the nested matrix, wrapper | baseline measurements, native transfers, nested matrix, clean-up, wrapper | any phase may raise; which CSV is read; what the clean-up finds |

How they interact: the control server opens a passive listener and runs the
receiver (or the download sender) on it, with the transfer id and resume mode of
the command. Every data connection is a stream of frames. The receiver calls the
session, the session calls the range list and the manifest store. Memory is lost
in a crash; the output, the temp file (one path per transfer id) and the manifest
(one path per output) survive. The directory client runs one control session and
one upload or download per file.

The tools are processes that see each other through exit statuses, printed paths and
files. The beta candidate runs the beta gate, which runs two alpha gates and the alpha
candidate, which runs an alpha gate; each collects artifacts, writes a manifest of their
hashes, has it copied to the other machine and checked there. A campaign runs the private
matrix; a matrix runs a control server here and a client there for every case. A person
may start any of them beside the others.

What makes each part correct: the receiver publishes only a whole and verified
file, acknowledges only what is committed, never damages what it has recorded,
and always ends; the session never claims a chunk it has not verified and loses
a bounded amount of work; the range list is exactly the set of bytes accepted;
the upload client and the download client report success only for a committed file,
the download sender only for a verified one. The hazards, each with its
line, are in `PROJECT.json`.

## 2. Modules

| Module | Role |
|---|---|
| `RangeList` | the range list as a state machine with wrapping machine words and a history variable |
| `TransferSession` | data and pure operations of the session and manifest |
| `StorReceiver` | the receiver: EXTENDS `TransferSession`; state, actions, properties |
| `StorTransfer` | `StorReceiver` composed with the client's threads, bounded sockets and a user who retries |
| `AtomicUpload` | abstract specification of what an upload promises |
| `DownloadSession` | data and pure operations of the download session and manifest |
| `RetrReceiver` | the download client: EXTENDS `DownloadSession`; state, actions, properties |
| `RetrTransfer` | `RetrReceiver` composed with the sender's threads, bounded sockets and a user who retries |
| `AtomicDownload` | abstract specification of what a download promises |
| `MCStorReceiver`, `MCStorTransfer`, `MCRetrReceiver`, `MCRetrTransfer` | constant values for TLC |
| `ReleaseArtifacts` | files of the two trees, collections of artifacts, manifests, freshness, copy and check |
| `PublicExport` | what the public export copies and what the hygiene scan finds |
| `ReleaseTools` | the gates, candidates and the freeze check as processes: EXTENDS both |
| `PerfCases` | cases, ports, groups and summaries of a matrix, as operators |
| `PerfMatrix` | the two matrix tools, their servers and clients: EXTENDS `PerfCases` |
| `CampaignCommon` | what campaigns share: measurements, the nested matrix, clean-up |
| `CloudCampaign`, `ThreeWayCampaign`, `DiskProof` | the phases of each campaign |
| `PerfCampaign` | campaigns, nested matrices and matrices started by hand, side by side |
| `MCReleaseTools`, `MCPerf` | instances for TLC |
| `Counting` | sums and positions in an order, said with cardinalities instead of loops |
| `CountingProofs` | what `Tally` adds up to, and that `Nth` finds every element once |
| `RangeListProofs` | `RangeList`: the inductive invariant and its three properties |
| `StorReceiverProofs` | `StorReceiver`: the inductive invariant, the safety theorems |
| `StorTransferProofs` | `StorTransfer` implements `AtomicUpload` |
| `RetrReceiverProofs` | `RetrReceiver`: the inductive invariant, the safety theorems |
| `RetrTransferProofs` | `RetrTransfer` implements `AtomicDownload`, the sender's success |
| `ReleaseToolsProofs` | `ReleaseTools`: the invariants of tools, publication and freeze checks |
| `PerfCampaignProofs` | `PerfCampaign`: the cases, the summary, the invariants of matrices and campaigns |

### RangeList
`ranges` and `bytesCompleted` are the two members of the class. `Insert` is
`RangeList::insert` (validation, two-neighbour overlap test, joining), `Merge` is
`merge`, `Clear` is `clear`, `MissingRanges` the one-pass `missingRanges`. All
arithmetic is modulo `Word`. A refused call changes nothing and is no step. The loops are
said by their results: `LoopEnds` is the condition under which the loop of `merge` stops
and `Absorbed` what it has made of the range by then, `Gaps` are the ranges at which
`missingRanges` reports something, and `Nth` (of `Counting`) puts them in order. The lengths that
are subtracted one after the other are subtracted as one sum, which is the same modulo `Word`.

### TransferSession
Bytes are abstracted to blocks: one block is the payload of one DATA frame, a
file has `TotalBlocks`, a chunk `ChunkBlocks` of them, the last one possibly fewer.
CRC32C is taken to be collision free, so a chunk's checksum is its content. A
session is the record of verified checksums per chunk (`records`), the dirty count
and the two facts that the final-verify policy looks at (`loaded`, `removed`). The
completed ranges are those of the recorded chunks; `RangeList` justifies this.
Checksum algorithm `none` and version 1 manifests are outside the model.

### StorReceiver
One variable per piece of state: `phase` (where the process is; `down` when none
runs), `opts`, `sess`, `conn` and `rx` (a connection's life cycle and its chunk in
progress), `resp` and `final` (what each stream was sent), `outcome`, and the disk:
`output`, `temp`, `manifest`. The receiver is single threaded, so a handler is one
step, except that it is cut wherever it touches the disk a second time; `Kill`
may strike at every cut.

| Action | Code |
|---|---|
| `StartServer`, `RejectServer` | `validateServerOutputState`, start of `runFileTransferServerOnListener` |
| `Accept`, `LoopFails` | the event loop |
| `RecvInit` = `InitRejected` / `InitJoins` / `InitOpens`, then `OpenOutput`, `Precheck`, `SaveInit` | `processSessionInitPayload`, `initializeSession`, `openOutputForSession`, `verifyTempChunks`, `save` |
| `RecvData`, `WriteFails` | `processDataPayload`, `BufferedFileWriter` |
| `RecvChunkComplete` | `processChunkCompletePayload`, `recordVerifiedChunk` with its flush |
| `RecvFin`, `ConnectionFails` | `processCompletedHeader`, `readFromConnection` |
| `AllFin`, `SkipVerify` / `FullVerify`, `FlushManifest`, `CheckOutput`, `RenameToOutput`, `SyncOutput`, `MarkCommitted`, `SendComplete` | the tail of `runFileTransferServerOnListener` |
| `MarkFailedBestEffort` | the error path after the Error frames |
| `Kill`, `TempDecays` | environment |

The sender is open: any SessionInit, any DATA frame at any offset with any
content, any ChunkComplete with any checksum, FIN at any time, on any connection.
What is shown of the receiver does not rest on a well behaved client. `AcceptData`
chooses how much of the buffered data reaches the file, which covers every buffer
size and the unbuffered strategy. A frame of another stream id, a malformed frame
and an early end of the stream all end in `ConnectionFails`.

`Fault` counts kills, I/O errors and decayed blocks against `MaxFaults`. Blocks
of a temp file may decay while no server runs, and while one runs if the final
verification is `full` (`DecayPhases`); a session that skips verification is not
expected to notice decay under its feet, which `ReceiverAssumption` makes explicit.

### StorTransfer and AtomicUpload
A thread walks through `sendStream`: connect, SessionInit, wait, the missing
chunks of its share of the plan in order, FIN, wait. `net` is the bounded socket
of each stream. `Launch` is the user, who starts server and client together and,
after a failure, again, with `--resume` once a manifest exists. `CorruptChunk` and
`SendChunkComplete(s, TRUE)` are the client's corrupt and duplicate options,
`ThreadGivesUp` a failing connect or read, or the 60 s receive timeout. `AtomicUpload` has three variables (file,
committed, acknowledged) and three steps; the refinement mapping is `output`,
"the manifest says Committed" and "every thread returned success".

### DownloadSession and RetrReceiver
A download differs from an upload in what matters here. The client is never told the
chunk plan, so a record is any id with any non-empty range of the file, and
`RecordAccepted` is the only thing that keeps records apart. The streams are threads.
A mutex protects the session but not the temp file. A preparation of the session that
fails leaves `sessionReady` false, so the next stream prepares once more, with the
remains of the first on disk. COMPLETE answers FIN, long before the commit. And
`--overwrite` removes files before the download starts.

`run` is where the main thread is, `worker` where each receiving thread is. The mutex is
not a variable: preparing a new session takes several disk operations, and while one
thread is in a state of `Preparing` no other handles a SessionInit (`AtInit`); nobody
can record a chunk then, because there is no session yet. Every other critical section
is a single step. A thread's step runs to the next frame, the mutex or the next disk
operation, where `Kill` may strike. The sender is open, as for the upload.

| Action | Code |
|---|---|
| `StartClient`, `Connect` | start of `runFileDownloadClient` and of `receiveStream` |
| `RecvInit` = `InitRejected` / `InitJoins` / `PrepareResume` / `PrepareNew`, then `RemoveOutput`, `RemoveManifest`, `CreateTemp`, `SaveInit` | `readSessionInit`, `prepareDownloadSession`, `sendResumeResponse` |
| `RecvData`, `WriteFails`, `RecvChunkComplete`, `RecvFin`, `ConnectionFails` | the loop of `receiveStream` |
| `JoinFailed`, `JoinOk`, `SkipVerify` / `FullVerify`, `CheckOutput`, `RenameToOutput`, `SyncOutput`, `MarkCommitted`, `MarkFailed` | `runFileDownloadClient` after the join |
| `Kill`, `TempDecays` | environment |

`Inits` has a field `agrees` for everything of a SessionInit that is compared with the
session or with the loaded manifest besides mode and id (sizes, source path, checksum
algorithm). Which thread gets which stream id is left out: a thread is named by its
stream, and a second SessionInit with the same id is one of the reasons of `ConnectionFails`.

### RetrTransfer and AtomicDownload
The sender accepts all connections, giving up when none comes for 60 s
(`AcceptTimesOut`), then starts a thread per connection that walks through `sendStream`:
SessionInit, wait, its missing chunks in order, FIN, wait. `Launch` is a user who starts
sender and client with any options, matching or not; `LaunchSensibly` one who gives both
the same id and resumes exactly when there is a manifest. `ClientThreadGivesUp`,
`SenderThreadGivesUp` and `KillSender` are timeouts, failing calls and kills.

`AtomicDownload` has the output file, whether the download is recorded as committed and
whether the client reported success. A file appears only whole and only where there was
none; under `--overwrite` it may be withdrawn, and the knowledge of a commit forgotten.

### ReleaseArtifacts, PublicExport and ReleaseTools
A file is named by what it is for: the JSON or the manifest of a run, the Markdown of a
kind of tool (all runs of a tool write the same one), a document. Its content is the
report or manifest in it, or a number that changes with every edit; a hash is the content. `local` and
`remote` are the two trees. `ValidArtifact` is what `validate_artifact_path` lets through,
`Collected` the collection of each tool, `Freshness` the comparison of a manifest with the
local tree, `SyncOutcome` and `VerifyOutcome` what the two scripts do and report.

A tool is a sequence of phase names (`AlphaGateProgram`, ..., `FreezeProgram`), the main()
of its source read from top to bottom; `pc` is the position in it, and each action handles
one phase for every tool that has it. The verdicts are not shared: `AlphaGateFailures`,
`AlphaRcFailures`, `BetaGateFailures` and `BetaRcFailures` are the four lists of failures
the sources compute, which differ in what they count and when. Builds, tests, demos and
process searches are one phase whose outcome is chosen (`RunCommands`); what matters is
that a tool goes on after a failed step and that the verdict remembers it. `Launch` says
which run a phase starts. `Kill` ends a run anywhere and releases its lock;
`ForeignChange` is any other program or person writing a document. The freeze check takes a
final verification an operator has filed before the one in the candidate's report
(`FinalVerify`); no tool writes that file, so it may say anything. Left out: the beta gate's
`--run-freeze-check`, and `--require-soak` of the candidate, one more reason to fail.

`PublicExport` knows files by what exclusion, sanitising and scan see of them, and is
evaluated inside `RunCommands` on every small tree. That nothing forbidden passes (the
second half of `PrivateStaysLocal`) says that no sort falls between the three scripts as they are
classified there; the first half, about the remote tree, is about what the tools do in which order.

### PerfCases and PerfMatrix
`generate_cases` and `build_cases` are the products, filters and numbering of the sources
over the options a decision depends on (`--connections` is one number for all cases): the i-th case is the i-th valid choice (`Nth`) in the
order of the loops (`Before`), and the sums over a summary are `Tally`s. `run[r].pc` is where a run is in run_case or in
main(); each `Fault` is a command that fails or takes too long where the code lets it.
Servers and clients are separate (`server`, `port`, `client`): `ServerBinds`, `ServerFails`,
`ClientEnds` and `OrphanEnds` are external and take their steps whether or not the run is
still there. `frozen` is a server that listens and answers nothing. `local[r]` is the case
directory of a run, `remote` the files on the other machine, by name: the name of a
private matrix case has no run id in it (`NameOf`), so two runs meet there. `served` is the
run whose server a client reached, which need not be its own.

| Action | Code |
|---|---|
| `Start`, `Startup` | main() up to the loop |
| `BeginCase`, `MakeSource`, `Connect`, `Request`, `StartClient`, `ClientReturns`, `ClientTimeout`, `FinalReply`, `HashDest` | the try of run_case, `run_stor_*`, `run_retr_*`, `run_tree_command` |
| `Handle`, `StopServer`, `Clean` | its except and finally |
| `OpenCsv`, `WriteCsv`, `WriteSummary`, `ProcessCheck`, `Teardown` | main(), loop and end |
| `Kill` | environment |

### CampaignCommon, the campaigns and PerfCampaign
`camp[c]` holds the phase, the servers a campaign has started (`helpers`), the account,
whether a row or a step failed, and what was read of the matrix. The shapes the three
scripts share are parameterised actions of `CampaignCommon` (a server for a measurement,
transfers with rows, the nested matrix, the finally); each campaign's module says which
phase uses which, whether its failures count, which CSV is read after the matrix, what
the clean-up finds and how the exit status is made. `recent` is the run whose CSV has the
newest modification time, for the two campaigns that go by it.

An account that was there before the campaign is used and kept (`SetupAccount`).

Left out: the options that skip a phase, and all nested matrices but one. The control server
of a nested matrix is no helper of the campaign: what `CleanedUp` says of servers does not
include the one of a matrix that was killed when its time was over, which
`NoServerForgotten` leaves open for the same reason. `userdel` is taken to refuse an account whose server still runs (external).

## 3. Runs

| Run | Instance | Checks |
|---|---|---|
| `range_list` | 16-valued words, total size 8: every reachable set of bytes (256) and every pair of arguments, wrapping ones included | the list is the maximal runs of what was accepted; the count; the complement; the exactness of the overlap test |
| `streams` | 2 streams, one chunk of 2 blocks, verification skipped when allowed, 1 fault | verified chunks stay intact under interleaved rewriting, skipping is sound, the inductive invariant (and with it integrity) |
| `resume` | 2 ids, 1 stream, 2 chunks of 1 block, flush every 2, old output or none, overwrite or not, decay, 2 faults | integrity, acknowledgement after commit, only verified files published, bounded loss, one transfer per path, committed is final, a stuck transfer lost nothing |
| `kill` | 1 block, 1 fault | violated: see findings |
| `upload` | 2 threads, 3 blocks in chunks of 2 and 1, overwriting, 2 faults, fairness | `ImplementsAtomicUpload`; the server ends; every upload gets through |
| `retr_streams` | 2 threads, 2 blocks, chunks of any id, range and content, verification skipped when allowed, `--max-chunks` or not, later downloads with `--resume` or `--overwrite`, 1 fault; later downloads and those after a fault receive on one connection after the other (`OneByOneLater`) | recorded ranges stay intact although the temp file is written without the mutex; skipping is sound; integrity; the inductive invariant |
| `retr_clobber` | 2 threads, 1 block, an old output, no fault | violated: see findings |
| `retr_transfer` | 2 threads, 2 chunks, any of `--resume` and `--overwrite`, matching or not, old output or none, decay, 2 faults, fairness | `ImplementsAtomicDownload`; bounded loss; one transfer per path, a stuck download lost nothing; the sender's success means verified; both processes end; every download gets through |
| `release_alpha` | a candidate with its nested full gate, a quick gate by hand beside it, two documents of which one is private, 1 event, fairness | gates exclude one another; nothing private is copied or exported; success means the report is on both machines; every tool ends |
| `release_beta` | beta gate with its two alpha gates, the alpha candidate and its gate; then a beta candidate that packages its report (`--gate-json`) and the freeze check; 1 event | exit status and report agree; success needs every nested success; a freeze is backed |
| `release_stale` | the same | violated: see findings |
| `perf` | one campaign of any style with its nested matrix, one matrix of either kind by hand on the same ports, 1 fault | a passing row was delivered; exit 0 means all cases and no leftovers; servers stopped; the disk proof backed; clean-up; nobody stuck |

Bounds and why they are enough. Two streams are the least that interleave; every
property of the receiver about several streams relates one stream's blocks with
another's. Two content values tell right from wrong data, `Zero` being what a
fresh temp file holds; the client's runs have three so that neighbouring blocks of
the source differ. Chunks of two blocks can be half written, and the last chunk of a
3-block file is short. Two faults allow a kill during the recovery from an earlier
one. Numbers of restarts, resumes and transfers are not bounded. The proofs need none of these bounds.
The runs have no file of zero bytes; the theorems include it.

For the download two blocks give three ranges: the second half overlaps the whole without
sharing its offset. In `retr_streams` two threads receive at the same time only in a first
download that has met no fault, where each can still fail at any frame: that is where
threads race for the temp file. `OneByOneLater` bounds what comes later, which is about
what an earlier client left behind; `retr_transfer` has two threads throughout, with a
sender that keeps to its plan.

For the release tools an event is a failing command, a partial copy, a kill or a foreign
change; one at any of the phases of any tool is what the properties are about, and the
number of tools decides the size. A run by hand starts once and after the runs in `After`: the
beta candidate and the freeze check once the gate is over, in whatever way it ended. The
beta candidate that runs the gate itself (mode `full`) is modelled but in no run: it would
start the chain that `release_beta` starts by hand.

For the matrices two runs are the least that share a port or a name. The nested matrix has
two cases, so that a server or a file of the first can disturb the second; a partial
transfer is cut after one of two chunks. The fault bound of one still allows a timeout, a
frozen server or a foreign server to be followed by everything they cause, as these follow-ups are no
faults. The run by hand is started when the campaign has reached its matrix and nothing has
failed, beside a three-way campaign or a disk proof (`Beside`): what a campaign does
before shares nothing with it, the start itself touches nothing others look at, and a
started run may stay at its first step for as long as it likes, so every interleaving of
the two matrices is reached. Beside a cloud campaign the matrices would do the same
once more.

Deadlock is checked for the receivers (a server or client can always be started again),
for the range list and for the whole download; a finished upload may stop, so
the run `upload` does not check it. The tools end for good, so neither do their runs.

Fairness of the upload (`StorTransfer!FairTransferSpec`). Weak fairness of each sending thread (a thread
is scheduled), of the server's internal steps (straight-line code), of the delivery
of each stream's next frame or end (level-triggered epoll returns every readable
connection), and of the user's retry. No fault is ever forced. Strong fairness is not
needed because no step of another stream disables a pending one.

Fairness of the download (`RetrTransfer!FairTransferSpec`). Weak fairness of the listener
(its poll has a timeout), of each thread of both processes and of the client's main
thread. Strong fairness of `LaunchSensibly`: a user may also try with wrong options, any
number of times, but now and then tries with the right ones.

Fairness of the release tools (`ReleaseTools!FairSpec`): weak fairness of every tool's
steps; commands they run are assumed to return, since `subprocess.run` waits for them
without a timeout. `perf` states no fairness. Instead `NobodyStuck` says that whoever has
not ended can take a step or waits for a process that can, and every step of a run or a
campaign leads to a later phase, attempt or case: together this is termination, provided
that the commands run without a timeout return: fetching files with scp, the analyzer and the
plotter, the start of globus-gridftp-server.

Not promised, and excluded by name in `EventuallyCommitted`: `Stuck` (temp file gone,
section 5) and `Hung` (a stream that never connected, so `epoll_wait(-1)` waits for good).
`EventuallyDownloaded` excludes `Stuck` only: the download has a timeout on every wait.

## 4. Proofs

Proved by TLAPS for every value of the constants that the named assumptions allow: any set
of streams, ids and contents, any file and chunk size, flush interval, policy, socket window
and number of faults; any word size and total size; any set of release tools, nesting and
modes; any set of matrices and campaigns, options, ports and chunks.

| Module | Theorem | Statement |
|---|---|---|
| `RangeListProofs` | `SpecIInv` | `Spec => []IInv` |
| | `SpecRangesAreCoveredRuns` | `Spec => []RangesAreCoveredRuns` |
| | `SpecMissingIsComplement` | `Spec => []MissingIsComplement` |
| | `SpecNeighbourTestIsExact` | `Spec => []NeighbourTestIsExact` |
| `StorReceiverProofs` | `TypeCorrect` | `Spec => []TypeOK` |
| | `Inductive` | `Spec => []InductiveInv` |
| | `CommittedIntegrity` | `Spec => []Integrity` |
| | `Acknowledged` | `Spec => []AckAfterCommit` |
| | `VerifiedStaysIntact` | `Spec => []VerifiedChunksIntact` |
| | `SkippingIsSound` | `Spec => []SkipIsSound` |
| | `PublishesVerified` | `Spec => PublishesVerifiedOnly` |
| | `CommitIsFinal` | `Spec => CommittedIsFinal` |
| | `OneTransfer` | `Spec => OneTransferPerOutput` |
| | `LossBounded` | `Spec => []BoundedLoss` |
| | `StuckIsHarmless` | `Spec => []StuckLosesNothing` |
| `StorTransferProofs` | `ReceiverStaysCorrect` | `TransferSpec => []InductiveInv` |
| | `UploadIsAtomic` | `TransferSpec => ImplementsAtomicUpload` |
| | `SuccessMeansDelivered` | a client that reports success has its source at the output |
| `RetrReceiverProofs` | `ControlCorrect` | `Spec => []ControlInv` |
| | `Inductive` | `Spec => []InductiveInv` |
| | `CommittedIsIntact` | `Spec => []Integrity` |
| | `RecordedIsIntact` | `Spec => []VerifiedChunksIntact` |
| | `SkipSound` | `Spec => []SkipIsSound` |
| | `LossBounded` | `Spec => []BoundedLoss` |
| | `OneTransfer` | `Spec => OneTransferPerOutput` |
| | `StuckIsHarmless` | `Spec => []StuckLosesNothing` |
| `RetrTransferProofs` | `ClientStaysCorrect` | `TransferSpec => []InductiveInv` |
| | `DownloadIsAtomic` | `TransferSpec => ImplementsAtomicDownload` |
| | `SenderOkVerified` | `TransferSpec => []SenderOkMeansVerified` |
| `ReleaseToolsProofs` | `ToolsStayCorrect` | `Spec => []ToolsInv` |
| | `OnlyOneGate` | `Spec => []GatesExclusive` |
| | `PrivateNeverLeaves` | `Spec => []PrivateStaysLocal` |
| | `StatusIsReported` | `Spec => []StatusAgreesWithReport` |
| | `NestedSucceeded` | `Spec => []SuccessNeedsNested` |
| | `PublicationStays` | `Spec => []PublishInv` |
| | `SuccessWasPublished` | `Spec => SuccessIsPublished` |
| | `FreezeWasBacked` | `FreezeComesLast` implies `Spec => []FreezeIsBacked` |
| `PerfCampaignProofs` | `EveryCombinationHasItsCase` | every valid combination of the options has its case, and no two cases share a port |
| | `SummaryCounts` | the sums over a summary are the rows, and the rows that did not pass |
| | `SpecInv` | `Spec => []IInv` |
| | `PassMeansDeliveredHolds` | `Spec => []PassMeansDelivered` |
| | `NoServerForgottenHolds` | `Spec => []NoServerForgotten` |
| | `ExitZeroMeansAllHolds` | `Spec => []ExitZeroMeansAll` |
| | `DiskProofIsBackedHolds` | `Spec => []DiskProofIsBacked` |
| | `CleanedUpHolds` | `Spec => []CleanedUp` |

### Assumptions
Each is named in the module that declares the constants, and TLC evaluates it in the runs of
that module. `SessionAssumption` and `DownloadAssumption` (sizes are numbers, a chunk has at
least one block, "no file" and "no record" are not files and records), the two
`ReceiverAssumption`s (types of the options and bounds; data may decay under a running
process only if it verifies everything in the end; a download has a stream), the two
`TransferAssumption`s (the source is a file of that size, stream ids count from 0, and are
finitely many for a download), `PlanAssumption` (the sender's chunk ids are among those the
client is shown). For the tools: `ProcsAssumption` (finitely many runs, each of a kind),
`ToolsAssumption` (types; only a beta candidate has `--gate-json`), `LaunchAssumption`
(exactly the phases of a program that run another tool start a run), `AbsentAssumption`
(a missing file is no report), `DocsAssumption` (finitely many documents). For the range
list: `WordAssumption` (a word has more than one value) and `TotalSizeAssumption` (the total
size is a word). For matrices and campaigns: `PortAssumption` (ports are numbers, the stride
is not zero), `MatrixAssumption` (types and bounds; the mark for "nobody" is no run),
`OptionsAssumption` (command lines hold lists of what the parsers let through, of any
length), `SpecsAssumption` (campaigns give such command lines to their matrix),
`NestedAssumption` (every campaign has its matrix among the runs).

One theorem has a hypothesis that is no assumption of its module: `FreezeWasBacked` supposes
`FreezeComesLast`, that freeze checks are started by hand once the beta gates have ended,
because the property is about that use. The instances of all three runs satisfy it
(`FreezeChecksLast` in `MCReleaseTools`).

### The range list
`insert` and `merge` do the same thing to the list: a stretch of neighbouring ranges is
replaced by one range (`Replaces`) that has exactly their bytes and the incoming ones and
does not touch what stays (`Joins`). `JoiningKeepsIInv` shows once that this keeps `IInv`:
the ranges are sorted and apart (`Ordered`), their bytes are `covered`, and `bytesCompleted`
is the number of these bytes. The last part is where wrapping could do harm; all lengths are sizes of
disjoint sets of bytes of the file (`LengthIsSize`, `StretchIsTallied`), so neither the
subtraction nor the addition wraps (`ExchangingCounts`). It remains to find the stretch:
`InsertJoins` shows that the two neighbours are all that can touch an incoming range that
overlaps neither, `MergeJoins` that the loop of `merge` stops with no hole between what it
absorbed, and `MergedGoesBack` that the second `lower_bound` finds the place the absorbed
ranges had. `validate` is needed for all of it: it accepts exactly the ranges that end within
the file (`ValidMeans`), which is why `offset + length` does not wrap either.

None of the three properties is inductive: `RangesAreCoveredRuns` says the same as `IInv` in
terms of neighbours, and the other two follow from it in any single state. For
`MissingIsComplement` every gap is reported once (`NthGap`, from `RanksAreUnique`), a byte in
no range is in the gap before the first range beyond it (`GapOfByte`), and no gap has a
byte of a range (`GapHasNoBytes`).

### The upload receiver
`Integrity` speaks of the Committed manifest and the output, but what
makes it true happened many steps earlier, so it is strengthened along the way the
data takes:

- `ConnInv`: a chunk is in progress only between a connection's SessionInit and FIN;
  hence once all streams have sent FIN no block is in flight.
- `PhaseInv`: which phases have a session, a temp file, all FINs; the manifest does
  not say Committed while a session is open, except in the very last phase.
- `VerifiedChunksIntact`: each block of a recorded chunk has the recorded content, or
  some stream in the middle of its chunk put there what is there now. A stream that
  completes a rewritten chunk with other content is refused by `recordVerifiedChunk`
  and ends the server.
- `FlushedBlocksInv`: this exception is needed for unrecorded chunks too, to know,
  when one of two streams completes a chunk that both were writing, that the other
  stream's blocks are still accounted for.
- `VerifiedInv`: what verification established, carried from `finalVerify` to the
  rename and from there to `markCommitted`.

With all FINs in and nothing in flight, `VerifiedChunksIntact` says that the temp file
matches the records: that is `SkipIsSound`, and with no missing range it is what the
rename publishes. The first half of `StorReceiverProofs` proves the control part (one lemma
per action), the second the data part on top of it.

`LossBounded` needs `LagInv`: while data is received the records the manifest lacks are at
most `sess.dirty`, and that stays below the flush interval. `StuckIsHarmless` needs
`LossInv`: a transfer whose temp file is gone has no records, or its output matches them,
in the manifest and in the open session; and no record changes between the last flush and
the rename.

### The upload
A step of the pair is a step of the receiver, a fault that only the count of faults shows,
or a step of the client alone (`ReceiverStep`): so the receiver's invariant holds of the
pair. `ClientInv` types the threads, `SourceInv` says that every record, in memory and on
disk, is of the source: the client computes the checksum of what it read, and a corrupted
chunk is refused. A rename then publishes the source, which is the only step of
`AtomicUpload` that changes the file; the commit and the acknowledgement follow in that
order by the receiver's invariant.

### The download client
The plan is unknown to the client, so records are ranges that must not overlap (part of `SessionInv`).
`WorkerInv` ties the threads to the main thread: after the join all have ended well. The
rest is as for the upload (`FlushedBlocksInv`, `VerifiedInv`), but they hold only while no
thread has failed: a failed one ends the download after the join, and what it left in the
middle of a chunk is verified when the download is resumed. `LagInv` allows for
saves that failed: a failed save leaves the dirty count at the interval, so the bound grows
by the faults.

### The download
`SenderInv` types the sender, `SourceInv` is as above, `OutcomeInv` says that a client that
runs has not reported yet. Client steps map to steps of `AtomicDownload`: `RemoveOutput`
withdraws the file, `RenameToOutput` publishes it, `MarkCommitted` records it. `SenderOkVerified`
needs `AnswerInv`: from the moment the client has told a sending thread what is missing, each
chunk of the thread's share is recorded, or still in its list, or has its ChunkComplete
under way in `net` in front of the FIN (`StreamInv`); COMPLETE answers a FIN, and then
only the first is left.

### The release tools
`Program[p]` is a concatenation of pieces, which the provers do not see through. The first
part of `ReleaseToolsProofs` spells each program out (`QuickGatePhases`, ..., `FreezeProgram`)
and proves what all have in common (`Shaped`): the last phase is `exit`, a report is
written after the last verdict, a manifest before anything is copied, nested tools run
before the first verdict. `ToolsInv` relates the position of each run with its lock
(`LockInv`), its manifest (`ManifestInv`: only valid paths), its JSON (`ReportInv`: it says
what the memory says, except between the verdict of the alpha candidate and its report),
its nested runs (`ChildInv`, `VerdictInv`) and, once it is over, with its exit status.

No action is compared with the invariant directly. Each is shown to be a move (`Moved`):
others are untouched but for files the runs of one tool share (`Only`), and the run either
goes on (`Advanced`) or ends (`Ended`); one lemma then shows that moves keep the invariant.
For publications a second frame (`Printing`) says what a step does to pages and to the remote
tree. `PublishInv` follows an alpha tool through its last phases: the reports are there when
paths are collected (`WrittenInv`), so the manifest lists them (`CountedInv`, `ListedInv`),
so the check of the remote tree that passes has compared them (`PublishedInv`), and until the
exit no step of this run or of another writes them: the JSON and the manifest are the run's
own, the page of a gate is only written under its lock. For freeze checks a third
(`Filed`) says when a JSON becomes the newest of its tool. `FreezeInv`: a gate that crashed
or was refused never wrote one (`EarlyInv`), gates are over when a freeze check runs
(`OverInv`), so a newest report that passed is of a gate that succeeded or was killed.

### Matrices and campaigns
What a row, an exit status or a wrapper says is the end of a chain of steps of three
processes, any of which may be killed, outlive a timeout or meet a server of another run.
`IInv` follows it in three layers.

- `RunInv` is about one run: `PlaceInv` (which case it is in, and that it has a client or a
  server only within one), `PassInv` (a client that ended well has delivered this very case,
  one that failed in a partial transfer was cut short, and this is remembered until the
  row is written), `RowsInv` (rows, CSV and summary are those of the cases before), `EndInv`
  (a run about to end without an abort has taken every case and owns no port).
- `PortInv` and `OrphanInv` are about what runs do to one another: a port that answers is
  that of its run's current case, unless its server is frozen; and a run that left a client
  behind (a timeout ends the local ssh only) has failed or is about to, so that an exit
  status 0 excludes orphans.
- `CampaignInv` is about a campaign: which servers and account its phase may have
  started (`Tidy`), and what the figures of a disk proof were read from (`Backed`).

An action of a run is shown to keep its own `RunInv` and to leave the others' alone; an
action of a campaign sees its matrix only through the exit status, which once "ok" stays
"ok" (`ExitsStay`), and a finished matrix writes no file. `ExitZeroMeansAll` needs one fact
about data besides: `SummaryCounts`, that the groups of `summarize_rows` divide the rows, so that
the sums over the groups are counts of rows. The groups are parts of a set (`PartsCount`),
which is why the sums are said with cardinalities: no induction over the rows is needed.
`EveryCombinationHasItsCase` does the same for the loops of `generate_cases`: the order of
the loops is a strict order of finitely many choices, so each has a position.

### Checked by TLC before they were proved
`InductiveInv` of both receivers by the runs `streams` and `retr_streams`. The strengthenings
that only the proof modules define were checked on the instances of the runs: `LagInv` and
`LossInv` of `StorReceiverProofs` on `resume`, `ClientInv` and `SourceInv` on `upload`,
`SourceInv`, `OutcomeInv` and `AnswerInv` on `retr_transfer`, `ToolsInv`,
`PublishInv` and `FreezeInv` on `release_alpha` and `release_beta`, `IInv` of
`PerfCampaignProofs` on `perf`, `IInv` of `RangeListProofs` on `range_list`.

### Only model checked
Liveness (`ServerTerminates`, `EventuallyCommitted`, `BothEnd`, `EventuallyDownloaded`,
`EveryRunEnds`) and what speaks of ENABLED (`NobodyStuck`): out of the prover's reach. Every
other property of a passing run is stated by a theorem of the table.

That `Absorbed`, `LoopEnds`, `Gaps` and `Tally` are what the loops of the code compute is part of
the translation, as any other definition: a loop is said by what holds when it stops.

## 5. Findings

`kill`: docs/ENGINEERING.md:230 asks that a kill at any moment be recoverable. The
receiver renames the temp file to the output and then saves the Committed state. A kill
in between leaves a Transferring manifest and no temp file; a later server without
`--resume` is refused because the manifest exists, one with `--resume` because the temp
file does not. The output itself is complete (`StuckLosesNothing`), but the transfer can
be neither resumed, acknowledged nor repeated until the manifest is removed by hand.

`retr_clobber`: the same page names atomic commit by rename, and docs/DESIGN.md:130 says
that the download client renames atomically. With `--overwrite` the client removes the old
output before the first byte of the new one has arrived, and again before the rename. If
the connection is lost, the client ends with neither file. `rename` alone would
replace the file atomically. What does hold is `ImplementsAtomicDownload`: whatever
appears at the path is whole and verified.

`release_stale`: docs/release/README.md:77-80 says that final reports are written first,
then the manifest, which is checked and copied. The beta gate and the beta candidate write
their report once more after that, with the count and the freshness of the final manifest.
If a document appeared between the two collections, the manifest lists the hash of a report
that is gone, and the exit status is 0. The alpha tools enter these figures beforehand and
keep the order (`SuccessIsPublished`). The sentence stands in the part of that page about the
full gate of the alpha tools; its part about the beta tools (135-172) says nothing of the order.

Behaviours the model shows and that no statement of the code excludes are kept in the
hazards of `PROJECT.json`: a beta gate killed after its first verdict leaves a JSON that says
"passed"; the three-way campaign looks for a line the matrix does not print and takes the
newest CSV, whoever wrote it; the cloud campaign reads the CSV of a matrix that was aborted
and exits with 0; `ps -o comm` shows 15 characters, so the clean-up of the campaigns never
finds servers with longer names (globus-url-copy, a client, has exactly 15); a remote
iperf3 server may stay.

## 6. Not modelled, and the plan

Not modelled because there is nothing to check: metrics, event log, option parsing,
the TCP sink demo, TLS (a socket wrapper), the text layout of
manifests, the arithmetic of CRC32C, the drain budget (it only delays reading). Of the
tools: analyzers and plotters (figures and layout), the storage probe, the loopback and
baseline smokes and the demo (one command after the other), and the readiness, writeback
and stability runners, which start the private matrix as the campaigns do and have no
processes of their own.

Planned, in this order:

1. `ConcurrentStor`: two receivers on one output path (control server threads), the
   check-then-rename window, the shared manifest temp name.
2. `ControlSession`: the command automaton with REST marker and passive listener.
3. `TreeScheduler`: workers, tree manifest, crash and resume, composed with an abstract
   file transfer.
4. `TlsReceiver`: streams served one after the other, with the client's timeout.
5. Smaller components: frame codec limits, `TransferProgress`, `BufferedFileWriter` as a
   refinement of an unbuffered write, the io_uring queue.
