---------------------------- MODULE RetrTransfer ----------------------------
(***************************************************************************)
(* A download from end to end: RetrReceiver with the repository's sender   *)
(* (core/io/file_download_sender.cpp), one sending thread per stream, and  *)
(* a user who starts both again.  The sender keeps no state between runs.  *)
(*                                                                         *)
(* It accepts every connection before the first thread starts, and numbers *)
(* the streams in the order of acceptance: a receiving thread is named     *)
(* here by the stream it will be given.  A connection is a bounded queue   *)
(* of frames towards the client.                                           *)
(***************************************************************************)
EXTENDS RetrReceiver, Sequences, FiniteSetsExt

CONSTANTS
  Source,       \* the file that is downloaded
  ChunkBlocks,  \* chunk_size of the sender, in blocks
  Window        \* bound: frames in one connection

ASSUME TransferAssumption ==
  /\ Source \in Image
  /\ ChunkBlocks \in Nat \ {0}
  /\ Window \in Nat \ {0}
  /\ IsFiniteSet(Streams)
  /\ Streams = 0 .. Cardinality(Streams) - 1

VARIABLES
  job,     \* the SessionInit of the running sender
  sender,  \* the sending threads
  net      \* frames under way to the client

sending == <<job, sender, net>>
allVars == <<vars, sending>>

(* planChunks *)
Plan == {p \div ChunkBlocks : p \in Positions}
ChunkRange(c) == {p \in Positions : p \div ChunkBlocks = c}

(* A frame can carry the id of every chunk of the plan. *)
ASSUME PlanAssumption == Plan \subseteq ChunkIds

(* Fault variant: chunks are dealt out as if streams were counted from 1. *)
AssignedFromOne(s) == {c \in Plan : c % Cardinality(Streams) = s + 1}

Assigned(s) == {c \in Plan : c % Cardinality(Streams) = s}

(* shouldSendChunk *)
ToSend(s, missing) == {c \in Assigned(s) : ChunkRange(c) \cap missing # {}}

(* A sending thread: the chunks it has still to send, the next block of the *)
(* first of them.                                                           *)
Thread(state, todo) == [state |-> state, todo |-> todo, at |-> 0]
Over(s) == sender[s].state \in {"off", "ok", "failed"}
SenderOk == \A s \in Streams : sender[s].state = "ok"

Send(s, frame) == Len(net[s]) < Window /\ net' = [net EXCEPT ![s] = Append(@, frame)]
Turn(s, state) == sender' = [sender EXCEPT ![s].state = state]
AllTurn(state) == sender' = [s \in Streams |-> Thread(state, {})]

TransferInit ==
  /\ Init
  /\ job \in Inits
  /\ sender = [s \in Streams |-> Thread("off", {})]
  /\ net = [s \in Streams |-> <<>>]

-----------------------------------------------------------------------------
(* The user starts the sender, through the control connection, and the      *)
(* client.  A sensible one names the same transfer to both, resumes what    *)
(* has a manifest and asks to overwrite what is there.                      *)
Launch(o, init) ==
  /\ \A s \in Streams : Over(s)
  /\ StartClient(o)
  /\ job' = init
  /\ AllTurn("listen")
  /\ net' = [s \in Streams |-> <<>>]

LaunchSensibly(o) ==
  /\ o.resume <=> manifest.state # "Absent"
  /\ o.resume => o.id = manifest.id
  /\ output # NoFile => o.overwrite
  /\ Launch(o, [resume |-> o.resume, id |-> o.id, agrees |-> TRUE])

-----------------------------------------------------------------------------
(* runFramedFileSenderOnListener: accept all connections or time out *)

Accept(s) ==
  /\ sender[s].state = "listen"
  /\ Connect(s)
  /\ Turn(s, "accepted")
  /\ UNCHANGED <<job, net>>

StartThreads ==
  /\ \A s \in Streams : sender[s].state = "accepted"
  /\ AllTurn("init")
  /\ UNCHANGED <<vars, job, net>>

(* Fault variant: the listener polls again once somebody has connected. *)
AcceptTimesOutIfAlone ==
  /\ \E s \in Streams : sender[s].state = "listen" /\ worker[s] # "connect"
  /\ IF \A s \in Streams : sender[s].state = "listen"
       THEN AllTurn("failed")
       ELSE UNCHANGED sender
  /\ UNCHANGED <<vars, job, net>>

(* poll returns 0 after 60 s: a client thread is gone that never connected. *)
AcceptTimesOut ==
  /\ \E s \in Streams : sender[s].state = "listen" /\ worker[s] # "connect"
  /\ AllTurn("failed")
  /\ UNCHANGED <<vars, job, net>>

-----------------------------------------------------------------------------
(* sendStream *)

SendInit(s) ==
  /\ sender[s].state = "init"
  /\ Send(s, [type |-> "init"])
  /\ Turn(s, "waitResponse")
  /\ UNCHANGED <<vars, job>>

RecvResponse(s) ==
  /\ sender[s].state = "waitResponse"
  /\ resp[s].known
  /\ sender' = [sender EXCEPT ![s] = Thread("send", ToSend(s, resp[s].missing))]
  /\ UNCHANGED <<vars, job, net>>

(* sendChunk: a DATA frame for each block, then ChunkComplete with the      *)
(* checksum of what was read.  A payload may be corrupted on the way.       *)
First(s) == Min(sender[s].todo)

SendData(s, damaged) ==
  LET p == Min(ChunkRange(First(s))) + sender[s].at
  IN /\ sender[s].state = "send"
     /\ sender[s].todo # {}
     /\ p \in ChunkRange(First(s))
     /\ Send(s, [type |-> "data", chunk |-> First(s), pos |-> p,
                 value |-> IF damaged THEN Zero ELSE Source[p]])
     /\ sender' = [sender EXCEPT ![s].at = @ + 1]
     /\ IF damaged THEN Fault ELSE UNCHANGED faults
     /\ UNCHANGED <<run, opts, shared, worker, rx, resp, completed, outcome, disk, job>>

SendChunkComplete(s) ==
  LET lo == Min(ChunkRange(First(s)))
      hi == Max(ChunkRange(First(s))) + 1
  IN /\ sender[s].state = "send"
     /\ sender[s].todo # {}
     /\ lo + sender[s].at = hi
     /\ Send(s, [type |-> "complete",
                 record |-> ChunkRecord(First(s), lo, hi, SumOf(Source, lo, hi))])
     /\ sender' = [sender EXCEPT ![s] = Thread("send", @.todo \ {First(s)})]
     /\ UNCHANGED <<vars, job>>

SendFin(s) ==
  /\ sender[s].state = "send"
  /\ sender[s].todo = {}
  /\ Send(s, [type |-> "fin"])
  /\ Turn(s, "waitFinal")
  /\ UNCHANGED <<vars, job>>

(* waitForFinalStatus *)
RecvFinal(s) ==
  /\ sender[s].state = "waitFinal"
  /\ s \in completed
  /\ Turn(s, "ok")
  /\ UNCHANGED <<vars, job, net>>

(* An Error frame is read, or a send or a receive fails: the client's       *)
(* thread has returned without COMPLETE.                                    *)
SenderThreadFails(s) ==
  /\ sender[s].state \in {"init", "waitResponse", "send", "waitFinal"}
  /\ worker[s] \in {"failed", "off"} /\ s \notin completed
  /\ Turn(s, "failed")
  /\ UNCHANGED <<vars, job, net>>

(* Reading the source fails or an answer takes over 60 s; frames under way  *)
(* may be lost with the connection.                                         *)
SenderThreadGivesUp(s) ==
  /\ sender[s].state \in {"init", "waitResponse", "send", "waitFinal"}
  /\ Fault
  /\ Turn(s, "failed")
  /\ \/ UNCHANGED net
     \/ net' = [net EXCEPT ![s] = <<>>]
  /\ UNCHANGED <<run, opts, shared, worker, rx, resp, completed, outcome, disk, job>>

(* The sending process is killed. *)
KillSender ==
  /\ \E s \in Streams : ~Over(s)
  /\ Fault
  /\ AllTurn("failed")
  /\ UNCHANGED <<run, opts, shared, worker, rx, resp, completed, outcome, disk, job, net>>

-----------------------------------------------------------------------------
(* The client's side of the connections *)

Handle(s, f) ==
  \/ f.type = "init" /\ RecvInit(s, job)
  \/ f.type = "data" /\ RecvData(s, f.chunk, f.pos, f.value)
  \/ f.type = "complete" /\ RecvChunkComplete(s, f.record)
  \/ f.type = "fin" /\ RecvFin(s)

Deliver(s) ==
  /\ net[s] # <<>>
  /\ Handle(s, Head(net[s]))
  /\ net' = [net EXCEPT ![s] = Tail(@)]
  /\ UNCHANGED <<job, sender>>

(* Connecting is refused, or the end of the stream is read. *)
DeliverClose(s) ==
  /\ Over(s)
  /\ net[s] = <<>>
  /\ ConnectionFails(s)
  /\ UNCHANGED sending

(* A client thread cannot connect, or waits for a frame for over 60 s while *)
(* the sender is still about to send it.                                    *)
ClientThreadGivesUp(s) ==
  /\ worker[s] \in {"connect", "waitInit", "receive"}
  /\ Fault
  /\ Fail(s)
  /\ UNCHANGED <<run, opts, shared, completed, outcome, disk, sending>>

SenderStep(s) ==
  \/ SendInit(s) \/ RecvResponse(s) \/ SendData(s, FALSE) \/ SendChunkComplete(s)
  \/ SendFin(s) \/ RecvFinal(s) \/ SenderThreadFails(s)

Listener == StartThreads \/ AcceptTimesOut
ClientThread(s) == Accept(s) \/ Deliver(s) \/ DeliverClose(s)
ClientInternal == ClientStep /\ UNCHANGED sending

TransferNext ==
  \/ \E o \in Options, init \in Inits : Launch(o, init)
  \/ Listener \/ KillSender
  \/ \E s \in Streams : \/ SenderStep(s) \/ SendData(s, TRUE) \/ SenderThreadGivesUp(s)
                        \/ ClientThread(s) \/ ClientThreadGivesUp(s)
  \/ ClientInternal
  \/ Environment /\ UNCHANGED sending

(* Fairness: every thread of both processes runs, the listener's poll has a *)
(* timeout, and a user tries again, sensibly every now and then.  Faults    *)
(* are never forced.                                                        *)
TransferSpec == TransferInit /\ [][TransferNext]_allVars

FairTransferSpec ==
  /\ TransferSpec
  /\ WF_allVars(Listener)
  /\ WF_allVars(ClientInternal)
  /\ \A s \in Streams : WF_allVars(SenderStep(s)) /\ WF_allVars(ClientThread(s))
  /\ SF_allVars(\E o \in Options : LaunchSensibly(o))

-----------------------------------------------------------------------------
(* Properties *)

Download == INSTANCE AtomicDownload
              WITH Before <- InitialOutputs,
                   MayWithdraw <- \E o \in Options : o.overwrite,
                   file <- output, committed <- Committed,
                   reported <- outcome = "ok"

(* The download implements AtomicDownload: the output is the whole source   *)
(* file or what the user left there, a file is never written over, and the  *)
(* client (runFileDownloadClient) reports success only when the manifest    *)
(* says Committed and the output is the source.                             *)
ImplementsAtomicDownload == Download!Spec

(* The sender reports success (226 on the control connection) before the    *)
(* client commits.  What it may rely on: every chunk is verified in the     *)
(* client's session, whichever streams sent them and in whichever run.      *)
SenderOkMeansVerified == SenderOk /\ run = "streams" => Missing(sess.records) = {}

(* Whatever goes wrong in either process, both come to an end: no thread    *)
(* waits for good for the mutex, for a frame or for a connection.           *)
BothEnd == (run # "down") ~> (run = "down" /\ \A s \in Streams : Over(s))

(* A user who tries again gets the file, unless a kill or an error after    *)
(* the rename left a transfer without temp file (Stuck).                    *)
EventuallyDownloaded == <>(Committed \/ Stuck)
=============================================================================
