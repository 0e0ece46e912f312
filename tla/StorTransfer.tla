---------------------------- MODULE StorTransfer ----------------------------
(***************************************************************************)
(* An upload from end to end: StorReceiver with the repository's client    *)
(* (core/io/file_transfer_client.cpp), one sending thread per stream, and  *)
(* a user who starts server and client again until the client succeeds.    *)
(*                                                                         *)
(* A stream's socket is a bounded queue of frames.  A thread sends its     *)
(* SessionInit, waits for the ResumeResponse, sends the missing chunks     *)
(* assigned to it, then FIN, then waits for the final status.  The test    *)
(* options corruptChunk and duplicateCorruptChunk are faults here, and so  *)
(* are a failing connect or read and the 60 s receive timeout.             *)
(***************************************************************************)
EXTENDS StorReceiver, Sequences, FiniteSetsExt

CONSTANTS
  Source,  \* the file the client sends
  Window   \* bound: frames in one socket

ASSUME TransferAssumption ==
  /\ Source \in Image
  /\ Window \in Nat \ {0}
  /\ Streams = 0 .. Cardinality(Streams) - 1

VARIABLES
  job,     \* what the running client was started with: [resume, id]
  thread,  \* the sending threads
  net      \* frames under way to the server

client == <<job, thread, net>>
allVars == <<vars, client>>

(* A thread: `todo` are the chunks it has still to send, `at` the next      *)
(* block of the first of them, `corrupt` whether that chunk is sent with a  *)
(* flipped payload.                                                         *)
Thread(state) == [state |-> state, todo |-> {}, at |-> 0, corrupt |-> FALSE]

Ended(s) == thread[s].state \in {"off", "ok", "failed"}
ClientOk == \A s \in Streams : thread[s].state = "ok"

(* Fault variant: chunks are dealt out as if streams were counted from 1. *)
AssignedFromOne(s) == {c \in Chunks : c % Cardinality(Streams) = s + 1}

(* planChunks deals the chunks out in turn. *)
Assigned(s) == {c \in Chunks : c % Cardinality(Streams) = s}

Send(s, frame) == Len(net[s]) < Window /\ net' = [net EXCEPT ![s] = Append(@, frame)]
Become(s, state) == thread' = [thread EXCEPT ![s].state = state]

TransferInit ==
  /\ Init
  /\ job = [resume |-> FALSE, id |-> AnyId]
  /\ thread = [s \in Streams |-> Thread("off")]
  /\ net = [s \in Streams |-> <<>>]

-----------------------------------------------------------------------------
(* The user *)

(* Server and client are started together; a resume names the id of the     *)
(* transfer to take up.                                                     *)
Launch(o) ==
  /\ \A s \in Streams : Ended(s)
  /\ ~ClientOk
  /\ StartServer(o)
  /\ \E i \in Ids :
       /\ o.resume => i = manifest.id
       /\ job' = [resume |-> o.resume, id |-> i]
  /\ thread' = [s \in Streams |-> Thread("connect")]
  /\ net' = [s \in Streams |-> <<>>]

-----------------------------------------------------------------------------
(* sendStream *)

Connect(s) ==
  /\ thread[s].state = "connect"
  /\ Accept(s)
  /\ Become(s, "init")
  /\ UNCHANGED <<job, net>>

SendInit(s) ==
  /\ thread[s].state = "init"
  /\ Send(s, [type |-> "init"])
  /\ Become(s, "waitResponse")
  /\ UNCHANGED <<vars, job>>

RecvResponse(s) ==
  /\ thread[s].state = "waitResponse"
  /\ resp[s].known
  /\ thread' = [thread EXCEPT ![s] =
                  [Thread("send") EXCEPT !.todo = Assigned(s) \cap resp[s].missing]]
  /\ UNCHANGED <<vars, job, net>>

(* sendChunkRange: the frames of the first chunk to do. *)
First(s) == Min(thread[s].todo)

Payload(s, p) == IF thread[s].corrupt /\ thread[s].at = 0 THEN Zero ELSE Source[p]

SendData(s) ==
  LET p == Min(ChunkRange(First(s))) + thread[s].at
  IN /\ thread[s].state = "send"
     /\ thread[s].todo # {}
     /\ p \in ChunkRange(First(s))
     /\ Send(s, [type |-> "data", chunk |-> First(s), pos |-> p, value |-> Payload(s, p)])
     /\ thread' = [thread EXCEPT ![s].at = @ + 1]
     /\ UNCHANGED <<vars, job>>

(* ChunkComplete carries the checksum of what was read, not of what was     *)
(* sent.  duplicateCorruptChunk sends the chunk a second time, corrupted.   *)
SendChunkComplete(s, again) ==
  /\ thread[s].state = "send"
  /\ thread[s].todo # {}
  /\ thread[s].at = Cardinality(ChunkRange(First(s)))
  /\ Send(s, [type |-> "complete", chunk |-> First(s), sum |-> ChunkSum(Source, First(s))])
  /\ thread' = [thread EXCEPT ![s].at = 0,
                              ![s].todo = IF again THEN @ ELSE @ \ {First(s)},
                              ![s].corrupt = again]
  /\ IF again THEN Fault ELSE UNCHANGED faults
  /\ UNCHANGED <<process, replies, disk, job>>

(* corruptChunk *)
CorruptChunk(s) ==
  /\ thread[s].state = "send"
  /\ thread[s].todo # {}
  /\ thread[s].at = 0
  /\ ~thread[s].corrupt
  /\ Fault
  /\ thread' = [thread EXCEPT ![s].corrupt = TRUE]
  /\ UNCHANGED <<process, replies, disk, job, net>>

SendFin(s) ==
  /\ thread[s].state = "send"
  /\ thread[s].todo = {}
  /\ Send(s, [type |-> "fin"])
  /\ Become(s, "waitFinal")
  /\ UNCHANGED <<vars, job>>

(* Fault variant: the thread takes the end of the stream for success. *)
RecvFinalOrEnd(s) ==
  /\ thread[s].state = "waitFinal"
  /\ final[s] = "Complete" \/ phase = "down"
  /\ Become(s, "ok")
  /\ UNCHANGED <<vars, job, net>>

(* waitForFinalStatus *)
RecvFinal(s) ==
  /\ thread[s].state = "waitFinal"
  /\ final[s] = "Complete"
  /\ Become(s, "ok")
  /\ UNCHANGED <<vars, job, net>>

(* An Error frame is read instead of the answer awaited; connect is refused, *)
(* a send or a receive fails because the server is gone.                     *)
ServerFailed(s) ==
  \/ thread[s].state = "waitResponse" /\ final[s] = "Error" /\ ~resp[s].known
  \/ thread[s].state = "waitFinal" /\ final[s] = "Error"
  \/ phase = "down" /\ final[s] # "Complete"

ThreadFails(s) ==
  /\ ~Ended(s)
  /\ ServerFailed(s)
  /\ Become(s, "failed")
  /\ UNCHANGED <<vars, job, net>>

(* Connecting or reading the source fails, or an answer takes over 60 s. *)
ThreadGivesUp(s) ==
  /\ ~Ended(s)
  /\ Fault
  /\ Become(s, "failed")
  /\ UNCHANGED <<process, replies, disk, job, net>>

ThreadStep(s) ==
  \/ Connect(s) \/ SendInit(s) \/ RecvResponse(s)
  \/ SendData(s) \/ SendChunkComplete(s, FALSE) \/ SendFin(s)
  \/ RecvFinal(s) \/ ThreadFails(s)

ThreadFault(s) == SendChunkComplete(s, TRUE) \/ CorruptChunk(s) \/ ThreadGivesUp(s)

-----------------------------------------------------------------------------
(* The server's side of the sockets *)

Handle(s, f) ==
  \/ f.type = "init" /\ RecvInit(s, [resume |-> job.resume, id |-> job.id, agrees |-> TRUE])
  \/ f.type = "data" /\ RecvData(s, f.chunk, f.pos, f.value)
  \/ f.type = "complete" /\ RecvChunkComplete(s, f.chunk, f.sum)
  \/ f.type = "fin" /\ RecvFin(s)

Deliver(s) ==
  /\ net[s] # <<>>
  /\ Handle(s, Head(net[s]))
  /\ net' = [net EXCEPT ![s] = Tail(@)]
  /\ UNCHANGED <<job, thread>>

(* The server reads the end of the stream of a thread that has returned. *)
DeliverClose(s) ==
  /\ Ended(s)
  /\ net[s] = <<>>
  /\ ConnectionFails(s)
  /\ UNCHANGED client

(* COMPLETE cannot fail to be sent while every thread waits for it. *)
FinishServer(ok) ==
  /\ ok \/ \E s \in Streams : Ended(s)
  /\ SendComplete(ok)
  /\ UNCHANGED client

ServerInternal == ServerStep /\ UNCHANGED client

TransferNext ==
  \/ \E o \in Options : Launch(o)
  \/ \E s \in Streams : ThreadStep(s) \/ ThreadFault(s) \/ Deliver(s) \/ DeliverClose(s)
  \/ ServerInternal
  \/ \E ok \in BOOLEAN : FinishServer(ok)
  \/ Environment /\ UNCHANGED client

(* Fairness: every sending thread runs, the server's loop gets round to     *)
(* every readable connection and every step of its commit, and the user     *)
(* tries again after a failure.  Faults are never forced.                   *)
ServerRuns ==
  ServerInternal \/ \E ok \in BOOLEAN : FinishServer(ok)

TransferSpec == TransferInit /\ [][TransferNext]_allVars

FairTransferSpec ==
  /\ TransferSpec
  /\ WF_allVars(ServerRuns)
  /\ \A s \in Streams :
       /\ WF_allVars(ThreadStep(s))
       /\ WF_allVars(Deliver(s) \/ DeliverClose(s))
  /\ WF_allVars(\E o \in Options : Launch(o))

-----------------------------------------------------------------------------
(* Properties *)

Upload == INSTANCE AtomicUpload
            WITH Before <- InitialOutputs, file <- output,
                 committed <- Committed, acked <- ClientOk

(* The upload implements AtomicUpload: at the output path only the whole    *)
(* source file ever replaces what was there, the manifest is marked         *)
(* Committed only then, and runFileTransferClient returns success only for  *)
(* a committed transfer.                                                    *)
ImplementsAtomicUpload == Upload!Spec

(* Once every stream has connected, the server process ends: whatever a     *)
(* thread does later, no epoll_wait without a timeout is left waiting.      *)
ServerTerminates == (\A s \in Streams : conn[s].open) ~> (phase = "down")

(* A stream that never connected keeps the server waiting for good. *)
Hung == phase = "serving" /\ \E s \in Streams : Ended(s) /\ ~conn[s].open

(* A user who tries again gets the file through: every upload is committed  *)
(* in the end, unless the temp file is gone (Stuck) or the server hangs on  *)
(* a stream that never connected.                                           *)
EventuallyCommitted == <>(Committed \/ Stuck \/ Hung)
=============================================================================
