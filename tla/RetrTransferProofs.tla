------------------------- MODULE RetrTransferProofs -------------------------
(***************************************************************************)
(* A download implements AtomicDownload, for every value of the constants, *)
(* and a sender that reports success has had every chunk verified.         *)
(* What RetrReceiverProofs shows of the client with any sender holds here, *)
(* with the repository's sender; SenderInv says what that sender sends,    *)
(* SourceInv whose checksums the client records, and AnswerInv what        *)
(* becomes of the chunks assigned to a stream.                             *)
(***************************************************************************)
EXTENDS RetrTransfer, RetrReceiverProofs, FiniteSetTheorems

SenderStates ==
  {"off", "listen", "accepted", "init", "waitResponse", "send", "waitFinal", "ok", "failed"}

(* A record that a sender of Source may send: the checksum of a range of it  *)
(* that has all blocks of the chunk it names.                                *)
OfSource(r) == r.sum = SumOf(Source, r.begin, r.end)
Complete(r) == r \in ChunkRecords /\ OfSource(r) /\ ChunkRange(r.chunk) \subseteq Blocks(r)

Frames ==
  [type : {"init", "fin"}]
  \cup [type : {"data"}, chunk : ChunkIds, pos : Positions, value : Content]
  \cup {f \in [type : {"complete"}, record : ChunkRecords] : Complete(f.record)}

SenderInv ==
  /\ job \in Inits
  /\ sender \in [Streams -> [state : SenderStates, todo : SUBSET Plan, at : Nat]]
  /\ net \in [Streams -> Seq(Frames)]

SourceInv == \A r \in sess.records \cup manifest.records : OfSource(r)

-----------------------------------------------------------------------------
(* Operators *)

(* A set of blocks has a least element, because the intervals below its      *)
(* elements are ordered by inclusion.                                        *)
LEMMA MinIsLeast ==
  ASSUME NEW S \in SUBSET Positions, S # {}
  PROVE  Min(S) \in S /\ \A n \in S : Min(S) <= n
<1> DEFINE all == 0 .. TotalBlocks
           below(n) == 0 .. n - 1
<1>1. TotalBlocks \in Nat /\ S \subseteq all
  BY DownloadAssumption DEF Positions
<1>2. IsFiniteSet(all)
  BY <1>1, FS_Interval
<1>3. IsWellFoundedOn(StrictSubsetOrdering(all), SUBSET all)
  BY <1>2, FS_FiniteSubsetsOfFinite, FS_StrictSubsetOrderingWellFounded
<1>4. \A n \in S : n \in Nat /\ below(n) \in SUBSET all
  BY <1>1
<1> HIDE DEF all
<1>5. PICK x \in {below(n) : n \in S} :
        \A y \in {below(n) : n \in S} : ~(<<y, x>> \in StrictSubsetOrdering(all))
  <2>1. {below(n) : n \in S} \subseteq SUBSET all /\ {below(n) : n \in S} # {}
    BY <1>4
  <2> QED
    BY <1>3, <2>1, WFMin
<1>6. PICK least \in S : x = below(least)
  BY <1>5
<1>7. \A n \in S : ~(below(n) \subseteq below(least) /\ below(n) # below(least))
  BY <1>4, <1>5, <1>6, ZenonT(60) DEF StrictSubsetOrdering
<1>8. \A n \in S : least <= n
  <2> SUFFICES ASSUME NEW n \in S, n < least PROVE FALSE
    BY <1>4
  <2>1. below(n) \subseteq below(least) /\ n \in below(least) /\ n \notin below(n)
    BY <1>4
  <2> QED
    BY <1>7, <2>1
<1> QED
  BY <1>6, <1>8 DEF Min

(* ... and a greatest one. *)
LEMMA MaxIsGreatest ==
  ASSUME NEW S \in SUBSET Positions, S # {}
  PROVE  Max(S) \in S /\ \A n \in S : n <= Max(S)
<1> DEFINE all == 0 .. TotalBlocks
           above(n) == n + 1 .. TotalBlocks
<1>1. TotalBlocks \in Nat /\ S \subseteq all /\ \A n \in S : n < TotalBlocks
  BY DownloadAssumption DEF Positions
<1>2. IsFiniteSet(all)
  BY <1>1, FS_Interval
<1>3. IsWellFoundedOn(StrictSubsetOrdering(all), SUBSET all)
  BY <1>2, FS_FiniteSubsetsOfFinite, FS_StrictSubsetOrderingWellFounded
<1>4. \A n \in S : n \in Nat /\ above(n) \in SUBSET all
  BY <1>1
<1> HIDE DEF all
<1>5. PICK x \in {above(n) : n \in S} :
        \A y \in {above(n) : n \in S} : ~(<<y, x>> \in StrictSubsetOrdering(all))
  <2>1. {above(n) : n \in S} \subseteq SUBSET all /\ {above(n) : n \in S} # {}
    BY <1>4
  <2> QED
    BY <1>3, <2>1, WFMin
<1>6. PICK greatest \in S : x = above(greatest)
  BY <1>5
<1>7. \A n \in S : ~(above(n) \subseteq above(greatest) /\ above(n) # above(greatest))
  BY <1>4, <1>5, <1>6, ZenonT(60) DEF StrictSubsetOrdering
<1>8. \A n \in S : n <= greatest
  <2> SUFFICES ASSUME NEW n \in S, greatest < n PROVE FALSE
    BY <1>4
  <2>1. above(n) \subseteq above(greatest) /\ n \in above(greatest) /\ n \notin above(n)
    BY <1>1, <1>4
  <2> QED
    BY <1>7, <2>1
<1> QED
  BY <1>6, <1>8 DEF Max

(* A chunk of the plan has blocks, and every block a chunk. *)
LEMMA PlanRanges ==
  /\ \A c \in Plan : ChunkRange(c) # {} /\ ChunkRange(c) \subseteq Positions /\ c \in ChunkIds
  /\ \A p \in Positions : p \div ChunkBlocks \in Plan /\ p \in ChunkRange(p \div ChunkBlocks)
BY PlanAssumption DEF Plan, ChunkRange

(* A chunk number is no larger than the number of a block of the chunk. *)
LEMMA PlanBounded == Plan \subseteq Positions
<1> SUFFICES ASSUME NEW p \in Positions PROVE p \div ChunkBlocks \in Positions
  BY DEF Plan
<1>1. p \in Nat /\ ChunkBlocks \in Nat \ {0}
  BY TransferAssumption, DownloadAssumption DEF Positions
<1>2. p \div ChunkBlocks \in Nat /\ p \div ChunkBlocks <= p
  BY <1>1
<1> QED
  BY <1>2, DownloadAssumption DEF Positions

(* What a frame of each type carries. *)
LEMMA FrameTypes ==
  ASSUME NEW f \in Frames
  PROVE  /\ f.type \in {"init", "fin", "data", "complete"}
         /\ f.type = "data" => f.chunk \in ChunkIds /\ f.pos \in Positions /\ f.value \in Content
         /\ f.type = "complete" => Complete(f.record)
<1>1. CASE f \in [type : {"init", "fin"}]
  BY <1>1
<1>2. CASE f \in [type : {"data"}, chunk : ChunkIds, pos : Positions, value : Content]
  BY <1>2
<1>3. CASE f \in {g \in [type : {"complete"}, record : ChunkRecords] : Complete(g.record)}
  BY <1>3
<1> QED
  BY <1>1, <1>2, <1>3 DEF Frames

(* The record sent for a chunk of the plan. *)
LEMMA SentRecord ==
  ASSUME NEW c \in Plan
  PROVE  LET lo == Min(ChunkRange(c))
             hi == Max(ChunkRange(c)) + 1
             r  == ChunkRecord(c, lo, hi, SumOf(Source, lo, hi))
         IN Complete(r) /\ r.chunk = c
<1> DEFINE lo  == Min(ChunkRange(c))
           hi  == Max(ChunkRange(c)) + 1
           sum == SumOf(Source, lo, hi)
           r   == ChunkRecord(c, lo, hi, sum)
<1>1. c \in ChunkIds /\ ChunkRange(c) # {} /\ ChunkRange(c) \in SUBSET Positions
  BY PlanRanges
<1>2. lo \in ChunkRange(c) /\ \A p \in ChunkRange(c) : lo <= p /\ p < hi
  <2>1. Max(ChunkRange(c)) \in Positions
    BY <1>1, MaxIsGreatest
  <2> QED
    BY <1>1, <2>1, MinIsLeast, MaxIsGreatest, DownloadAssumption DEF Positions
<1>3. lo \in Positions /\ hi \in 1 .. TotalBlocks /\ lo < hi
  <2>1. Max(ChunkRange(c)) \in Positions
    BY <1>1, MaxIsGreatest
  <2> QED
    BY <1>1, <1>2, <2>1, DownloadAssumption DEF Positions
<1> HIDE DEF lo, hi
<1>4. sum \in Sums(lo, hi)
  <2>1. lo .. hi - 1 \subseteq Positions
    BY <1>3, DownloadAssumption DEF Positions
  <2> QED
    BY <2>1, TransferAssumption DEF SumOf, Sums, Image
<1> HIDE DEF sum
<1>5. r \in ChunkRecords /\ r.chunk = c /\ r.begin = lo /\ r.end = hi /\ r.sum = sum
  BY <1>1, <1>3, <1>4, ChunkRecordType
<1> HIDE DEF r
<1>6. ChunkRange(c) \subseteq Blocks(r)
  BY <1>1, <1>2, <1>3, <1>5, DownloadAssumption DEF Blocks, Positions
<1>7. Complete(r) /\ r.chunk = c
  BY <1>5, <1>6 DEF Complete, OfSource, sum
<1> QED
  BY <1>7 DEF r, sum, lo, hi

-----------------------------------------------------------------------------
(* The sender *)

Senders == [Streams -> [state : SenderStates, todo : SUBSET Plan, at : Nat]]

(* A frame put into a connection. *)
LEMMA SendType ==
  ASSUME SenderInv, NEW s \in Streams, NEW f \in Frames, Send(s, f)
  PROVE  /\ net' \in [Streams -> Seq(Frames)]
         /\ net'[s] = Append(net[s], f)
         /\ \A t \in Streams \ {s} : net'[t] = net[t]
<1>1. net[s] \in Seq(Frames)
  BY DEF SenderInv
<1>2. Append(net[s], f) \in Seq(Frames)
  BY <1>1
<1> QED
  BY <1>2 DEF Send, SenderInv

(* A sending thread that goes on to another state. *)
LEMMA TurnType ==
  ASSUME SenderInv, NEW s \in Streams, NEW state \in SenderStates, Turn(s, state)
  PROVE  /\ sender' \in Senders
         /\ sender'[s].state = state
         /\ sender'[s].todo = sender[s].todo
         /\ \A t \in Streams \ {s} : sender'[t] = sender[t]
BY DEF Turn, SenderInv, Senders

(* All of them go on to another state. *)
LEMMA AllTurnType ==
  ASSUME NEW state \in SenderStates, AllTurn(state)
  PROVE  sender' \in Senders /\ \A s \in Streams : sender'[s].state = state
BY DEF AllTurn, Thread, Senders

(* A DATA frame. *)
LEMMA SendDataFacts ==
  ASSUME SenderInv, NEW s \in Streams, NEW damaged \in BOOLEAN, SendData(s, damaged)
  PROVE  /\ sender' \in Senders
         /\ sender[s].state = "send" /\ sender'[s].state = "send"
         /\ sender'[s].todo = sender[s].todo
         /\ \A t \in Streams \ {s} : sender'[t] = sender[t]
         /\ \E f \in Frames : f.type = "data" /\ Send(s, f)
         /\ job' = job
         /\ UNCHANGED <<run, opts, sess, count, worker, rx, resp, completed, outcome, output, temp, manifest>>
         /\ faults' = faults \/ Fault
<1> DEFINE p     == Min(ChunkRange(First(s))) + sender[s].at
           frame == [type |-> "data", chunk |-> First(s), pos |-> p,
                     value |-> IF damaged THEN Zero ELSE Source[p]]
           at    == sender[s].at + 1
<1>1. /\ p \in ChunkRange(First(s)) /\ Send(s, frame)
      /\ sender' = [sender EXCEPT ![s].at = at]
      /\ sender[s].state = "send"
      /\ job' = job
      /\ UNCHANGED <<run, opts, sess, count, worker, rx, resp, completed, outcome, output, temp, manifest>>
      /\ faults' = faults \/ Fault
  BY DEF SendData, shared, disk
<1>2. p \in Positions /\ First(s) \in ChunkIds
  BY <1>1, PlanAssumption DEF ChunkRange, Plan
<1>3. at \in Nat
  BY DEF SenderInv
<1> HIDE DEF p, at
<1>4. (IF damaged THEN Zero ELSE Source[p]) \in Content
  BY <1>2, DownloadAssumption, TransferAssumption DEF Image
<1>5. frame \in Frames /\ frame.type = "data"
  BY <1>2, <1>4 DEF Frames
<1> HIDE DEF frame
<1>6. /\ sender' \in Senders /\ sender'[s].state = "send"
      /\ sender'[s].todo = sender[s].todo
      /\ \A t \in Streams \ {s} : sender'[t] = sender[t]
  BY <1>1, <1>3 DEF SenderInv, Senders
<1> QED
  BY <1>1, <1>5, <1>6

(* A ChunkComplete frame. *)
LEMMA SendChunkCompleteFacts ==
  ASSUME SenderInv, NEW s \in Streams, SendChunkComplete(s)
  PROVE  /\ sender' \in Senders
         /\ sender[s].state = "send" /\ sender'[s].state = "send"
         /\ sender'[s].todo = sender[s].todo \ {First(s)}
         /\ \A t \in Streams \ {s} : sender'[t] = sender[t]
         /\ \E f \in Frames : f.type = "complete" /\ f.record.chunk = First(s) /\ Send(s, f)
         /\ UNCHANGED <<vars, job>>
<1> DEFINE lo    == Min(ChunkRange(First(s)))
           hi    == Max(ChunkRange(First(s))) + 1
           r     == ChunkRecord(First(s), lo, hi, SumOf(Source, lo, hi))
           frame == [type |-> "complete", record |-> r]
           rest  == sender[s].todo \ {First(s)}
<1>1. /\ sender[s].todo # {}
      /\ lo + sender[s].at = hi
      /\ Send(s, frame)
      /\ sender[s].state = "send"
      /\ sender' = [sender EXCEPT ![s] = Thread("send", rest)]
      /\ UNCHANGED <<vars, job>>
  BY DEF SendChunkComplete, SenderInv
<1>2. First(s) \in Plan
  <2>1. sender[s].todo \in SUBSET Plan
    BY DEF SenderInv
  <2>2. sender[s].todo \in SUBSET Positions
    BY <2>1, PlanBounded
  <2> QED
    BY <1>1, <2>1, <2>2, MinIsLeast DEF First
<1>3. Complete(r) /\ r.chunk = First(s)
  BY <1>2, SentRecord
<1> HIDE DEF r
<1>4. frame \in Frames
  BY <1>3 DEF Frames, Complete
<1>5. frame.type = "complete" /\ frame.record.chunk = First(s)
  BY <1>3
<1>6. rest \in SUBSET Plan
  BY DEF SenderInv
<1> HIDE DEF frame, rest
<1>7. /\ sender' \in Senders /\ sender'[s].state = "send" /\ sender'[s].todo = rest
      /\ \A t \in Streams \ {s} : sender'[t] = sender[t]
  BY <1>1, <1>6 DEF SenderInv, Senders, Thread, SenderStates
<1> QED
  BY <1>1, <1>4, <1>5, <1>7 DEF rest

(* Every step leaves the sender with a job, threads and frames of the right  *)
(* shape.                                                                    *)
LEMMA SenderStepType ==
  ASSUME ControlInv, SenderInv, [TransferNext]_allVars
  PROVE  SenderInv'
<1> USE DEF SenderStates
<1>0. /\ job' \in Inits /\ sender' \in Senders /\ net' \in [Streams -> Seq(Frames)]
        => SenderInv'
  BY DEF SenderInv, Senders
<1>1. ASSUME NEW o \in Options, NEW init \in Inits, Launch(o, init) PROVE SenderInv'
  BY <1>0, <1>1, AllTurnType DEF Launch
<1>2. CASE Listener \/ KillSender
  BY <1>0, <1>2, AllTurnType DEF Listener, StartThreads, AcceptTimesOut, KillSender, SenderInv
<1>3. ASSUME NEW s \in Streams, SenderStep(s) \/ SendData(s, TRUE) \/ SenderThreadGivesUp(s)
      PROVE  SenderInv'
  <2>1. CASE SendInit(s) \/ SendFin(s)
    <3>1. [type |-> "init"] \in Frames /\ [type |-> "fin"] \in Frames
      BY DEF Frames
    <3>2. net' \in [Streams -> Seq(Frames)]
      BY <2>1, <3>1, SendType DEF SendInit, SendFin
    <3> QED
      BY <1>0, <2>1, <3>2, TurnType DEF SendInit, SendFin, SenderInv
  <2>2. CASE RecvResponse(s)
    <3>1. ToSend(s, resp[s].missing) \in SUBSET Plan
      BY DEF ToSend, Assigned
    <3> QED
      BY <1>0, <2>2, <3>1 DEF RecvResponse, Thread, SenderInv, Senders
  <2>3. ASSUME NEW damaged \in BOOLEAN, SendData(s, damaged) PROVE SenderInv'
    BY <1>0, <2>3, SendDataFacts, SendType DEF SenderInv
  <2>4. CASE SendChunkComplete(s)
    BY <1>0, <2>4, SendChunkCompleteFacts, SendType DEF SenderInv
  <2>5. CASE RecvFinal(s) \/ SenderThreadFails(s)
    BY <1>0, <2>5, TurnType DEF RecvFinal, SenderThreadFails, SenderInv
  <2>6. CASE SenderThreadGivesUp(s)
    <3>1. net' \in [Streams -> Seq(Frames)]
      <4>1. <<>> \in Seq(Frames)
        OBVIOUS
      <4> QED
        BY <2>6, <4>1 DEF SenderThreadGivesUp, SenderInv
    <3> QED
      BY <1>0, <2>6, <3>1, TurnType DEF SenderThreadGivesUp, SenderInv
  <2> QED
    BY <1>3, <2>1, <2>2, <2>3, <2>4, <2>5, <2>6 DEF SenderStep
<1>4. ASSUME NEW s \in Streams, Accept(s) PROVE SenderInv'
  BY <1>0, <1>4, TurnType DEF Accept, SenderInv
<1>5. ASSUME NEW s \in Streams, Deliver(s) PROVE SenderInv'
  <2>1. net[s] \in Seq(Frames) /\ net[s] # <<>>
    BY <1>5 DEF Deliver, SenderInv
  <2>2. Tail(net[s]) \in Seq(Frames)
    BY <2>1
  <2> QED
    BY <1>5, <2>2 DEF Deliver, SenderInv
<1>6. CASE UNCHANGED sending
  BY <1>6 DEF sending, SenderInv
<1> QED
  BY <1>1, <1>2, <1>3, <1>4, <1>5, <1>6
  DEF TransferNext, ClientThread, DeliverClose, ClientThreadGivesUp, ClientInternal, allVars

-----------------------------------------------------------------------------
(* The client *)

(* A frame of the sender, and what becomes of it. *)
LEMMA DeliverFacts ==
  ASSUME SenderInv, NEW s \in Streams, Deliver(s)
  PROVE  /\ net[s] \in Seq(Frames) /\ Len(net[s]) > 0
         /\ Head(net[s]) \in Frames /\ Head(net[s]) = net[s][1]
         /\ Handle(s, Head(net[s]))
         /\ net'[s] = Tail(net[s])
         /\ \A t \in Streams \ {s} : net'[t] = net[t]
         /\ UNCHANGED <<job, sender>>
<1>1. net[s] \in Seq(Frames) /\ net[s] # <<>>
  BY DEF Deliver, SenderInv
<1> QED
  BY <1>1 DEF Deliver, SenderInv

(* What the client does with a frame of the sender, it may do with a frame   *)
(* of any sender.                                                            *)
LEMMA HandleReceives ==
  ASSUME SenderInv, NEW s \in Streams, NEW f \in Frames, Handle(s, f)
  PROVE  Receive(s)
<1>1. CASE f.type = "init"
  BY <1>1 DEF Handle, Receive, SenderInv
<1>2. CASE f.type = "data"
  BY <1>2, FrameTypes DEF Handle, Receive
<1>3. CASE f.type = "complete"
  <2> DEFINE r == f.record
  <2>1. r \in ChunkRecords /\ RecvChunkComplete(s, r)
    BY <1>3, FrameTypes DEF Complete, Handle
  <2> HIDE DEF r
  <2>2. /\ r.chunk \in ChunkIds /\ r.begin \in Positions /\ r.end \in 1 .. TotalBlocks
        /\ r.sum \in Sums(r.begin, r.end) /\ r.begin < r.end
        /\ r = ChunkRecord(r.chunk, r.begin, r.end, r.sum)
    BY <2>1 DEF ChunkRecords, ChunkRecord
  <2> QED
    BY <2>1, <2>2 DEF Receive
<1>4. CASE f.type = "fin"
  BY <1>4 DEF Handle, Receive
<1> QED
  BY <1>1, <1>2, <1>3, <1>4, FrameTypes

(* A fault of the sender, which only counts, and a thread of the client that *)
(* gives up.                                                                 *)
SenderFault ==
  Fault /\ UNCHANGED <<run, opts, sess, count, worker, rx, resp, completed, outcome, output, temp, manifest>>
GivesUp(s) ==
  /\ worker[s] \in {"connect", "waitInit", "receive"}
  /\ Fault /\ Fail(s)
  /\ UNCHANGED <<run, opts, sess, count, completed, outcome, output, temp, manifest>>

(* A step of the download is a step of the client, or one of these. *)
LEMMA ClientStepKinds ==
  ASSUME SenderInv, [TransferNext]_allVars
  PROVE  [Next]_vars \/ SenderFault \/ \E s \in Streams : GivesUp(s)
<1>1. ASSUME NEW o \in Options, NEW init \in Inits, Launch(o, init) PROVE Next
  BY <1>1 DEF Launch, Next
<1>2. CASE Listener
  BY <1>2 DEF Listener, StartThreads, AcceptTimesOut
<1>3. CASE KillSender
  BY <1>3 DEF KillSender, SenderFault, shared, disk
<1>4. ASSUME NEW s \in Streams, SenderStep(s) \/ SendData(s, TRUE) \/ SenderThreadGivesUp(s)
      PROVE  UNCHANGED vars \/ SenderFault
  <2>1. ASSUME NEW damaged \in BOOLEAN, SendData(s, damaged) PROVE UNCHANGED vars \/ SenderFault
    BY <2>1, SendDataFacts DEF SenderFault, vars
  <2> QED
    BY <1>4, <2>1 DEF SenderStep, SendInit, RecvResponse, SendChunkComplete, SendFin, RecvFinal,
       SenderThreadFails, SenderThreadGivesUp, SenderFault, shared, disk
<1>5. ASSUME NEW s \in Streams, ClientThread(s) PROVE Next
  <2>1. CASE Accept(s)
    BY <2>1 DEF Accept, Next
  <2>2. CASE Deliver(s)
    BY <2>2, DeliverFacts, HandleReceives DEF Next
  <2>3. CASE DeliverClose(s)
    BY <2>3 DEF DeliverClose, Next, Receive
  <2> QED
    BY <1>5, <2>1, <2>2, <2>3 DEF ClientThread
<1>6. ASSUME NEW s \in Streams, ClientThreadGivesUp(s) PROVE GivesUp(s)
  BY <1>6 DEF ClientThreadGivesUp, GivesUp, shared, disk
<1>7. CASE ClientInternal \/ Environment
  BY <1>7 DEF ClientInternal, Next
<1> QED
  BY <1>1, <1>2, <1>3, <1>4, <1>5, <1>6, <1>7 DEF TransferNext, allVars

(* A fault of the sender leaves the client's invariant alone. *)
LEMMA FaultKeepsInv ==
  ASSUME InductiveInv, SenderFault
  PROVE  InductiveInv'
<1>1. faults \in Nat /\ faults' = faults + 1 /\ FlushInterval \in Nat
  BY DownloadAssumption DEF SenderFault, Fault, InductiveInv, TypeOK
<1>2. faults' \in Nat
  BY <1>1
<1>3. TypeOK' /\ WorkerInv' /\ SessionInv'
  BY <1>2 DEF SenderFault, InductiveInv, TypeOK, WorkerInv, SessionInv, Disjoint, Corrupt
<1>4. VerifiedChunksIntact' /\ FlushedBlocksInv'
  <2>1. \A p : InFlight(p)' = InFlight(p)
    BY DEF SenderFault, InFlight, Flushed
  <2> QED
    BY <2>1 DEF SenderFault, InductiveInv, VerifiedChunksIntact, FlushedBlocksInv, Flushed
<1>5. VerifiedInv' /\ Integrity'
  BY DEF SenderFault, InductiveInv, VerifiedInv, Integrity, Committed
<1>6. LagInv'
  <2>1. sess.dirty \in Nat
    BY DEF InductiveInv, TypeOK, Sessions
  <2>2. sess.dirty < FlushInterval + faults => sess.dirty < FlushInterval + faults'
    BY <1>1, <2>1
  <2> QED
    BY <2>2 DEF SenderFault, InductiveInv, LagInv, Lag
<1> QED
  BY <1>3, <1>4, <1>5, <1>6 DEF InductiveInv

(* Nor does a thread that gives up disturb it. *)
LEMMA GivesUpKeepsInv ==
  ASSUME InductiveInv, NEW s \in Streams, GivesUp(s)
  PROVE  InductiveInv'
<1>1. faults \in Nat /\ faults' = faults + 1 /\ FlushInterval \in Nat
  BY DownloadAssumption DEF GivesUp, Fault, InductiveInv, TypeOK
<1>2. ControlInv /\ DataInv
  BY DEF InductiveInv, ControlInv, DataInv
<1>3. run = "streams"
  BY <1>2, ThreadRuns DEF GivesUp
<1>4. ControlInv'
  <2>1. faults' \in Nat
    BY <1>1
  <2>2. /\ count' \in Nat /\ temp' \in [Ids -> Image \cup {NoFile}]
        /\ sess' \in Sessions /\ manifest' \in Manifests
    BY <1>2 DEF GivesUp, ControlInv, TypeOK
  <2> QED
    BY <1>2, <1>3, <2>1, <2>2, FailControl DEF GivesUp
<1>5. DataInv'
  BY <1>2, <1>3, FailType, FailedData DEF GivesUp, ControlInv
<1>6. Integrity'
  BY DEF GivesUp, InductiveInv, Integrity, Committed, Matches
<1>7. LagInv'
  <2>1. sess.dirty \in Nat
    BY DEF InductiveInv, TypeOK, Sessions
  <2>2. sess.dirty < FlushInterval + faults => sess.dirty < FlushInterval + faults'
    BY <1>1, <2>1
  <2> QED
    BY <2>2 DEF GivesUp, InductiveInv, LagInv, Lag
<1> QED
  BY <1>4, <1>5, <1>6, <1>7 DEF InductiveInv, ControlInv, DataInv

(* The client's inductive invariant holds throughout a download. *)
LEMMA ClientInvStep ==
  ASSUME InductiveInv, SenderInv, [TransferNext]_allVars
  PROVE  InductiveInv'
BY ClientStepKinds, InductiveStep, FaultKeepsInv, GivesUpKeepsInv

-----------------------------------------------------------------------------
(* What the client records *)

(* No step but RecordChunk adds a record to the session or the manifest. *)
KeepsRecords == sess'.records \cup manifest'.records \subseteq sess.records \cup manifest.records

(* A resume that works makes the session ready, with records of a manifest   *)
(* that is not Committed.                                                    *)
LEMMA PrepareResumeFacts ==
  ASSUME ControlInv, NEW s \in Streams, NEW init \in Inits, PrepareResume(s, init)
  PROVE  /\ worker[s] = "waitInit" /\ ~sess.ready
         /\ UNCHANGED <<run, opts, completed, outcome, output, temp>>
         /\ \/ Fail(s) /\ UNCHANGED <<sess, manifest>>
            \/ /\ Respond(s, sess'.records)
               /\ manifest.state \in {"Transferring", "Failed"}
               /\ manifest'.state \in {"Transferring", "Failed"}
               /\ sess'.ready
               /\ sess'.records \subseteq manifest.records
               /\ manifest'.records \subseteq manifest.records
<1> DEFINE resumed == [Resume(manifest) EXCEPT !.ready = TRUE]
<1>1. /\ worker[s] = "waitInit" /\ ~sess.ready
      /\ UNCHANGED <<run, opts, completed, outcome, output, temp>>
  BY DEF PrepareResume, AtInit
<1>2. CASE Fail(s) /\ UNCHANGED <<sess, manifest>>
  BY <1>1, <1>2
<1>3. CASE /\ LoadedManifestValid(manifest, opts.id, init.agrees)
           /\ VerifyTemp(resumed, Respond(s, sess'.records), FALSE)
  <2>1. manifest \in Manifests /\ manifest.state \in {"Transferring", "Failed"}
    BY <1>3 DEF LoadedManifestValid, ControlInv, TypeOK, Manifests, ManifestStates
  <2>2. /\ resumed \in Sessions /\ resumed.ready /\ resumed.id = manifest.id
        /\ resumed.records = manifest.records
    BY <2>1, ResumeType
  <2> HIDE DEF resumed
  <2>3. VerifyTemp(resumed, TRUE, FALSE) /\ Respond(s, sess'.records)
    BY <1>3 DEF VerifyTemp
  <2>4. Disjoint(manifest.records) /\ TypeOK
    BY DEF ControlInv, SessionInv
  <2>5. /\ sess'.ready /\ sess'.records \subseteq resumed.records
        /\ manifest'.state \in {"Transferring", "Failed"}
        /\ manifest'.records \subseteq sess'.records
    BY <2>1, <2>2, <2>3, <2>4, VerifyTempFacts
  <2> QED
    BY <1>1, <2>1, <2>2, <2>3, <2>5
<1> QED
  BY <1>2, <1>3 DEF PrepareResume

(* The final verification drops records, or keeps all. *)
LEMMA FullVerifyRecords ==
  ASSUME ControlInv, FullVerify
  PROVE  KeepsRecords
<1>1. run = "verify" /\ VerifyTemp(sess, TRUE, TRUE)
  BY DEF FullVerify, VerifyTemp
<1>2. /\ sess \in Sessions /\ sess.ready
      /\ manifest.id = sess.id
      /\ manifest.state \in {"Transferring", "Failed"}
      /\ Disjoint(sess.records) /\ Disjoint(manifest.records)
  BY <1>1, CommitFacts
<1>3. TypeOK /\ manifest.records \subseteq sess.records
  BY <1>1, <1>2 DEF ControlInv, SessionInv
<1>4. /\ sess'.records \subseteq sess.records
      /\ manifest' = manifest \/ manifest'.records = sess'.records
  BY <1>1, <1>2, <1>3, VerifyTempFacts
<1> QED
  BY <1>4 DEF KeepsRecords

(* The frames of the sender but ChunkComplete. *)
LEMMA OtherFrames ==
  ASSUME ControlInv, NEW s \in Streams,
         \/ \E init \in Inits : RecvInit(s, init)
         \/ \E c \in ChunkIds, p \in Positions, v \in Content : RecvData(s, c, p, v)
         \/ RecvFin(s) \/ ConnectionFails(s)
  PROVE  /\ KeepsRecords
         /\ UNCHANGED <<output, outcome, run>>
         /\ \/ manifest' = manifest
            \/ manifest.state # "Committed" /\ manifest'.state # "Committed"
<1>1. ASSUME NEW init \in Inits, PrepareResume(s, init)
      PROVE  /\ KeepsRecords
             /\ UNCHANGED <<output, outcome, run>>
             /\ \/ manifest' = manifest
                \/ manifest.state # "Committed" /\ manifest'.state # "Committed"
  BY <1>1, PrepareResumeFacts DEF KeepsRecords
<1> QED
  BY <1>1 DEF RecvInit, InitRejected, InitJoins, PrepareNew, RecvData, AcceptData, RefuseData, RecvFin,
     ConnectionFails, shared, disk, KeepsRecords

(* The end of a client, and saves on the way to it. *)
LEMMA EndRecords ==
  ASSUME ControlInv,
         \/ JoinFailed \/ SkipVerify \/ MarkCommitted \/ MarkFailed \/ Kill
         \/ \E s \in Streams : SaveInit(s)
  PROVE  KeepsRecords
<1>1. sess \in Sessions /\ opts.id \in Ids
  BY OptionsType DEF ControlInv, TypeOK
<1>2. ASSUME NEW s \in Streams, SaveInit(s) PROVE KeepsRecords
  <2> DEFINE new == [CreateNew(opts.id) EXCEPT !.ready = TRUE]
  <2>1. Save(new, "Transferring") \/ SaveFails(sess)
    BY <1>2 DEF SaveInit
  <2>2. new \in Sessions /\ new.records = {}
    BY <1>1, NewSessionType
  <2> HIDE DEF new
  <2>3. Saved(new).records = {}
    BY <2>2, SavedType
  <2> QED
    BY <2>1, <2>2, <2>3 DEF Save, SaveFails, ManifestOf, KeepsRecords
<1>3. CASE SkipVerify
  <2>1. Save(sess, "Transferring") \/ SaveFails(sess)
    BY <1>3 DEF SkipVerify
  <2> QED
    BY <1>1, <2>1, SavedType DEF Save, SaveFails, ManifestOf, KeepsRecords
<1>4. CASE JoinFailed \/ MarkCommitted \/ MarkFailed \/ Kill
  <2>1. /\ sess' = NoSession
        /\ manifest' = manifest \/ manifest'.records = sess.records
    BY <1>4 DEF JoinFailed, MarkCommitted, MarkFailed, Kill, Exit, ManifestOf, disk
  <2> QED
    BY <2>1, NoSessionType DEF KeepsRecords
<1> QED
  BY <1>2, <1>3, <1>4

(* Steps of the client that are no frames. *)
LEMMA InternalRecords ==
  ASSUME ControlInv,
         \/ ClientStep \/ Environment
         \/ \E o \in Options : StartClient(o)
         \/ \E s \in Streams : Connect(s)
  PROVE  KeepsRecords
<1>1. NoManifest.records = {}
  BY DEF NoManifest
<1>2. CASE \/ \E s \in Streams : RemoveOutput(s) \/ RemoveManifest(s) \/ CreateTemp(s) \/ Connect(s) \/ WriteFails(s)
           \/ JoinOk \/ CheckOutput \/ RenameToOutput \/ SyncOutput
           \/ \E o \in Options : StartClient(o)
           \/ \E i \in Ids, p \in Positions, v \in Content : TempDecays(i, p, v)
  <2>1. sess' = sess /\ (manifest' = manifest \/ manifest' = NoManifest)
    BY <1>2 DEF RemoveOutput, RemoveManifest, CreateTemp, Connect, WriteFails, JoinOk, CheckOutput,
       RenameToOutput, SyncOutput, StartClient, TempDecays, shared, disk
  <2> QED
    BY <1>1, <2>1 DEF KeepsRecords
<1> QED
  BY <1>2, EndRecords, FullVerifyRecords DEF ClientStep, Environment

(* What the client records of this sender is the checksum of a range of the  *)
(* source.                                                                   *)
LEMMA RecordsSource ==
  ASSUME ControlInv, SourceInv, NEW s \in Streams, NEW r \in ChunkRecords, OfSource(r),
         RecordChunk(s, r)
  PROVE  SourceInv'
<1> DEFINE after == RecordVerifiedChunk(sess, r)
<1>1. sess \in Sessions
  BY DEF ControlInv, TypeOK
<1>2. after \in Sessions /\ after.records = sess.records \cup {r}
  BY <1>1, RecordVerifiedType
<1>3. /\ sess' = after \/ sess' = Saved(after)
      /\ manifest' = manifest \/ manifest' = ManifestOf(after, "Transferring")
  BY DEF RecordChunk, Save, SaveFails
<1> HIDE DEF after
<1>4. sess'.records = after.records /\ manifest'.records \in {manifest.records, after.records}
  BY <1>2, <1>3, SavedType DEF ManifestOf
<1> QED
  BY <1>2, <1>4 DEF SourceInv, OfSource

(* All the client ever records are checksums of the source. *)
LEMMA SourceStep ==
  ASSUME ControlInv, SenderInv, SourceInv, [TransferNext]_allVars
  PROVE  SourceInv'
<1>1. KeepsRecords => SourceInv'
  BY DEF KeepsRecords, SourceInv, OfSource
<1>2. UNCHANGED <<sess, manifest>> => KeepsRecords
  BY DEF KeepsRecords
<1>3. ASSUME NEW o \in Options, NEW init \in Inits, Launch(o, init) PROVE KeepsRecords
  BY <1>3, InternalRecords DEF Launch
<1>4. CASE Listener \/ KillSender \/ UNCHANGED allVars
  BY <1>1, <1>2, <1>4 DEF Listener, StartThreads, AcceptTimesOut, KillSender, allVars, vars, shared, disk
<1>5. ASSUME NEW s \in Streams, SenderStep(s) \/ SendData(s, TRUE) \/ SenderThreadGivesUp(s)
      PROVE  KeepsRecords
  <2>1. ASSUME NEW damaged \in BOOLEAN, SendData(s, damaged) PROVE KeepsRecords
    BY <1>2, <2>1, SendDataFacts
  <2> QED
    BY <1>2, <1>5, <2>1 DEF SenderStep, SendInit, RecvResponse, SendChunkComplete, SendFin, RecvFinal,
       SenderThreadFails, SenderThreadGivesUp, shared, disk, vars
<1>6. ASSUME NEW s \in Streams, Deliver(s) PROVE SourceInv'
  <2>1. PICK f \in Frames : Handle(s, f)
    BY <1>6, DeliverFacts
  <2>2. CASE f.type = "complete"
    <3>1. f.record \in ChunkRecords /\ OfSource(f.record) /\ RecvChunkComplete(s, f.record)
      BY <2>1, <2>2, FrameTypes DEF Handle, Complete
    <3>2. CASE RecordChunk(s, f.record)
      BY <3>1, <3>2, RecordsSource
    <3>3. CASE ~RecordChunk(s, f.record)
      BY <1>1, <1>2, <3>1, <3>3 DEF RecvChunkComplete, RefuseChunk, RejectChunk, shared, disk
    <3> QED
      BY <3>2, <3>3
  <2>3. CASE f.type # "complete"
    <3>1. \/ \E init \in Inits : RecvInit(s, init)
          \/ \E c \in ChunkIds, p \in Positions, v \in Content : RecvData(s, c, p, v)
          \/ RecvFin(s)
      BY <2>1, <2>3, FrameTypes DEF Handle, SenderInv
    <3> QED
      BY <1>1, <3>1, OtherFrames
  <2> QED
    BY <2>2, <2>3
<1>7. ASSUME NEW s \in Streams, Accept(s) \/ DeliverClose(s) \/ ClientThreadGivesUp(s)
      PROVE  KeepsRecords
  BY <1>2, <1>7, InternalRecords, OtherFrames
  DEF Accept, DeliverClose, ClientThreadGivesUp, shared, disk
<1>8. CASE ClientInternal \/ Environment
  BY <1>1, <1>8, InternalRecords DEF ClientInternal
<1> QED
  BY <1>1, <1>3, <1>4, <1>5, <1>6, <1>7, <1>8 DEF TransferNext, ClientThread

(* A file that has the checksums recorded of the source is the source. *)
LEMMA SourceRecords ==
  ASSUME NEW image \in Image, NEW records \in SUBSET ChunkRecords, Matches(image, records),
         \A r \in records : OfSource(r)
  PROVE  image = Source
<1>1. ASSUME NEW p \in Positions PROVE image[p] = Source[p]
  <2>1. PICK r \in records : p \in Blocks(r)
    BY DEF Matches, Missing, Covered
  <2>2. r \in ChunkRecords /\ SumOf(image, r.begin, r.end) = r.sum /\ SumOf(Source, r.begin, r.end) = r.sum
    BY <2>1 DEF Matches, OfSource
  <2>3. image[p] = r.sum[p] /\ Source[p] = r.sum[p]
    BY <2>1, <2>2, SumsAgree
  <2> QED
    BY <2>3
<1> QED
  BY <1>1, TransferAssumption DEF Image

-----------------------------------------------------------------------------
(* Refinement *)

(* A client that has not ended reports nothing. *)
OutcomeInv == run # "down" => outcome # "ok"

(* The invariant the refinement rests on. *)
TransferInv == InductiveInv /\ SenderInv /\ SourceInv /\ OutcomeInv

(* What the client reports changes when it is started, and when it returns. *)
LEMMA OutcomeStep ==
  ASSUME ControlInv, OutcomeInv, [Next]_vars
  PROVE  /\ OutcomeInv'
         /\ \/ outcome' = "ok" <=> outcome = "ok"
            \/ outcome' # "ok" /\ UNCHANGED <<output, manifest>>
            \/ MarkCommitted /\ outcome' = "ok"
<1>1. ASSUME NEW o \in Options, StartClient(o)
      PROVE  OutcomeInv' /\ outcome' # "ok" /\ UNCHANGED <<output, manifest>>
  BY <1>1 DEF StartClient, OutcomeInv, disk
<1>2. ASSUME NEW s \in Streams, Receive(s) PROVE UNCHANGED <<run, outcome>>
  BY <1>2, OtherFrames DEF Receive, RecvChunkComplete, RefuseChunk, RejectChunk, RecordChunk
<1>3. CASE JoinFailed \/ MarkFailed \/ Kill \/ MarkCommitted
  <2>1. run # "down" /\ run' = "down"
    BY <1>3 DEF JoinFailed, AllReturned, MarkFailed, Kill, MarkCommitted, Exit
  <2>2. outcome' # "ok" \/ MarkCommitted
    BY <1>3 DEF JoinFailed, MarkFailed, Kill, Exit
  <2> QED
    BY <2>1, <2>2 DEF OutcomeInv
<1>4. CASE JoinOk \/ SkipVerify \/ FullVerify \/ CheckOutput \/ RenameToOutput \/ SyncOutput
  BY <1>4 DEF JoinOk, AllReturned, SkipVerify, FullVerify, CheckOutput, RenameToOutput, SyncOutput,
     OutcomeInv
<1>5. CASE \/ \E s \in Streams : \/ RemoveOutput(s) \/ RemoveManifest(s) \/ CreateTemp(s) \/ SaveInit(s)
                                 \/ Connect(s) \/ WriteFails(s)
           \/ \E i \in Ids, p \in Positions, v \in Content : TempDecays(i, p, v)
           \/ UNCHANGED vars
  BY <1>5 DEF RemoveOutput, RemoveManifest, CreateTemp, SaveInit, Connect, WriteFails, TempDecays, vars,
     OutcomeInv
<1> QED
  BY <1>1, <1>2, <1>3, <1>4, <1>5 DEF Next, ClientStep, Environment, OutcomeInv

(* The invariant holds at first ... *)
LEMMA TransferInvInit == TransferInit => TransferInv
<1> SUFFICES ASSUME TransferInit PROVE TransferInv
  OBVIOUS
<1>1. InductiveInv
  BY InductiveInit DEF TransferInit
<1>2. SenderInv
  <2>1. <<>> \in Seq(Frames)
    OBVIOUS
  <2> QED
    BY <2>1 DEF TransferInit, SenderInv, Thread, SenderStates
<1>3. SourceInv
  BY NoSessionType DEF TransferInit, Init, SourceInv, NoManifest
<1>4. OutcomeInv
  BY DEF TransferInit, Init, OutcomeInv
<1> QED
  BY <1>1, <1>2, <1>3, <1>4 DEF TransferInv

(* ... and after every step. *)
LEMMA TransferInvStep == TransferInv /\ [TransferNext]_allVars => TransferInv'
<1> SUFFICES ASSUME TransferInv, [TransferNext]_allVars PROVE TransferInv'
  OBVIOUS
<1>1. ControlInv
  BY DEF TransferInv, InductiveInv, ControlInv
<1>2. OutcomeInv'
  <2>1. UNCHANGED <<run, outcome>> => OutcomeInv'
    BY DEF TransferInv, OutcomeInv
  <2> QED
    BY <1>1, <2>1, ClientStepKinds, OutcomeStep DEF TransferInv, SenderFault, GivesUp
<1> QED
  BY <1>1, <1>2, SenderStepType, ClientInvStep, SourceStep DEF TransferInv

(* What the user allowed when the client was started. *)
LEMMA OverwriteAllowed == TypeOK /\ opts.overwrite => \E o \in Options : o.overwrite
BY DEF TypeOK

(* Every save but the last writes a manifest that is not Committed over one  *)
(* that was not, unless --overwrite lets a new download start over; so does  *)
(* a removal.                                                                *)
LEMMA ManifestStep ==
  ASSUME ControlInv, [Next]_vars, manifest' # manifest, ~MarkCommitted
  PROVE  /\ output' = output
         /\ manifest'.state # "Committed"
         /\ manifest.state = "Committed" =>
              opts.overwrite /\ run = "streams" /\ outcome' = outcome
<1>1. TypeOK
  BY DEF ControlInv
<1>2. ASSUME NEW s \in Streams, RemoveManifest(s) PROVE manifest'.state # "Committed" /\ output' = output
  BY <1>2 DEF RemoveManifest, NoManifest
<1>3. ASSUME NEW s \in Streams, RemoveManifest(s) \/ SaveInit(s)
      PROVE  /\ manifest.state = "Committed" => opts.overwrite
             /\ run = "streams" /\ outcome' = outcome
  <2>1. worker[s] \in {"removeManifest", "save"} /\ outcome' = outcome
    BY <1>3 DEF RemoveManifest, SaveInit
  <2>2. /\ worker[s] = "removeManifest" => opts.overwrite
        /\ worker[s] = "save" => opts.overwrite \/ manifest.state = "Absent"
    BY DEF ControlInv, WorkerInv
  <2> QED
    BY <2>1, <2>2, PreparingFacts DEF Preparing
<1>4. ASSUME NEW s \in Streams, SaveInit(s) PROVE manifest'.state # "Committed" /\ output' = output
  <2> DEFINE new == [CreateNew(opts.id) EXCEPT !.ready = TRUE]
  <2>1. manifest' = ManifestOf(new, "Transferring") /\ output' = output
    BY <1>4 DEF SaveInit, Save, SaveFails
  <2> HIDE DEF new
  <2> QED
    BY <2>1 DEF ManifestOf
<1>5. ASSUME sess.ready, NEW state \in {"Transferring", "Failed"}, NEW session,
             manifest' = ManifestOf(session, state)
      PROVE  manifest.state # "Committed" /\ manifest'.state # "Committed"
  BY <1>5 DEF ControlInv, SessionInv, ManifestOf
<1>6. ASSUME NEW s \in Streams, NEW r, RecvChunkComplete(s, r)
      PROVE  manifest.state # "Committed" /\ manifest'.state # "Committed" /\ output' = output
  <2>1. Receiving(s) /\ output' = output /\ manifest' = ManifestOf(RecordVerifiedChunk(sess, r), "Transferring")
    BY <1>6 DEF RecvChunkComplete, RefuseChunk, RejectChunk, RecordChunk, Save, SaveFails, disk
  <2> QED
    BY <1>5, <2>1, ReceivingFacts
<1>7. ASSUME NEW s \in Streams, Receive(s)
      PROVE  manifest.state # "Committed" /\ manifest'.state # "Committed" /\ output' = output
  BY <1>6, <1>7, OtherFrames DEF Receive
<1>8. CASE JoinFailed
  <2>1. sess.ready /\ output' = output
        /\ manifest' = ManifestOf(sess, IF opts.limit = 0 THEN "Failed" ELSE "Transferring")
    BY <1>8 DEF JoinFailed
  <2> QED
    BY <1>5, <2>1
<1>9. CASE SkipVerify \/ MarkFailed
  <2>1. /\ run \notin {"down", "streams"} /\ output' = output
        /\ \E state \in {"Transferring", "Failed"} : manifest' = ManifestOf(sess, state)
    BY <1>9 DEF SkipVerify, MarkFailed, Save, SaveFails
  <2> QED
    BY <1>5, <2>1, CommitFacts
<1>10. CASE FullVerify
  BY <1>10, FullVerifyFacts, CommitFacts
<1> QED
  BY <1>2, <1>3, <1>4, <1>7, <1>8, <1>9, <1>10
  DEF Next, ClientStep, Environment, StartClient, Connect, RemoveOutput, CreateTemp, JoinOk, CheckOutput,
      RenameToOutput, SyncOutput, Kill, WriteFails, TempDecays, vars, disk

(* The output is removed if --overwrite was given, or it is published.  *)
LEMMA OutputStep ==
  ASSUME TransferInv, [Next]_vars, output' # output
  PROVE  /\ UNCHANGED <<manifest, outcome>>
         /\ \/ output' = NoFile /\ opts.overwrite
            \/ output = NoFile /\ ~Committed /\ output' = Source
<1>1. ControlInv /\ DataInv
  BY DEF TransferInv, InductiveInv, ControlInv, DataInv
<1>2. CASE RenameToOutput
  <2>1. run = "rename" /\ output' = temp[sess.id] /\ UNCHANGED <<manifest, outcome>>
    BY <1>2 DEF RenameToOutput
  <2>2. Matches(temp[sess.id], sess.records) /\ output = NoFile
    BY <1>1, <2>1 DEF DataInv, VerifiedInv
  <2>3. sess \in Sessions /\ sess.id \in Ids /\ manifest.state # "Committed"
        /\ temp \in [Ids -> Image \cup {NoFile}]
    BY <1>1, <2>1, CommitFacts
  <2>4. temp[sess.id] \in Image /\ sess.records \in SUBSET ChunkRecords
    BY <2>2, <2>3 DEF Matches, Sessions
  <2>5. temp[sess.id] = Source
    BY <2>2, <2>4, SourceRecords DEF TransferInv, SourceInv
  <2> QED
    BY <2>1, <2>2, <2>3, <2>5 DEF Committed
<1>3. CASE CheckOutput
  BY <1>3 DEF CheckOutput
<1>4. ASSUME NEW s \in Streams, RemoveOutput(s)
      PROVE  UNCHANGED <<manifest, outcome>> /\ output' = NoFile /\ opts.overwrite
  BY <1>1, <1>4 DEF RemoveOutput, ControlInv, WorkerInv
<1>5. CASE MarkCommitted
  BY <1>5 DEF MarkCommitted
<1>6. ASSUME NEW s \in Streams, RemoveManifest(s) \/ CreateTemp(s) PROVE FALSE
  BY <1>6 DEF RemoveManifest, CreateTemp
<1>7. ~KeepsFiles /\ ~SavesProgress
  BY DEF KeepsFiles, SavesProgress
<1>8. ASSUME NEW s \in Streams, Receive(s) \/ SaveInit(s) PROVE FALSE
  BY <1>1, <1>7, <1>8, ReceiveDisk, SaveInitDisk
<1>9. CASE JoinFailed \/ SkipVerify \/ FullVerify \/ MarkFailed
  BY <1>1, <1>7, <1>9, MainSaveDisk
<1>10. ~(\/ \E o \in Options : StartClient(o)
         \/ \E s \in Streams : Connect(s)
         \/ JoinOk \/ SyncOutput \/ Environment \/ UNCHANGED vars)
  BY <1>1, <1>7, OtherDisk DEF Environment
<1> QED
  BY <1>2, <1>3, <1>4, <1>5, <1>6, <1>8, <1>9, <1>10 DEF Next, ClientStep

(* Every step of a download is a step of AtomicDownload or invisible to it. *)
LEMMA DownloadStep ==
  ASSUME TransferInv, [TransferNext]_allVars
  PROVE  [Download!Next]_(Download!vars)
<1>1. /\ ControlInv /\ DataInv /\ OutcomeInv /\ SenderInv /\ TypeOK
      /\ opts.overwrite => \E o \in Options : o.overwrite
  BY OverwriteAllowed DEF TransferInv, InductiveInv, ControlInv, DataInv
<1>2. /\ Committed \in BOOLEAN /\ Committed' \in BOOLEAN
      /\ (outcome = "ok") \in BOOLEAN /\ (outcome' = "ok") \in BOOLEAN
  BY DEF Committed
<1>3. ASSUME UNCHANGED <<output, manifest, outcome>> PROVE [Download!Next]_(Download!vars)
  BY <1>3 DEF Download!vars, Committed
<1>4. CASE MarkCommitted
  <2>1. run = "markCommitted" /\ output' = output
    BY <1>4 DEF MarkCommitted
  <2>2. Matches(output, sess.records) /\ sess \in Sessions /\ output \in Image
    BY <1>1, <2>1, CommitFacts DEF DataInv, VerifiedInv, TypeOK, Matches
  <2>3. output = Source
    BY <2>2, SourceRecords DEF TransferInv, SourceInv, Sessions
  <2>4. CASE outcome' = "ok"
    <3>1. Committed'
      BY <1>4, <2>4 DEF MarkCommitted, Exit, ManifestOf, Committed
    <3> QED
      BY <1>2, <2>1, <2>3, <2>4, <3>1 DEF Download!Next, Download!Commit
  <2>5. CASE outcome' # "ok"
    <3>1. manifest' = manifest /\ outcome # "ok"
      BY <1>1, <1>4, <2>1, <2>5 DEF MarkCommitted, Exit, OutcomeInv
    <3>2. Committed' = Committed /\ (outcome' = "ok") = (outcome = "ok")
      BY <1>2, <2>5, <3>1 DEF Committed
    <3> QED
      BY <2>1, <3>2 DEF Download!vars
  <2> QED
    BY <2>4, <2>5
<1>5. CASE [Next]_vars /\ output' # output
  <2>1. /\ UNCHANGED <<manifest, outcome>>
        /\ \/ output' = NoFile /\ opts.overwrite
           \/ output = NoFile /\ ~Committed /\ output' = Source
    BY <1>5, OutputStep
  <2>2. Committed' = Committed /\ (outcome' = "ok") = (outcome = "ok")
    BY <2>1 DEF Committed
  <2> QED
    BY <1>1, <2>1, <2>2 DEF Download!Next, Download!Publish, Download!Withdraw
<1>6. CASE [Next]_vars /\ output' = output /\ manifest' # manifest /\ ~MarkCommitted
  <2>1. /\ ~Committed'
        /\ Committed => opts.overwrite /\ run = "streams" /\ outcome' = outcome
    BY <1>1, <1>6, ManifestStep DEF Committed
  <2>2. (outcome' = "ok") = (outcome = "ok")
    BY <1>1, <1>2, <1>6, OutcomeStep
  <2>3. CASE Committed
    <3>1. outcome # "ok" /\ \E o \in Options : o.overwrite
      BY <1>1, <2>1, <2>3 DEF OutcomeInv
    <3>2. Committed' = FALSE
      BY <1>2, <2>1
    <3> QED
      BY <1>6, <2>2, <3>1, <3>2 DEF Download!Next, Download!Forget
  <2>4. CASE ~Committed
    <3>1. Committed' = Committed
      BY <1>2, <2>1, <2>4
    <3> QED
      BY <1>6, <2>2, <3>1 DEF Download!vars
  <2> QED
    BY <2>3, <2>4
<1>7. CASE [Next]_vars /\ output' = output /\ manifest' = manifest /\ ~MarkCommitted
  <2>1. Committed' = Committed
    BY <1>7 DEF Committed
  <2>2. CASE (outcome' = "ok") = (outcome = "ok")
    BY <1>7, <2>1, <2>2 DEF Download!vars
  <2>3. CASE outcome' # "ok"
    <3>1. (outcome' = "ok") = FALSE
      BY <1>2, <2>3
    <3> QED
      BY <1>7, <2>1, <3>1 DEF Download!Next, Download!Retry
  <2> QED
    BY <1>1, <1>2, <1>7, <2>2, <2>3, OutcomeStep
<1> QED
  BY <1>1, <1>3, <1>4, <1>5, <1>6, <1>7, ClientStepKinds DEF SenderFault, GivesUp

(* A state of a download is a state of AtomicDownload. *)
LEMMA DownloadInit == TransferInit => Download!Init
<1> SUFFICES ASSUME TransferInit PROVE Download!Init
  OBVIOUS
<1>1. output \in InitialOutputs /\ Committed = FALSE /\ (outcome = "ok") = FALSE
  BY DEF TransferInit, Init, Committed, NoManifest
<1> QED
  BY <1>1 DEF Download!Init

(* Whatever the sender sends, damages or leaves out, the client keeps its    *)
(* inductive invariant throughout a download.                                *)
THEOREM ClientStaysCorrect == TransferSpec => []InductiveInv
<1>1. TransferSpec => []TransferInv
  BY TransferInvInit, TransferInvStep, PTL DEF TransferSpec
<1>2. TransferInv => InductiveInv
  BY DEF TransferInv
<1> QED
  BY <1>1, <1>2, PTL

(* A download implements AtomicDownload: a file appears at the output path   *)
(* only as the whole source file and only where there was none; it goes away *)
(* only under --overwrite; and runFileDownloadClient returns success only    *)
(* when the manifest says Committed and the output is the source.            *)
THEOREM DownloadIsAtomic == TransferSpec => ImplementsAtomicDownload
<1>1. TransferSpec => []TransferInv
  BY TransferInvInit, TransferInvStep, PTL DEF TransferSpec
<1>2. TransferInv /\ [TransferNext]_allVars => [Download!Next]_(Download!vars)
  BY DownloadStep
<1> QED
  BY <1>1, <1>2, DownloadInit, PTL DEF TransferSpec, ImplementsAtomicDownload, Download!Spec

-----------------------------------------------------------------------------
(* What becomes of the chunks assigned to a stream *)

NoFin(q) == \A i \in 1 .. Len(q) : q[i].type # "fin"
FinLast(q) == \A i \in 1 .. Len(q) - 1 : q[i].type # "fin"
CompleteIn(q, c) == \E i \in 1 .. Len(q) : q[i].type = "complete" /\ q[i].record.chunk = c

(* A chunk is verified, or still to be sent, or its ChunkComplete under way. *)
Delivered(c) == ChunkRange(c) \subseteq Covered(sess.records)
Due(s, c) == Delivered(c) \/ c \in sender[s].todo \/ CompleteIn(net[s], c)

(* What was left out of a ResumeResponse is covered. *)
Answered(s) ==
  resp[s].known =>
    /\ worker[s] \in {"receive", "ok"}
    /\ Positions \ resp[s].missing \subseteq Covered(sess.records)

(* FIN follows all chunks, and COMPLETE follows FIN. *)
StreamInv(s) ==
  /\ Answered(s)
  /\ sender[s].state \in {"listen", "accepted", "init", "waitResponse", "send"} =>
       s \notin completed /\ NoFin(net[s])
  /\ sender[s].state = "waitFinal" => sender[s].todo = {} /\ FinLast(net[s])
  /\ sender[s].state \in {"send", "waitFinal"} => worker[s] \in {"receive", "ok", "failed"}
  /\ sender[s].state \in {"send", "waitFinal"} /\ worker[s] # "failed" =>
       \A c \in Assigned(s) : Due(s, c)
  /\ sender[s].state \in {"waitFinal", "ok"} /\ s \in completed =>
       \A c \in Assigned(s) : Delivered(c)
  /\ sender[s].state = "ok" => s \in completed

AnswerInv ==
  /\ run = "down" => \A s \in Streams : ~resp[s].known
  /\ ~sess.ready => sess.records = {}
  /\ run = "streams" => \A s \in Streams : StreamInv(s)

(* A frame more in a connection. *)
LEMMA FrameAppended ==
  ASSUME NEW q \in Seq(Frames), NEW f \in Frames
  PROVE  /\ NoFin(q) => FinLast(Append(q, f))
         /\ NoFin(q) /\ f.type # "fin" => NoFin(Append(q, f))
         /\ \A c : CompleteIn(q, c) => CompleteIn(Append(q, f), c)
         /\ f.type = "complete" => CompleteIn(Append(q, f), f.record.chunk)
<1> DEFINE n == Len(q)
<1>1. /\ n \in Nat /\ Len(Append(q, f)) = n + 1
      /\ \A i \in 1 .. n : Append(q, f)[i] = q[i]
      /\ Append(q, f)[n + 1] = f
  OBVIOUS
<1>2. NoFin(q) => FinLast(Append(q, f))
  BY <1>1 DEF NoFin, FinLast
<1>3. NoFin(q) /\ f.type # "fin" => NoFin(Append(q, f))
  <2> SUFFICES ASSUME NoFin(q), f.type # "fin", NEW i \in 1 .. n + 1
               PROVE  Append(q, f)[i].type # "fin"
    BY <1>1 DEF NoFin
  <2>1. CASE i = n + 1
    BY <1>1, <2>1
  <2>2. CASE i \in 1 .. n
    BY <1>1, <2>2 DEF NoFin
  <2> QED
    BY <1>1, <2>1, <2>2
<1>4. ASSUME NEW c, CompleteIn(q, c) PROVE CompleteIn(Append(q, f), c)
  <2>1. PICK i \in 1 .. n : q[i].type = "complete" /\ q[i].record.chunk = c
    BY <1>4 DEF CompleteIn
  <2>2. i \in 1 .. n + 1 /\ Append(q, f)[i] = q[i]
    BY <1>1
  <2> QED
    BY <1>1, <2>1, <2>2 DEF CompleteIn
<1>5. f.type = "complete" => CompleteIn(Append(q, f), f.record.chunk)
  <2>1. n + 1 \in 1 .. n + 1
    BY <1>1
  <2> QED
    BY <1>1, <2>1 DEF CompleteIn
<1> QED
  BY <1>2, <1>3, <1>4, <1>5

(* A frame taken out of it. *)
LEMMA FrameTaken ==
  ASSUME NEW q \in Seq(Frames), Len(q) > 0
  PROVE  /\ NoFin(q) => NoFin(Tail(q)) /\ q[1].type # "fin"
         /\ FinLast(q) => FinLast(Tail(q))
         /\ \A c : CompleteIn(q, c) =>
              CompleteIn(Tail(q), c) \/ (q[1].type = "complete" /\ q[1].record.chunk = c)
         /\ FinLast(q) /\ q[1].type = "fin" => \A c : ~CompleteIn(q, c)
<1> DEFINE n == Len(q)
<1>1. /\ n \in Nat /\ n > 0 /\ Len(Tail(q)) = n - 1
      /\ \A i \in 1 .. n - 1 : Tail(q)[i] = q[i + 1]
  OBVIOUS
<1>2. NoFin(q) => NoFin(Tail(q)) /\ q[1].type # "fin"
  BY <1>1 DEF NoFin
<1>3. FinLast(q) => FinLast(Tail(q))
  <2> SUFFICES ASSUME FinLast(q), NEW i \in 1 .. n - 1 - 1 PROVE Tail(q)[i].type # "fin"
    BY <1>1 DEF FinLast
  <2>1. i \in 1 .. n - 1 /\ i + 1 \in 1 .. n - 1
    BY <1>1
  <2> QED
    BY <1>1, <2>1 DEF FinLast
<1>4. ASSUME NEW c, CompleteIn(q, c)
      PROVE  CompleteIn(Tail(q), c) \/ (q[1].type = "complete" /\ q[1].record.chunk = c)
  <2>1. PICK i \in 1 .. n : q[i].type = "complete" /\ q[i].record.chunk = c
    BY <1>4 DEF CompleteIn
  <2>2. CASE i = 1
    BY <2>1, <2>2
  <2>3. CASE i # 1
    <3>1. i - 1 \in 1 .. n - 1 /\ (i - 1) + 1 = i
      BY <1>1, <2>3
    <3>2. Tail(q)[i - 1] = q[i]
      BY <1>1, <3>1
    <3> QED
      BY <1>1, <2>1, <3>1, <3>2 DEF CompleteIn
  <2> QED
    BY <2>2, <2>3
<1>5. ASSUME FinLast(q), q[1].type = "fin", NEW c, CompleteIn(q, c) PROVE FALSE
  <2>1. n = 1
    <3>1. n \in Nat /\ n > 0
      BY <1>1
    <3>2. n > 1 => 1 \in 1 .. n - 1
      BY <3>1
    <3>3. ~(n > 1)
      BY <1>5, <3>2 DEF FinLast
    <3> HIDE DEF n
    <3> QED
      BY <3>1, <3>3
  <2> QED
    BY <1>5, <2>1 DEF CompleteIn
<1> QED
  BY <1>2, <1>3, <1>4, <1>5

(* What may happen to a thread of the client while the streams run. *)
Grows == Covered(sess.records) \subseteq Covered(sess'.records)
Moves(s) ==
  \/ worker'[s] = worker[s] /\ resp'[s] = resp[s]
  \/ worker'[s] = "failed" /\ ~resp'[s].known
  \/ worker[s] = "receive" /\ worker'[s] = "ok" /\ resp'[s] = resp[s]
  \/ /\ worker[s] \notin {"receive", "ok", "failed"}
     /\ \/ worker'[s] \notin {"receive", "ok"} /\ resp'[s] = resp[s]
        \/ worker'[s] = "receive" /\ Positions \ resp'[s].missing \subseteq Covered(sess'.records)

(* Answered in the next state. *)
LEMMA AnsweredStep ==
  ASSUME NEW s \in Streams, Answered(s), Grows, Moves(s)
  PROVE  Answered(s)'
BY DEF Answered, Grows, Moves

(* A thread of the client moves, while its sender does nothing and no frame  *)
(* is taken.                                                                 *)
LEMMA KeepStream ==
  ASSUME NEW s \in Streams, StreamInv(s), Grows, Moves(s),
         sender'[s] = sender[s], net'[s] = net[s], s \in completed' <=> s \in completed
  PROVE  StreamInv(s)'
<1>1. \A c : Delivered(c) => Delivered(c)'
  BY DEF Delivered, Grows
<1>2. \A c : Due(s, c) => Due(s, c)'
  BY <1>1 DEF Due
<1>3. Answered(s)'
  BY AnsweredStep DEF StreamInv
<1>4. /\ worker[s] \in {"receive", "ok", "failed"} => worker'[s] \in {"receive", "ok", "failed"}
      /\ worker[s] = "failed" => worker'[s] = "failed"
  BY DEF Moves
<1> QED
  BY <1>1, <1>2, <1>3, <1>4 DEF StreamInv

(* A thread that fails. *)
LEMMA FailMoves ==
  ASSUME TypeOK, NEW s \in Streams, Fail(s)
  PROVE  \A t \in Streams : Moves(t)
<1>1. resp'[s] = NoReply /\ \A t \in Streams \ {s} : resp'[t] = resp[t]
  BY DEF Fail, TypeOK
<1> QED
  BY <1>1, FailType DEF Moves, NoReply

(* A thread that is given an answer. *)
LEMMA RespondMoves ==
  ASSUME TypeOK, NEW s \in Streams, worker[s] \notin {"receive", "ok", "failed"},
         NEW records, Missing(records) = Missing(sess'.records), Respond(s, records)
  PROVE  \A t \in Streams : Moves(t)
<1>1. CASE Fail(s)
  BY <1>1, FailMoves
<1>2. CASE ~Fail(s)
  <2>1. /\ resp' = [resp EXCEPT ![s] = [known |-> TRUE, missing |-> Missing(records)]]
        /\ Become(s, "receive")
    BY <1>2 DEF Respond
  <2>2. resp'[s].missing = Missing(records) /\ \A t \in Streams \ {s} : resp'[t] = resp[t]
    BY <2>1 DEF TypeOK
  <2>3. worker'[s] = "receive" /\ \A t \in Streams \ {s} : worker'[t] = worker[t]
    BY <2>1, BecomeType
  <2>4. Positions \ Missing(sess'.records) \subseteq Covered(sess'.records)
    BY DEF Missing
  <2> QED
    BY <2>2, <2>3, <2>4 DEF Moves
<1> QED
  BY <1>1, <1>2

(* A thread that takes another step. *)
LEMMA BecomeMoves ==
  ASSUME TypeOK, NEW s \in Streams, worker[s] \notin {"receive", "ok", "failed"},
         NEW w \in Preparing \cup {"connect", "waitInit"}, Become(s, w), resp' = resp
  PROVE  \A t \in Streams : Moves(t)
<1>1. worker'[s] = w /\ \A t \in Streams \ {s} : worker'[t] = worker[t]
  BY BecomeType
<1>2. w \notin {"receive", "ok"}
  BY DEF Preparing
<1> QED
  BY <1>1, <1>2 DEF Moves

(* The client's answer to a SessionInit. *)
LEMMA RecvInitMoves ==
  ASSUME ControlInv, AnswerInv, NEW s \in Streams, NEW init \in Inits, RecvInit(s, init)
  PROVE  /\ Grows /\ \A t \in Streams : Moves(t)
         /\ completed' = completed
         /\ ~sess'.ready => sess'.records = {}
<1>1. TypeOK /\ (~sess.ready => sess.records = {})
  BY DEF ControlInv, AnswerInv
<1>2. sess' = sess => Grows /\ (~sess'.ready => sess'.records = {})
  BY <1>1 DEF Grows
<1>3. CASE InitRejected(s, init)
  BY <1>1, <1>2, <1>3, FailMoves DEF InitRejected, shared
<1>4. CASE InitJoins(s, init)
  <2>1. /\ worker[s] = "waitInit" /\ sess' = sess /\ completed' = completed
        /\ Fail(s) \/ Respond(s, sess.records)
    BY <1>4 DEF InitJoins, AtInit, shared
  <2> QED
    BY <1>1, <1>2, <2>1, FailMoves, RespondMoves
<1>5. CASE PrepareNew(s, init)
  <2>1. /\ worker[s] = "waitInit" /\ sess' = sess /\ completed' = completed
        /\ \/ Fail(s)
           \/ resp' = resp /\ Become(s, IF opts.overwrite THEN "removeOutput" ELSE "create")
    BY <1>5 DEF PrepareNew, AtInit, shared
  <2> QED
    BY <1>1, <1>2, <2>1, FailMoves, BecomeMoves DEF Preparing
<1>6. CASE PrepareResume(s, init)
  <2>1. worker[s] = "waitInit" /\ ~sess.ready /\ completed' = completed
    BY <1>6, PrepareResumeFacts
  <2>2. CASE Fail(s) /\ sess' = sess
    BY <1>1, <1>2, <2>1, <2>2, FailMoves
  <2>3. CASE Respond(s, sess'.records) /\ sess'.ready
    <3>1. Grows
      BY <1>1, <2>1 DEF Grows, Covered
    <3>2. \A t \in Streams : Moves(t)
      <4> DEFINE records == sess'.records
      <4>1. Respond(s, records) /\ Missing(records) = Missing(sess'.records)
        BY <2>3
      <4> HIDE DEF records
      <4> QED
        BY <1>1, <2>1, <4>1, RespondMoves
    <3> QED
      BY <2>1, <2>3, <3>1, <3>2
  <2> QED
    BY <1>6, <2>2, <2>3, PrepareResumeFacts
<1> QED
  BY <1>3, <1>4, <1>5, <1>6 DEF RecvInit

(* A frame of the loop of receiveStream, or a connection that fails. *)
LEMMA FrameMoves ==
  ASSUME ControlInv, AnswerInv, NEW s \in Streams,
         \/ \E c \in ChunkIds, p \in Positions, v \in Content : RecvData(s, c, p, v)
         \/ RecvFin(s) \/ ConnectionFails(s)
  PROVE  /\ Grows /\ \A t \in Streams : Moves(t)
         /\ ~sess'.ready => sess'.records = {}
         /\ completed' = completed \/ (completed' = completed \cup {s} /\ RecvFin(s))
<1>1. TypeOK /\ (~sess.ready => sess.records = {})
  BY DEF ControlInv, AnswerInv
<1>2. sess' = sess
  BY DEF RecvData, AcceptData, RefuseData, RecvFin, ConnectionFails, shared
<1>3. ASSUME Fail(s) PROVE \A t \in Streams : Moves(t)
  BY <1>1, <1>3, FailMoves
<1>4. ASSUME ~Fail(s) PROVE \A t \in Streams : Moves(t)
  <2>1. \/ worker' = worker /\ resp' = resp
        \/ worker[s] = "receive" /\ Become(s, "ok") /\ resp' = resp
    BY <1>4 DEF RecvData, AcceptData, RefuseData, RecvFin, ConnectionFails, Receiving
  <2>2. Become(s, "ok") => worker'[s] = "ok" /\ \A t \in Streams \ {s} : worker'[t] = worker[t]
    BY <1>1, BecomeType
  <2> QED
    BY <2>1, <2>2 DEF Moves
<1>5. completed' = completed \/ (completed' = completed \cup {s} /\ RecvFin(s))
  BY DEF RecvData, AcceptData, RefuseData, RecvFin, ConnectionFails
<1> QED
  BY <1>1, <1>2, <1>3, <1>4, <1>5 DEF Grows

(* A ChunkComplete: the chunk is verified or the thread fails. *)
LEMMA ChunkCompleteMoves ==
  ASSUME ControlInv, AnswerInv, NEW s \in Streams, NEW r \in ChunkRecords, RecvChunkComplete(s, r)
  PROVE  /\ Grows /\ \A t \in Streams : Moves(t)
         /\ completed' = completed
         /\ ~sess'.ready => sess'.records = {}
         /\ worker'[s] = "failed" \/ Blocks(r) \subseteq Covered(sess'.records)
<1>1. TypeOK /\ (~sess.ready => sess.records = {})
  BY DEF ControlInv, AnswerInv
<1>2. CASE RefuseChunk(s, r.chunk, r.begin, r.end) \/ RejectChunk(s, r)
  <2>1. Fail(s) /\ sess' = sess /\ completed' = completed
    BY <1>2 DEF RefuseChunk, RejectChunk, shared
  <2> QED
    BY <1>1, <2>1, FailMoves, FailType DEF Grows
<1>3. CASE RecordChunk(s, r)
  <2> DEFINE after == RecordVerifiedChunk(sess, r)
  <2>1. sess \in Sessions /\ sess.ready
    BY <1>1, <1>3, ReceivingFacts DEF RecordChunk
  <2>2. after \in Sessions /\ after.ready /\ after.records = sess.records \cup {r}
    BY <2>1, RecordVerifiedType
  <2>3. /\ sess' = after \/ sess' = Saved(after)
        /\ Fail(s) \/ (worker' = worker /\ resp' = resp)
        /\ completed' = completed
    BY <1>3 DEF RecordChunk, Save, SaveFails
  <2> HIDE DEF after
  <2>4. sess'.ready /\ sess'.records = sess.records \cup {r}
    BY <2>2, <2>3, SavedType
  <2>5. \A t \in Streams : Moves(t)
    BY <1>1, <2>3, FailMoves DEF Moves
  <2> QED
    BY <2>3, <2>4, <2>5 DEF Grows, Covered
<1> QED
  BY <1>2, <1>3 DEF RecvChunkComplete

(* The steps that are no frames, while the streams run. *)
LEMMA InternalMoves ==
  ASSUME ControlInv, AnswerInv, run = "streams", run' = "streams",
         \/ ClientStep \/ Environment
         \/ \E s \in Streams : Connect(s) \/ GivesUp(s)
         \/ SenderFault \/ UNCHANGED vars
  PROVE  /\ Grows /\ \A t \in Streams : Moves(t)
         /\ completed' = completed
         /\ ~sess'.ready => sess'.records = {}
<1>1. TypeOK /\ (~sess.ready => sess.records = {})
  BY DEF ControlInv, AnswerInv
<1>2. ASSUME sess' = sess, completed' = completed, \A t \in Streams : Moves(t)
      PROVE  /\ Grows /\ \A t \in Streams : Moves(t)
             /\ completed' = completed
             /\ ~sess'.ready => sess'.records = {}
  BY <1>1, <1>2 DEF Grows
<1>3. ASSUME UNCHANGED <<worker, resp>> PROVE \A t \in Streams : Moves(t)
  BY <1>3 DEF Moves
<1>4. ASSUME NEW s \in Streams, RemoveOutput(s) \/ RemoveManifest(s) \/ CreateTemp(s) \/ Connect(s)
      PROVE  sess' = sess /\ completed' = completed /\ \A t \in Streams : Moves(t)
  <2>1. /\ worker[s] \in {"removeOutput", "removeManifest", "create", "connect"}
        /\ sess' = sess /\ completed' = completed
    BY <1>4 DEF RemoveOutput, RemoveManifest, CreateTemp, Connect, shared
  <2>2. \/ Fail(s)
        \/ /\ resp' = resp
           /\ \E w \in {"removeManifest", "create", "save", "waitInit"} : Become(s, w)
    BY <1>4 DEF RemoveOutput, RemoveManifest, CreateTemp, Connect
  <2> QED
    BY <1>1, <2>1, <2>2, FailMoves, BecomeMoves DEF Preparing
<1>5. ASSUME NEW s \in Streams, WriteFails(s) \/ GivesUp(s)
      PROVE  sess' = sess /\ completed' = completed /\ \A t \in Streams : Moves(t)
  BY <1>1, <1>5, FailMoves DEF WriteFails, GivesUp, shared
<1>6. ASSUME NEW s \in Streams, SaveInit(s)
      PROVE  /\ Grows /\ \A t \in Streams : Moves(t)
             /\ completed' = completed
             /\ ~sess'.ready => sess'.records = {}
  <2> DEFINE new == [CreateNew(opts.id) EXCEPT !.ready = TRUE]
  <2>1. /\ worker[s] = "save" /\ completed' = completed
        /\ \/ Save(new, "Transferring") /\ Respond(s, {})
           \/ sess' = sess /\ Fail(s)
    BY <1>6 DEF SaveInit, SaveFails
  <2>2. ~sess.ready
    BY <2>1, PreparingFacts DEF Preparing
  <2>3. new \in Sessions /\ new.ready /\ new.records = {}
    BY <1>1, OptionsType, NewSessionType
  <2> HIDE DEF new
  <2>4. CASE sess' = sess /\ Fail(s)
    BY <1>1, <2>1, <2>4, FailMoves DEF Grows
  <2>5. CASE Save(new, "Transferring") /\ Respond(s, {})
    <3>1. sess'.ready /\ sess'.records = {}
      BY <2>3, <2>5, SavedType DEF Save
    <3>2. Missing({}) = Missing(sess'.records)
      BY <3>1
    <3>3. Grows
      BY <1>1, <2>2 DEF Grows, Covered
    <3> QED
      BY <1>1, <2>1, <2>5, <3>1, <3>2, <3>3, RespondMoves
  <2> QED
    BY <2>1, <2>4, <2>5
<1>7. CASE \/ SenderFault \/ UNCHANGED vars
           \/ \E i \in Ids, p \in Positions, v \in Content : TempDecays(i, p, v)
  BY <1>2, <1>3, <1>7 DEF SenderFault, TempDecays, vars, shared
<1>8. ~(\/ JoinFailed \/ JoinOk \/ SkipVerify \/ FullVerify \/ CheckOutput \/ RenameToOutput
        \/ SyncOutput \/ MarkCommitted \/ MarkFailed \/ Kill)
  BY DEF JoinFailed, JoinOk, Continue, SkipVerify, FullVerify, CheckOutput, RenameToOutput, SyncOutput,
     MarkCommitted, MarkFailed, Kill, Exit
<1> QED
  BY <1>2, <1>4, <1>5, <1>6, <1>7, <1>8 DEF ClientStep, Environment

(* Between two clients there is no session and no answer. *)
LEMMA AnswersEnd ==
  ASSUME ControlInv, AnswerInv, run' # "streams",
         [Next]_vars \/ SenderFault \/ \E s \in Streams : GivesUp(s)
  PROVE  AnswerInv'
<1>1. CASE sess' = NoSession /\ resp' = [s \in Streams |-> NoReply]
  BY <1>1, NoSessionType DEF AnswerInv, NoReply
<1>2. CASE run' = "down" /\ UNCHANGED <<run, sess, resp>>
  BY <1>2 DEF AnswerInv
<1>3. CASE run' # "down" /\ sess'.ready
  BY <1>3 DEF AnswerInv
<1>4. CASE JoinFailed \/ MarkCommitted \/ MarkFailed \/ Kill
  BY <1>1, <1>4 DEF JoinFailed, MarkCommitted, MarkFailed, Kill, Exit
<1>5. run = "down" => \A s \in Streams : worker[s] = "off"
  BY DEF ControlInv, WorkerInv
<1>6. CASE UNCHANGED <<run, sess, resp>>
  BY <1>2, <1>3, <1>6 DEF ControlInv, SessionInv, TypeOK
<1>7. CASE JoinOk \/ SkipVerify \/ FullVerify \/ CheckOutput \/ RenameToOutput \/ SyncOutput
  <2>1. run' \notin {"down", "streams"}
    BY <1>7 DEF JoinOk, SkipVerify, FullVerify, CheckOutput, RenameToOutput, SyncOutput, Continue, VerifyTemp
  <2>2. ControlInv'
    BY <1>7, ControlStep DEF Next, ClientStep
  <2> QED
    BY <1>3, <2>1, <2>2 DEF ControlInv, SessionInv
<1>8. ASSUME NEW s \in Streams, \/ Receive(s) \/ RemoveOutput(s) \/ RemoveManifest(s) \/ CreateTemp(s)
                                \/ SaveInit(s) \/ Connect(s) \/ WriteFails(s) \/ GivesUp(s)
      PROVE  FALSE
  <2>1. worker[s] \notin {"off", "ok"}
    <3>1. ASSUME NEW init \in Inits, RecvInit(s, init) PROVE worker[s] = "waitInit"
      BY <3>1 DEF RecvInit, InitRejected, InitJoins, PrepareResume, PrepareNew, AtInit
    <3>2. ASSUME NEW c, NEW p, NEW v, RecvData(s, c, p, v) PROVE worker[s] = "receive"
      BY <3>2 DEF RecvData, AcceptData, RefuseData, Receiving
    <3>3. ASSUME NEW r, RecvChunkComplete(s, r) PROVE worker[s] = "receive"
      BY <3>3 DEF RecvChunkComplete, RefuseChunk, RejectChunk, RecordChunk, Receiving
    <3>4. CASE Receive(s)
      BY <3>1, <3>2, <3>3, <3>4 DEF Receive, RecvFin, Receiving, ConnectionFails
    <3>5. CASE ~Receive(s)
      BY <1>8, <3>5 DEF RemoveOutput, RemoveManifest, CreateTemp, SaveInit, Connect, WriteFails, Receiving,
         GivesUp
    <3> QED
      BY <3>4, <3>5
  <2>2. run' = run
    <3>1. ASSUME Receive(s) PROVE run' = run
      BY <3>1, OtherFrames DEF Receive, RecvChunkComplete, RefuseChunk, RejectChunk, RecordChunk
    <3> QED
      BY <1>8, <3>1 DEF RemoveOutput, RemoveManifest, CreateTemp, SaveInit, Connect, WriteFails, GivesUp
  <2> QED
    BY <2>1, <2>2, ThreadRuns
<1>9. ASSUME NEW o \in Options, StartClient(o) PROVE FALSE
  BY <1>9 DEF StartClient
<1>10. CASE \/ SenderFault \/ UNCHANGED vars
            \/ \E i \in Ids, p \in Positions, v \in Content : TempDecays(i, p, v)
  BY <1>6, <1>10 DEF SenderFault, TempDecays, vars, shared
<1> QED
  BY <1>4, <1>7, <1>8, <1>9, <1>10 DEF Next, ClientStep, Environment

(* A step of a sending thread, which the client does not notice. *)
LEMMA SenderStream ==
  ASSUME SenderInv, NEW s \in Streams, StreamInv(s),
         SenderStep(s) \/ SendData(s, TRUE) \/ SenderThreadGivesUp(s)
  PROVE  /\ StreamInv(s)'
         /\ \A t \in Streams \ {s} : sender'[t] = sender[t] /\ net'[t] = net[t]
         /\ UNCHANGED <<run, sess, worker, resp, completed>>
<1> DEFINE Rest == /\ \A t \in Streams \ {s} : sender'[t] = sender[t] /\ net'[t] = net[t]
                   /\ UNCHANGED <<run, sess, worker, resp, completed>>
<1>1. /\ net[s] \in Seq(Frames)
      /\ \A t \in Streams : sender[t].todo \in SUBSET Plan
  BY DEF SenderInv
<1>2. ASSUME Rest, sender'[s].state = "failed" PROVE StreamInv(s)'
  BY <1>2 DEF StreamInv, Answered
<1>3. CASE SendInit(s)
  <2> DEFINE f == [type |-> "init"]
  <2>1. f \in Frames /\ f.type # "fin" /\ Send(s, f)
    BY <1>3 DEF SendInit, Frames
  <2> HIDE DEF f
  <2>2. net'[s] = Append(net[s], f) /\ \A t \in Streams \ {s} : net'[t] = net[t]
    BY <2>1, SendType
  <2>3. /\ sender[s].state = "init" /\ sender'[s].state = "waitResponse"
        /\ \A t \in Streams \ {s} : sender'[t] = sender[t]
    BY <1>3, TurnType DEF SendInit, SenderStates
  <2>4. Rest
    BY <1>3, <2>2, <2>3 DEF SendInit, vars, shared
  <2>5. s \notin completed /\ NoFin(net[s])
    BY <2>3 DEF StreamInv
  <2>6. NoFin(net'[s])
    BY <1>1, <2>1, <2>2, <2>5, FrameAppended
  <2> QED
    BY <2>3, <2>4, <2>5, <2>6 DEF StreamInv, Answered
<1>4. CASE RecvResponse(s)
  <2> DEFINE todo == ToSend(s, resp[s].missing)
  <2>1. /\ sender[s].state = "waitResponse" /\ resp[s].known
        /\ sender' = [sender EXCEPT ![s] = Thread("send", todo)]
        /\ Rest
    BY <1>4 DEF RecvResponse, vars, shared, SenderInv
  <2>2. sender'[s].state = "send" /\ sender'[s].todo = todo
    BY <2>1 DEF SenderInv, Thread
  <2>3. /\ s \notin completed /\ NoFin(net[s]) /\ net'[s] = net[s]
        /\ worker[s] \in {"receive", "ok"}
        /\ Positions \ resp[s].missing \subseteq Covered(sess.records)
    BY <1>4, <2>1 DEF StreamInv, Answered, RecvResponse
  <2>4. ASSUME NEW c \in Assigned(s) PROVE Delivered(c)' \/ c \in sender'[s].todo
    <3>1. CASE ChunkRange(c) \cap resp[s].missing = {}
      <4>1. ChunkRange(c) \subseteq Positions \ resp[s].missing
        BY <3>1 DEF ChunkRange
      <4> QED
        BY <2>1, <2>3, <4>1 DEF Delivered
    <3>2. CASE ChunkRange(c) \cap resp[s].missing # {}
      BY <2>2, <2>4, <3>2 DEF ToSend
    <3> QED
      BY <3>1, <3>2
  <2>5. Rest
    BY <2>1
  <2> HIDE DEF todo
  <2>6. Answered(s)'
    BY <2>5 DEF StreamInv, Answered
  <2>7. \A c \in Assigned(s) : Due(s, c)'
    BY <2>4 DEF Due
  <2> QED
    BY <2>2, <2>3, <2>5, <2>6, <2>7 DEF StreamInv
<1>5. ASSUME NEW f \in Frames, f.type \in {"data", "complete"}, Send(s, f),
             sender[s].state = "send", sender'[s].state = "send",
             \A t \in Streams \ {s} : sender'[t] = sender[t],
             UNCHANGED <<run, sess, worker, resp, completed>>,
             \/ sender'[s].todo = sender[s].todo
             \/ sender'[s].todo = sender[s].todo \ {f.record.chunk} /\ f.type = "complete"
      PROVE  StreamInv(s)' /\ Rest
  <2>1. net'[s] = Append(net[s], f) /\ \A t \in Streams \ {s} : net'[t] = net[t]
    BY <1>5, SendType
  <2>2. /\ s \notin completed /\ NoFin(net[s]) /\ worker[s] \in {"receive", "ok", "failed"}
        /\ worker[s] # "failed" => \A c \in Assigned(s) : Due(s, c)
    BY <1>5 DEF StreamInv
  <2>3. NoFin(net'[s])
    BY <1>1, <1>5, <2>1, <2>2, FrameAppended
  <2>4. ASSUME NEW c, Due(s, c) PROVE Due(s, c)'
    <3>1. CompleteIn(net[s], c) => CompleteIn(net'[s], c)
      BY <1>1, <2>1, FrameAppended
    <3>2. f.type = "complete" => CompleteIn(net'[s], f.record.chunk)
      BY <1>1, <2>1, FrameAppended
    <3>3. Delivered(c) => Delivered(c)'
      BY <1>5 DEF Delivered
    <3>4. c \in sender[s].todo => c \in sender'[s].todo \/ (c = f.record.chunk /\ f.type = "complete")
      BY <1>5
    <3> QED
      BY <2>4, <3>1, <3>2, <3>3, <3>4 DEF Due
  <2>5. Answered(s)'
    BY <1>5 DEF StreamInv, Answered
  <2> QED
    BY <1>5, <2>1, <2>2, <2>3, <2>4, <2>5 DEF StreamInv
<1>6. ASSUME NEW damaged \in BOOLEAN, SendData(s, damaged) PROVE StreamInv(s)' /\ Rest
  BY <1>5, <1>6, SendDataFacts
<1>7. CASE SendChunkComplete(s)
  BY <1>5, <1>7, SendChunkCompleteFacts DEF vars, shared
<1>8. CASE SendFin(s)
  <2> DEFINE f == [type |-> "fin"]
  <2>1. f \in Frames /\ Send(s, f)
    BY <1>8 DEF SendFin, Frames
  <2> HIDE DEF f
  <2>2. net'[s] = Append(net[s], f) /\ \A t \in Streams \ {s} : net'[t] = net[t]
    BY <2>1, SendType
  <2>3. /\ sender[s].state = "send" /\ sender'[s].state = "waitFinal"
        /\ sender[s].todo = {} /\ sender'[s].todo = {}
        /\ \A t \in Streams \ {s} : sender'[t] = sender[t]
    BY <1>8, TurnType DEF SendFin, SenderStates
  <2>4. Rest
    BY <1>8, <2>2, <2>3 DEF SendFin, vars, shared
  <2>5. /\ s \notin completed /\ NoFin(net[s]) /\ worker[s] \in {"receive", "ok", "failed"}
        /\ worker[s] # "failed" => \A c \in Assigned(s) : Due(s, c)
    BY <2>3 DEF StreamInv
  <2>6. FinLast(net'[s])
    BY <1>1, <2>1, <2>2, <2>5, FrameAppended
  <2>7. \A c : Due(s, c) => Due(s, c)'
    <3>1. \A c : CompleteIn(net[s], c) => CompleteIn(net'[s], c)
      BY <1>1, <2>1, <2>2, FrameAppended
    <3>2. \A c : Delivered(c) => Delivered(c)'
      BY <2>4 DEF Delivered
    <3> QED
      BY <2>3, <3>1, <3>2 DEF Due
  <2>8. Answered(s)'
    BY <2>4 DEF StreamInv, Answered
  <2> QED
    BY <2>3, <2>4, <2>5, <2>6, <2>7, <2>8 DEF StreamInv
<1>9. CASE RecvFinal(s)
  <2>1. /\ sender[s].state = "waitFinal" /\ sender'[s].state = "ok" /\ s \in completed
        /\ net' = net /\ \A t \in Streams \ {s} : sender'[t] = sender[t]
    BY <1>9, TurnType DEF RecvFinal, SenderStates
  <2>2. Rest
    BY <1>9, <2>1 DEF RecvFinal, vars, shared
  <2>3. \A c \in Assigned(s) : Delivered(c)'
    BY <2>1, <2>2 DEF StreamInv, Delivered
  <2>4. Answered(s)'
    BY <2>2 DEF StreamInv, Answered
  <2> QED
    BY <2>1, <2>2, <2>3, <2>4 DEF StreamInv
<1>10. CASE SenderThreadFails(s)
  <2>1. sender'[s].state = "failed" /\ net' = net /\ \A t \in Streams \ {s} : sender'[t] = sender[t]
    BY <1>10, TurnType DEF SenderThreadFails, SenderStates
  <2>2. Rest
    BY <1>10, <2>1 DEF SenderThreadFails, vars, shared
  <2> QED
    BY <1>2, <2>1, <2>2
<1>11. CASE SenderThreadGivesUp(s)
  <2>1. sender'[s].state = "failed" /\ \A t \in Streams \ {s} : sender'[t] = sender[t]
    BY <1>11, TurnType DEF SenderThreadGivesUp, SenderStates
  <2>2. Rest
    BY <1>11, <2>1 DEF SenderThreadGivesUp, shared, SenderInv
  <2> QED
    BY <1>2, <2>1, <2>2
<1> QED
  BY <1>3, <1>4, <1>6, <1>7, <1>8, <1>9, <1>10, <1>11 DEF SenderStep

(* The listener and a sender that is killed. *)
LEMMA ListenerStream ==
  ASSUME SenderInv, \A s \in Streams : StreamInv(s), Listener \/ KillSender
  PROVE  /\ \A s \in Streams : StreamInv(s)'
         /\ UNCHANGED <<run, sess, worker, resp, completed>>
<1>1. UNCHANGED <<run, sess, worker, resp, completed, net>>
  BY DEF Listener, StartThreads, AcceptTimesOut, KillSender, vars, shared
<1>2. ASSUME NEW s \in Streams PROVE StreamInv(s)'
  <2>1. Answered(s)'
    BY <1>1 DEF StreamInv, Answered
  <2>2. CASE StartThreads
    <3>1. sender'[s].state = "init" /\ sender[s].state = "accepted"
      BY <2>2, AllTurnType DEF StartThreads, SenderStates
    <3> QED
      BY <1>1, <2>1, <3>1 DEF StreamInv
  <2>3. CASE AcceptTimesOut \/ KillSender
    <3>1. sender'[s].state = "failed"
      BY <2>3, AllTurnType DEF AcceptTimesOut, KillSender, SenderStates
    <3> QED
      BY <2>1, <3>1 DEF StreamInv
  <2> QED
    BY <2>2, <2>3 DEF Listener
<1> QED
  BY <1>1, <1>2

(* A frame arrives. *)
LEMMA DeliverStream ==
  ASSUME ControlInv, SenderInv, AnswerInv, run = "streams", NEW s \in Streams, Deliver(s)
  PROVE  /\ \A t \in Streams : StreamInv(t)'
         /\ ~sess'.ready => sess'.records = {}
<1> DEFINE f == Head(net[s])
<1>1. /\ net[s] \in Seq(Frames) /\ Len(net[s]) > 0
      /\ f \in Frames /\ f = net[s][1]
      /\ Handle(s, f)
      /\ net'[s] = Tail(net[s])
      /\ \A t \in Streams \ {s} : net'[t] = net[t]
      /\ UNCHANGED <<job, sender>>
  BY DeliverFacts
<1> HIDE DEF f
<1>2. /\ Grows /\ \A t \in Streams : Moves(t)
      /\ ~sess'.ready => sess'.records = {}
      /\ completed' = completed \/ (completed' = completed \cup {s} /\ f.type = "fin" /\ RecvFin(s))
      /\ f.type = "complete" =>
           worker'[s] = "failed" \/ ChunkRange(f.record.chunk) \subseteq Covered(sess'.records)
      /\ f.type = "fin" => RecvFin(s)
  <2>1. CASE f.type = "init"
    BY <1>1, <2>1, RecvInitMoves DEF Handle, SenderInv
  <2>2. CASE f.type = "data"
    <3>1. /\ RecvData(s, f.chunk, f.pos, f.value)
          /\ f.chunk \in ChunkIds /\ f.pos \in Positions /\ f.value \in Content
      BY <1>1, <2>2, FrameTypes DEF Handle
    <3>2. completed' = completed
      BY <3>1 DEF RecvData, AcceptData, RefuseData
    <3> QED
      BY <2>2, <3>1, <3>2, FrameMoves
  <2>3. CASE f.type = "complete"
    <3> DEFINE r == f.record
    <3>1. Complete(r) /\ RecvChunkComplete(s, r)
      BY <1>1, <2>3, FrameTypes DEF Handle
    <3>2. r \in ChunkRecords /\ ChunkRange(r.chunk) \subseteq Blocks(r)
      BY <3>1 DEF Complete
    <3> HIDE DEF r
    <3>3. /\ Grows /\ \A t \in Streams : Moves(t)
          /\ completed' = completed
          /\ ~sess'.ready => sess'.records = {}
          /\ worker'[s] = "failed" \/ Blocks(r) \subseteq Covered(sess'.records)
      BY <3>1, <3>2, ChunkCompleteMoves
    <3> QED
      BY <2>3, <3>2, <3>3 DEF r
  <2>4. CASE f.type = "fin"
    <3>1. RecvFin(s)
      BY <1>1, <2>4 DEF Handle
    <3> QED
      BY <2>4, <3>1, FrameMoves
  <2> QED
    BY <1>1, <2>1, <2>2, <2>3, <2>4, FrameTypes
<1>3. \A t \in Streams : StreamInv(t)
  BY DEF AnswerInv
<1>4. ASSUME NEW t \in Streams \ {s} PROVE StreamInv(t)'
  <2>1. t \in completed' <=> t \in completed
    BY <1>2
  <2> QED
    BY <1>1, <1>2, <1>3, <2>1, KeepStream
<1>5. Answered(s)'
  BY <1>2, <1>3, AnsweredStep DEF StreamInv
<1>6. \A c : Delivered(c) => Delivered(c)'
  BY <1>2 DEF Delivered, Grows
<1>7. /\ worker[s] \in {"receive", "ok", "failed"} => worker'[s] \in {"receive", "ok", "failed"}
      /\ worker[s] = "failed" => worker'[s] = "failed"
  BY <1>2 DEF Moves
<1>8. ASSUME NEW c, Due(s, c), worker'[s] # "failed" PROVE Due(s, c)'
  <2>1. CompleteIn(net[s], c) =>
          CompleteIn(net'[s], c) \/ (f.type = "complete" /\ f.record.chunk = c)
    BY <1>1, FrameTaken
  <2>2. f.type = "complete" /\ f.record.chunk = c => Delivered(c)'
    BY <1>2, <1>8 DEF Delivered
  <2> QED
    BY <1>1, <1>6, <1>8, <2>1, <2>2 DEF Due
<1>9. /\ NoFin(net[s]) => NoFin(net'[s]) /\ f.type # "fin"
      /\ FinLast(net[s]) => FinLast(net'[s])
      /\ FinLast(net[s]) /\ f.type = "fin" => \A c : ~CompleteIn(net[s], c)
  BY <1>1, FrameTaken
<1>10. sender[s].state \in {"waitFinal", "ok"} /\ s \in completed' =>
         \A c \in Assigned(s) : Delivered(c)'
  <2>1. CASE s \in completed
    BY <1>3, <1>6, <2>1 DEF StreamInv
  <2>2. CASE sender[s].state = "waitFinal" /\ s \in completed' /\ s \notin completed
    <3>1. f.type = "fin" /\ RecvFin(s)
      BY <1>2, <2>2
    <3>2. worker[s] = "receive"
      BY <3>1 DEF RecvFin, Receiving
    <3>3. sender[s].todo = {} /\ FinLast(net[s]) /\ \A c \in Assigned(s) : Due(s, c)
      BY <1>3, <2>2, <3>2 DEF StreamInv
    <3> QED
      BY <1>6, <1>9, <3>1, <3>3 DEF Due
  <2>3. sender[s].state = "ok" => s \in completed
    BY <1>3 DEF StreamInv
  <2> QED
    BY <2>1, <2>2, <2>3
<1>11. s \in completed => s \in completed'
  BY <1>2
<1>12. f.type # "fin" => completed' = completed
  BY <1>2
<1>13. StreamInv(s)'
  <2>1. sender[s].state \in {"listen", "accepted", "init", "waitResponse", "send"} =>
          s \notin completed' /\ NoFin(net'[s])
    BY <1>3, <1>9, <1>12 DEF StreamInv
  <2>2. sender[s].state = "waitFinal" => sender[s].todo = {} /\ FinLast(net'[s])
    BY <1>3, <1>9 DEF StreamInv
  <2>3. /\ sender[s].state \in {"send", "waitFinal"} => worker'[s] \in {"receive", "ok", "failed"}
        /\ sender[s].state = "ok" => s \in completed'
    BY <1>3, <1>7, <1>11 DEF StreamInv
  <2>4. sender[s].state \in {"send", "waitFinal"} /\ worker'[s] # "failed" =>
          \A c \in Assigned(s) : Due(s, c)'
    BY <1>3, <1>7, <1>8 DEF StreamInv
  <2> QED
    BY <1>1, <1>5, <1>10, <2>1, <2>2, <2>3, <2>4 DEF StreamInv
<1> QED
  BY <1>2, <1>4, <1>13

(* A connection is accepted. *)
LEMMA AcceptStream ==
  ASSUME ControlInv, SenderInv, AnswerInv, run = "streams", NEW s \in Streams, Accept(s)
  PROVE  /\ \A t \in Streams : StreamInv(t)'
         /\ ~sess'.ready => sess'.records = {}
<1>1. /\ sender[s].state = "listen" /\ sender'[s].state = "accepted"
      /\ \A t \in Streams \ {s} : sender'[t] = sender[t]
      /\ net' = net /\ Connect(s)
  BY TurnType DEF Accept, SenderStates
<1>2. /\ Grows /\ \A t \in Streams : Moves(t)
      /\ completed' = completed
      /\ ~sess'.ready => sess'.records = {}
  <2>1. run' = "streams"
    BY <1>1 DEF Connect
  <2> QED
    BY <1>1, <2>1, InternalMoves
<1>3. \A t \in Streams : StreamInv(t)
  BY DEF AnswerInv
<1>4. ASSUME NEW t \in Streams \ {s} PROVE StreamInv(t)'
  BY <1>1, <1>2, <1>3, KeepStream
<1>5. StreamInv(s)'
  <2>1. Answered(s)'
    BY <1>2, <1>3, AnsweredStep DEF StreamInv
  <2>2. s \notin completed' /\ NoFin(net'[s])
    BY <1>1, <1>2, <1>3 DEF StreamInv
  <2> QED
    BY <1>1, <2>1, <2>2 DEF StreamInv
<1> QED
  BY <1>2, <1>4, <1>5

(* Both sides are started. *)
LEMMA LaunchStream ==
  ASSUME ControlInv, AnswerInv, NEW o \in Options, NEW init \in Inits, Launch(o, init)
  PROVE  AnswerInv'
<1>1. /\ run = "down" /\ run' = "streams" /\ completed' = {} /\ UNCHANGED <<sess, resp>>
      /\ AllTurn("listen") /\ net' = [s \in Streams |-> <<>>]
  BY DEF Launch, StartClient, shared
<1>2. ASSUME NEW s \in Streams PROVE StreamInv(s)'
  <2>1. sender'[s].state = "listen" /\ net'[s] = <<>>
    BY <1>1, AllTurnType DEF SenderStates
  <2>2. NoFin(net'[s])
    BY <2>1 DEF NoFin
  <2>3. Answered(s)'
    BY <1>1 DEF Answered, AnswerInv
  <2> QED
    BY <1>1, <2>1, <2>2, <2>3 DEF StreamInv
<1> QED
  BY <1>1, <1>2 DEF AnswerInv

(* Every step keeps account of the chunks. *)
LEMMA AnswerStep ==
  ASSUME ControlInv, SenderInv, AnswerInv, [TransferNext]_allVars
  PROVE  AnswerInv'
<1>1. CASE run' # "streams"
  BY <1>1, AnswersEnd, ClientStepKinds
<1>2. ASSUME NEW o \in Options, NEW init \in Inits, Launch(o, init) PROVE AnswerInv'
  BY <1>2, LaunchStream
<1>3. ASSUME run = "streams", run' = "streams",
             \A s \in Streams : StreamInv(s)', ~sess'.ready => sess'.records = {}
      PROVE  AnswerInv'
  BY <1>3 DEF AnswerInv
<1>4. ASSUME run = "streams", run' = "streams", UNCHANGED sending,
             \/ ClientStep \/ Environment \/ UNCHANGED vars
             \/ \E s \in Streams : GivesUp(s)
      PROVE  AnswerInv'
  <2>1. /\ Grows /\ \A t \in Streams : Moves(t)
        /\ completed' = completed
        /\ ~sess'.ready => sess'.records = {}
    BY <1>4, InternalMoves
  <2>2. \A s \in Streams : StreamInv(s)'
    BY <1>4, <2>1, KeepStream DEF AnswerInv, sending
  <2> QED
    BY <1>3, <1>4, <2>1, <2>2
<1>5. ASSUME run = "streams", NEW s \in Streams,
             SenderStep(s) \/ SendData(s, TRUE) \/ SenderThreadGivesUp(s)
      PROVE  AnswerInv'
  <2>1. StreamInv(s)
    BY <1>5 DEF AnswerInv
  <2>2. /\ StreamInv(s)'
        /\ \A t \in Streams \ {s} : sender'[t] = sender[t] /\ net'[t] = net[t]
        /\ UNCHANGED <<run, sess, worker, resp, completed>>
    BY <1>5, <2>1, SenderStream
  <2>3. Grows /\ \A t \in Streams : Moves(t)
    BY <2>2 DEF Grows, Moves
  <2>4. \A t \in Streams \ {s} : StreamInv(t)'
    BY <1>5, <2>2, <2>3, KeepStream DEF AnswerInv
  <2> QED
    BY <1>5, <2>2, <2>4 DEF AnswerInv
<1>6. ASSUME run = "streams", Listener \/ KillSender PROVE AnswerInv'
  BY <1>6, ListenerStream DEF AnswerInv
<1>7. ASSUME run = "streams", run' = "streams", NEW s \in Streams, Accept(s) \/ Deliver(s)
      PROVE  AnswerInv'
  BY <1>3, <1>7, AcceptStream, DeliverStream
<1>8. ASSUME run = "streams", run' = "streams", NEW s \in Streams, DeliverClose(s)
      PROVE  AnswerInv'
  <2>1. UNCHANGED sending /\ ConnectionFails(s)
    BY <1>8 DEF DeliverClose
  <2>2. /\ Grows /\ \A t \in Streams : Moves(t)
        /\ ~sess'.ready => sess'.records = {}
        /\ completed' = completed
    BY <2>1, FrameMoves DEF ConnectionFails
  <2>3. \A t \in Streams : StreamInv(t)'
    BY <1>8, <2>1, <2>2, KeepStream DEF AnswerInv, sending
  <2> QED
    BY <1>3, <1>8, <2>2, <2>3
<1>9. ASSUME NEW s \in Streams, ClientThreadGivesUp(s) PROVE GivesUp(s) /\ UNCHANGED sending
  BY <1>9 DEF ClientThreadGivesUp, GivesUp, shared, disk, sending
<1>10. CASE run # "streams" /\ run' = "streams"
  <2>1. run' = run \/ \E o \in Options, init \in Inits : Launch(o, init)
    <3>1. ASSUME ClientStep \/ Environment PROVE run' # "streams" \/ run' = run
      BY <3>1 DEF ClientStep, Environment, RemoveOutput, RemoveManifest, CreateTemp, SaveInit, JoinFailed, JoinOk,
         SkipVerify, FullVerify, VerifyTemp, CheckOutput, RenameToOutput, SyncOutput, MarkCommitted, MarkFailed,
         Exit, Continue, Kill, WriteFails, TempDecays
    <3>2. ASSUME NEW s \in Streams, Accept(s) \/ Deliver(s) \/ DeliverClose(s) PROVE run' = run
      <4>1. Connect(s) \/ Receive(s)
        BY <3>2, DeliverFacts, HandleReceives DEF Accept, DeliverClose, Receive
      <4> QED
        BY <4>1, OtherFrames DEF Connect, Receive, RecvChunkComplete, RefuseChunk, RejectChunk, RecordChunk
    <3>3. ASSUME NEW s \in Streams, SenderStep(s) \/ SendData(s, TRUE) \/ SenderThreadGivesUp(s)
          PROVE  run' = run
      <4>1. ASSUME NEW damaged \in BOOLEAN, SendData(s, damaged) PROVE run' = run
        BY <4>1, SendDataFacts
      <4> QED
        BY <3>3, <4>1 DEF SenderStep, SendInit, RecvResponse, SendChunkComplete, SendFin, RecvFinal,
           SenderThreadFails, SenderThreadGivesUp, vars
    <3> QED
      BY <1>9, <1>10, <3>1, <3>2, <3>3 DEF TransferNext, ClientThread, ClientInternal, Listener, StartThreads,
         AcceptTimesOut, KillSender, GivesUp, allVars, vars
  <2> QED
    BY <1>2, <1>10, <2>1
<1>11. CASE run = "streams" /\ run' = "streams"
  BY <1>2, <1>4, <1>5, <1>6, <1>7, <1>8, <1>9, <1>11
  DEF TransferNext, ClientThread, ClientInternal, allVars, sending
<1> QED
  BY <1>1, <1>10, <1>11

(* What the sender relies on when it reports success before the client has   *)
(* committed: every chunk of the plan belongs to a stream, and a stream's    *)
(* COMPLETE answers a FIN that followed all its chunks.                      *)
THEOREM SenderOkVerified == TransferSpec => []SenderOkMeansVerified
<1>1. TransferInit => AnswerInv
  BY NoSessionType DEF TransferInit, Init, AnswerInv, NoReply
<1>2. TransferInv => ControlInv /\ SenderInv
  BY DEF TransferInv, InductiveInv, ControlInv
<1>3. AnswerInv => SenderOkMeansVerified
  <2> SUFFICES ASSUME AnswerInv, SenderOk, run = "streams", NEW p \in Positions
               PROVE  p \in Covered(sess.records)
    BY DEF SenderOkMeansVerified, Missing
  <2> DEFINE c == p \div ChunkBlocks
             n == Cardinality(Streams)
             s == c % n
  <2>1. c \in Plan /\ c \in Nat /\ p \in ChunkRange(c)
    BY PlanRanges, PlanAssumption, DownloadAssumption
  <2>2. n \in Nat /\ n # 0
    BY TransferAssumption, ReceiverAssumption, FS_CardinalityType, FS_EmptySet
  <2> HIDE DEF c, n
  <2>3. s \in 0 .. n - 1
    BY <2>1, <2>2
  <2>4. s \in Streams /\ c \in Assigned(s)
    BY <2>1, <2>3, TransferAssumption DEF n, Assigned
  <2> HIDE DEF s
  <2>5. Delivered(c)
    BY <2>4 DEF AnswerInv, SenderOk, StreamInv
  <2> QED
    BY <2>1, <2>5 DEF Delivered
<1>4. AnswerInv /\ TransferInv /\ [TransferNext]_allVars => AnswerInv'
  BY <1>2, AnswerStep
<1>5. TransferSpec => []TransferInv
  BY TransferInvInit, TransferInvStep, PTL DEF TransferSpec
<1> QED
  BY <1>1, <1>3, <1>4, <1>5, PTL DEF TransferSpec
=============================================================================
