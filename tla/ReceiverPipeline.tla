--------------------------- MODULE ReceiverPipeline ---------------------------
(***************************************************************************)
(* The receiver's threads with the channels between them and the joins of  *)
(* receiver.rs: run.                                                       *)
(*                                                                         *)
(*   UDP thread -> packets -> workers -> write_queue -> writer -> file     *)
(*                                                                         *)
(* Both channels are bounded.  What the threads do to the block tracker,   *)
(* and the ack manager, are those of ReceiverState; this module adds where *)
(* a packet is between two threads, how each thread ends, and in which     *)
(* order run waits for them.  Once run has returned the process exits.     *)
(***************************************************************************)
EXTENDS Wire

CONSTANTS
  Grace, IdleTimeout, MaxRounds,  \* as in ReceiverState
  ChannelCapacity,  \* of either channel: PIPELINE_DEPTH * PACKETS_PER_BLOCK * 2
  NumWorkers        \* pipeline::NUM_WORKERS

ASSUME ReceiverPipelineAssumption ==
  /\ ChannelCapacity \in Nat \ {0}
  /\ NumWorkers \in Nat \ {0}
  /\ IdleTimeout \in Nat \ {0}
  /\ Grace \in 0 .. IdleTimeout
  /\ MaxRounds \in Nat

VARIABLES
  rx_blocks, rx_completed, verified,            \* as in ReceiverState
  ready, closing, ack_completed, gave_up,
  running,      \* the AtomicBool that run clears
  udp,          \* the UDP thread: "recv", "send", "leaving", "ok" or "err"
  udp_packet,   \* the packet it is sending, if any (a set)
  packets,      \* the packet channel
  worker,       \* each worker: "recv", "verify", "send", "ok" or "err"
  job,          \* the packet each worker has in hand, if any (a set)
  write_queue,  \* the write channel, as chunk ids
  writer,       \* the writer: "run", "ok" or "err"
  pending, next_chunk,
  run,          \* what run waits for: "ack", "udp", "workers", "writer"; or
                \* how it returned: "ok", "err"
  io_faults     \* I/O errors so far; MaxFaults bounds them and faults together

Workers == 1 .. NumWorkers

trackerVars == <<rx_blocks, rx_completed, verified>>
ackMgrVars  == <<ready, closing, ack_completed, gave_up>>
udpVars     == <<running, udp, udp_packet>>
workerVars  == <<worker, job>>
writerVars  == <<writer, pending, next_chunk>>
queueVars   == <<packets, write_queue>>
threadVars  == <<udpVars, workerVars, writerVars, queueVars, run, io_faults>>
rpVars      == <<trackerVars, ackMgrVars, threadVars, wireVars>>

-------------------------------------------------------------------------------
(* The tracker's own view: packets that were received and not verified,    *)
(* wherever they are, and whether the UDP thread is still in its loop.     *)

Verifying == [w \in Workers |-> IF worker[w] = "verify" THEN job[w] ELSE {}]

Copies(d) == Count(packets, d) + InHand(Verifying, d) + Cardinality({d} \cap udp_packet)

Unverified == [d \in Datagrams |-> Copies(d)]

R == INSTANCE ReceiverState WITH packet_queue <- Unverified, running <- udp # "ok"

RpInit ==
  /\ running = TRUE
  /\ udp = "recv"
  /\ udp_packet = {}
  /\ packets = <<>>
  /\ worker = [w \in Workers |-> "recv"]
  /\ job = [w \in Workers |-> {}]
  /\ write_queue = <<>>
  /\ writer = "run"
  /\ pending = {}
  /\ next_chunk = 0
  /\ run = "ack"
  /\ io_faults = 0
  /\ R!RxInit

IoFault == faults + io_faults < MaxFaults /\ io_faults' = io_faults + 1

-------------------------------------------------------------------------------
(* receiver_thread.  After a datagram it looks at the flag again: it stays *)
(* in its loop, or leaves.                                                 *)

RecvData ==
  /\ udp = "recv"
  /\ udp' = "send"
  /\ \E d \in InFlight :
       /\ d.tag = "DATA"
       /\ udp_packet' = {d}
       /\ Receive(d)
       /\ R!touch_activity(d.block_id, Total(d.block_id))
  /\ UNCHANGED <<verified, ackMgrVars, running, workerVars, writerVars, queueVars, run,
                 io_faults, acks>>

RecvBlockEnd ==
  /\ udp = "recv"
  /\ udp' = IF running THEN "recv" ELSE "leaving"
  /\ \E d \in InFlight :
       /\ d.tag = "BLOCK_END"
       /\ Receive(d)
       /\ R!mark_end_seen(d.block_id, d.total_packets)
  /\ UNCHANGED <<verified, ackMgrVars, running, udp_packet, workerVars, writerVars, queueVars,
                 run, io_faults, acks>>

(* Mutants: the send does not block but drops the packet; or never blocks. *)
PushPacket_drops ==
  /\ udp = "send"
  /\ \E d \in udp_packet :
       packets' = IF Len(packets) < ChannelCapacity THEN Append(packets, d) ELSE packets
  /\ udp_packet' = {}
  /\ udp' = IF running THEN "recv" ELSE "ok"
  /\ UNCHANGED <<trackerVars, ackMgrVars, running, workerVars, writerVars, write_queue, run,
                 io_faults, wireVars>>

PushPacket_unbounded ==
  /\ udp = "send"
  /\ \E d \in udp_packet : packets' = Append(packets, d)
  /\ udp_packet' = {}
  /\ udp' = IF running THEN "recv" ELSE "ok"
  /\ UNCHANGED <<trackerVars, ackMgrVars, running, workerVars, writerVars, write_queue, run,
                 io_faults, wireVars>>

(* tx.send blocks while the packet channel is full.  It does not fail:     *)
(* run keeps a receiver of the channel, packet_rx, until it returns.       *)
PushPacket ==
  /\ udp = "send"
  /\ Len(packets) < ChannelCapacity
  /\ \E d \in udp_packet : packets' = Append(packets, d)
  /\ udp_packet' = {}
  /\ udp' = IF running THEN "recv" ELSE "ok"
  /\ UNCHANGED <<trackerVars, ackMgrVars, running, workerVars, writerVars, write_queue, run,
                 io_faults, wireVars>>

(* The loop ends: after a BlockEnd, or when recv_from timed out. *)
UdpLeaves ==
  /\ ~running
  /\ udp \in {"recv", "leaving"}
  /\ udp' = "ok"
  /\ UNCHANGED <<trackerVars, ackMgrVars, running, udp_packet, workerVars, writerVars, queueVars,
                 run, io_faults, wireVars>>

UdpFails ==
  /\ udp = "recv"
  /\ IoFault
  /\ udp' = "err"
  /\ UNCHANGED <<trackerVars, ackMgrVars, running, udp_packet, workerVars, writerVars, queueVars,
                 run, wireVars>>

-------------------------------------------------------------------------------
(* worker_thread. *)

TakePacket(w) ==
  /\ worker[w] = "recv"
  /\ packets # <<>>
  /\ packets' = Tail(packets)
  /\ worker' = [worker EXCEPT ![w] = "verify"]
  /\ job' = [job EXCEPT ![w] = {Head(packets)}]
  /\ UNCHANGED <<trackerVars, ackMgrVars, udpVars, writerVars, write_queue, run, io_faults,
                 wireVars>>

(* The packet channel is empty and its sender, the UDP thread, is gone. *)
WorkerLeaves(w) ==
  /\ worker[w] = "recv"
  /\ packets = <<>>
  /\ udp \in {"ok", "err"}
  /\ worker' = [worker EXCEPT ![w] = "ok"]
  /\ UNCHANGED <<trackerVars, ackMgrVars, udpVars, job, writerVars, queueVars, run, io_faults,
                 wireVars>>

Verify(w) ==
  /\ worker[w] = "verify"
  /\ worker' = [worker EXCEPT ![w] = "send"]
  /\ \E d \in job[w] :
       /\ R!mark_verified(d.block_id, d.packet_in_block, Total(d.block_id))
       /\ verified' = verified \cup {chunk_id_of(d.block_id, d.packet_in_block)}
  /\ UNCHANGED <<ackMgrVars, udpVars, job, writerVars, queueVars, run, io_faults, wireVars>>

Reject(w) ==
  /\ worker[w] = "verify"
  /\ faults < MaxFaults
  /\ faults' = faults + 1
  /\ worker' = [worker EXCEPT ![w] = "recv"]
  /\ job' = [job EXCEPT ![w] = {}]
  /\ UNCHANGED <<trackerVars, ackMgrVars, udpVars, writerVars, queueVars, run, io_faults, net,
                 acks>>

SendChunk(w) ==
  /\ worker[w] = "send"
  /\ writer = "run"
  /\ Len(write_queue) < ChannelCapacity
  /\ \E d \in job[w] :
       write_queue' = Append(write_queue, chunk_id_of(d.block_id, d.packet_in_block))
  /\ worker' = [worker EXCEPT ![w] = "recv"]
  /\ job' = [job EXCEPT ![w] = {}]
  /\ UNCHANGED <<trackerVars, ackMgrVars, udpVars, writerVars, packets, run, io_faults, wireVars>>

(* The writer has left, and the receiving end of the channel with it. *)
SendFails(w) ==
  /\ worker[w] = "send"
  /\ writer # "run"
  /\ worker' = [worker EXCEPT ![w] = "err"]
  /\ job' = [job EXCEPT ![w] = {}]
  /\ UNCHANGED <<trackerVars, ackMgrVars, udpVars, writerVars, queueVars, run, io_faults,
                 wireVars>>

-------------------------------------------------------------------------------
(* writer_thread. *)

Gone(w) == worker[w] \in {"ok", "err"}

(* Mutant: every chunk that is held is written, past a missing one. *)
NextUnwritten_jumps(held) ==
  CHOOSE n \in next_chunk .. TotalChunks :
    /\ \A c \in held : c < n
    /\ n = next_chunk \/ n - 1 \in held

(* The first chunk from next_chunk on that is not held. *)
NextUnwritten(held) ==
  CHOOSE n \in next_chunk .. TotalChunks :
    /\ n \notin held
    /\ next_chunk .. n - 1 \subseteq held

(* Mutant: the last chunk is not waited for. *)
FileDone_short(n) == n + 1 >= TotalChunks

FileDone(n) == n >= TotalChunks

(* One chunk off the channel, and every write it makes possible. *)
WriteChunk ==
  /\ writer = "run"
  /\ write_queue # <<>>
  /\ write_queue' = Tail(write_queue)
  /\ LET held == pending \cup {Head(write_queue)}
     IN  /\ next_chunk' = NextUnwritten(held)
         /\ pending' = held \ (next_chunk .. NextUnwritten(held) - 1)
  /\ writer' = IF FileDone(next_chunk') THEN "ok" ELSE "run"
  /\ UNCHANGED <<trackerVars, ackMgrVars, udpVars, workerVars, packets, run, io_faults, wireVars>>

(* Mutant: run keeps a sender of the write channel. *)
WriterLeaves_never ==
  /\ run = "ok"
  /\ writer' = "ok"
  /\ UNCHANGED <<trackerVars, ackMgrVars, udpVars, workerVars, pending, next_chunk, queueVars,
                 run, io_faults, wireVars>>

(* The write channel is empty and its senders, the workers, are gone. *)
WriterLeaves ==
  /\ writer = "run"
  /\ write_queue = <<>>
  /\ \A w \in Workers : Gone(w)
  /\ writer' = "ok"
  /\ UNCHANGED <<trackerVars, ackMgrVars, udpVars, workerVars, pending, next_chunk, queueVars,
                 run, io_faults, wireVars>>

(* open, set_len, write_all or flush fails. *)
WriterFails ==
  /\ writer = "run"
  /\ IoFault
  /\ writer' = "err"
  /\ UNCHANGED <<trackerVars, ackMgrVars, udpVars, workerVars, pending, next_chunk, queueVars,
                 run, wireVars>>

-------------------------------------------------------------------------------
(* run: the joins, in the order of the code; an error of the thread that   *)
(* is joined is returned at once.                                          *)

AckManagerDone == ready = {} /\ closing = {} /\ ack_completed >= TotalBlocks

JoinAckManager ==
  /\ run = "ack"
  /\ AckManagerDone
  /\ running' = FALSE
  /\ run' = "udp"
  /\ UNCHANGED <<trackerVars, ackMgrVars, udp, udp_packet, workerVars, writerVars, queueVars,
                 io_faults, wireVars>>

(* A write to the control stream fails and ack_manager_loop returns. *)
AckManagerFails ==
  /\ run = "ack"
  /\ ready \cup closing # {}
  /\ IoFault
  /\ run' = "err"
  /\ UNCHANGED <<trackerVars, ackMgrVars, udpVars, workerVars, writerVars, queueVars, wireVars>>

JoinUdp ==
  /\ run = "udp"
  /\ \/ udp = "ok"  /\ run' = "workers"
     \/ udp = "err" /\ run' = "err"
  /\ UNCHANGED <<trackerVars, ackMgrVars, udpVars, workerVars, writerVars, queueVars, io_faults,
                 wireVars>>

JoinWorkers ==
  /\ run = "workers"
  /\ \/ /\ \A w \in Workers : worker[w] = "ok"
        /\ run' = "writer"
     \/ /\ \E w \in Workers :
             /\ worker[w] = "err"
             /\ \A v \in 1 .. w - 1 : worker[v] = "ok"
        /\ run' = "err"
  /\ UNCHANGED <<trackerVars, ackMgrVars, udpVars, workerVars, writerVars, queueVars, io_faults,
                 wireVars>>

JoinWriter ==
  /\ run = "writer"
  /\ writer # "run"
  /\ run' = writer
  /\ UNCHANGED <<trackerVars, ackMgrVars, udpVars, workerVars, writerVars, queueVars, io_faults,
                 wireVars>>

-------------------------------------------------------------------------------
Returned == run \in {"ok", "err"}

UdpThread == RecvData \/ RecvBlockEnd \/ PushPacket \/ UdpLeaves \/ UdpFails

WorkerThread(w) ==
  TakePacket(w) \/ WorkerLeaves(w) \/ Verify(w) \/ Reject(w) \/ SendChunk(w) \/ SendFails(w)

WriterThread == WriteChunk \/ WriterLeaves \/ WriterFails

AckManager ==
  /\ run = "ack"
  /\ UNCHANGED threadVars
  /\ R!AckPoll \/ R!AckComplete \/ R!AckGiveUp \/ R!AckMissing \/ R!AckRemove

Joins == JoinAckManager \/ AckManagerFails \/ JoinUdp \/ JoinWorkers \/ JoinWriter

Clock == UNCHANGED threadVars /\ R!RcvTick

Peer == UNCHANGED threadVars /\ R!PeerAnswer

Path == UNCHANGED threadVars /\ R!LoseAny

RpNext ==
  /\ ~Returned
  /\ \/ UdpThread
     \/ \E w \in Workers : WorkerThread(w)
     \/ WriterThread
     \/ AckManager
     \/ Joins
     \/ Clock
     \/ Peer
     \/ Path
  /\ faults' + io_faults' <= MaxFaults

RpSpec == RpInit /\ [][RpNext]_rpVars

(* Threads run, unless they wait for a channel or a socket; no error, loss *)
(* or damage has to happen.                                                *)
RpFairness ==
  /\ WF_rpVars(~Returned /\ (RecvData \/ RecvBlockEnd \/ PushPacket \/ UdpLeaves))
  /\ \A w \in Workers :
       WF_rpVars(~Returned /\ (TakePacket(w) \/ WorkerLeaves(w) \/ Verify(w) \/ SendChunk(w)
                                 \/ SendFails(w)))
  /\ WF_rpVars(~Returned /\ (WriteChunk \/ WriterLeaves))
  /\ WF_rpVars(~Returned /\ AckManager)
  /\ WF_rpVars(~Returned /\ (JoinAckManager \/ JoinUdp \/ JoinWorkers \/ JoinWriter))
  /\ WF_rpVars(~Returned /\ Clock)
  /\ WF_rpVars(~Returned /\ Peer)

RpFairSpec == RpSpec /\ RpFairness

-------------------------------------------------------------------------------
(* Properties. *)

(* Types of the threads and channels. *)
RpTypeOK ==
  /\ running \in BOOLEAN
  /\ udp \in {"recv", "send", "leaving", "ok", "err"}
  /\ udp_packet \subseteq Datagrams /\ Cardinality(udp_packet) <= 1
  /\ packets \in Seq(Datagrams) /\ Len(packets) <= ChannelCapacity
  /\ worker \in [Workers -> {"recv", "verify", "send", "ok", "err"}]
  /\ job \in [Workers -> SUBSET Datagrams]
  /\ write_queue \in Seq(ChunkIds) /\ Len(write_queue) <= ChannelCapacity
  /\ writer \in {"run", "ok", "err"}
  /\ pending \subseteq ChunkIds
  /\ next_chunk \in 0 .. TotalChunks
  /\ run \in {"ack", "udp", "workers", "writer", "ok", "err"}
  /\ faults + io_faults <= MaxFaults /\ io_faults \in Nat

InWorkersHand ==
  {c \in ChunkIds :
     \E w \in Workers : \E d \in job[w] :
       worker[w] = "send" /\ c = chunk_id_of(d.block_id, d.packet_in_block)}

InWriteQueue == {write_queue[i] : i \in DOMAIN write_queue}

(* mark_verified reports a chunk before the writer has it.  Still, every   *)
(* verified chunk is in the file, or in the hands of a thread that will    *)
(* bring it there: none is lost by a thread that leaves, unless the writer *)
(* failed.                                                                 *)
VerifiedIsKept ==
  writer # "err" =>
    verified \subseteq (0 .. next_chunk - 1) \cup pending \cup InWriteQueue \cup InWorkersHand

(* run returns Ok with a file that is right up to its first hole: what is  *)
(* written was verified, and the hole, if any, is a chunk nobody verified  *)
(* of a block that the receiver gave up on.                                *)
OkMeansWritten ==
  run = "ok" =>
    /\ 0 .. next_chunk - 1 \subseteq verified
    /\ next_chunk < TotalChunks =>
         next_chunk \notin verified /\ block_of(next_chunk)[1] \in gave_up

(* Without an I/O error, run returns Err only for a complete file: a late  *)
(* repeat of a packet that was verified after the writer had left.         *)
ErrHasCause == run = "err" /\ io_faults = 0 => next_chunk = TotalChunks

(* The threads implement the tracker and its users as ReceiverState has    *)
(* them: bounded channels, threads that leave and joins add no behaviour   *)
(* to the tracker.                                                         *)
ImplementsReceiverState == R!RxSpec

(* The chain of bounded channels and the order of the joins do not block   *)
(* each other: run returns unless every worker has died in a send to a     *)
(* writer that was gone, or the UDP thread in its socket.                  *)
ReturnsWhileWorkersLive ==
  <>(Returned \/ udp = "err" \/ \A w \in Workers : worker[w] = "err")

(* receiver.rs on the bounded channels: "worst case that shows up as more  *)
(* packets needing retransmission, never a deadlock or unbounded growth."  *)
RunReturns == <>Returned
===============================================================================
