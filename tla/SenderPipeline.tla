---------------------------- MODULE SenderPipeline ----------------------------
(***************************************************************************)
(* The sender's threads with the channels between them and the joins of    *)
(* sender.rs: send_file.                                                   *)
(*                                                                         *)
(*   reader -> read_queue -> workers -> send_queue -> chunk relay --+      *)
(*                                                                  v      *)
(*                      control stream -> ack relay ---------> events      *)
(*                                                                  v      *)
(*                                                        block manager    *)
(*                                                                         *)
(* The two queues before the chunk relay are bounded, events is not.  What *)
(* the manager does with an event is BlockManager's; this module adds      *)
(* where a chunk or an ack is before it becomes one, how each thread ends, *)
(* and in which order send_file waits for them.  Once send_file has        *)
(* returned the process exits.                                             *)
(***************************************************************************)
EXTENDS Wire

CONSTANTS
  PipelineDepth, StaleAfter, MaxAcks,  \* as in BlockManager
  ChannelCapacity,  \* of read_queue and send_queue
  NumWorkers        \* pipeline::NUM_WORKERS

ASSUME SenderPipelineAssumption ==
  /\ NumWorkers \in Nat \ {0}
  /\ ChannelCapacity \in Nat \ {0}
  /\ PipelineDepth \in Nat \ {0}
  /\ StaleAfter \in Nat \ {0}
  /\ MaxAcks \in Nat \ {0}

VARIABLES
  slot, bucket, blk, open_slots, completed, mgr,  \* as in BlockManager
  reader,       \* "run", "ok" or "err"
  read_pos,     \* chunk_id of the reader: the next chunk it reads
  read_queue,   \* the channel of ReadChunk, as chunk ids
  worker,       \* each worker: "recv", "send", "ok" or "err"
  job,          \* the chunk each worker has in hand, if any (a set)
  send_queue,   \* the channel of EncryptedChunk, as chunk ids
  chunk_relay,  \* the chunk relay is alive
  ack_relay,    \* the ack relay is alive
  control_open, \* the control connection is up
  events,       \* the channel of SenderEvent: chunks and acks, merged; what an
                \* ack says is in acks, which the relay and events keep in order
  handled,      \* chunks the manager has taken off events
  silent,       \* blocks whose first transmission is lost as a whole
  run           \* what send_file waits for: "reader", "workers", "manager",
                \* "ack_relay", "chunk_relay"; or how it returned: "ok", "err"

Workers == 1 .. NumWorkers

managerVars == <<slot, bucket, blk, open_slots, completed, mgr, net, faults>>
readVars    == <<reader, read_pos, read_queue>>
workVars    == <<worker, job, send_queue>>
relayVars   == <<chunk_relay, ack_relay>>
controlVars == <<control_open, acks>>
eventVars   == <<events, handled>>
spVars      == <<managerVars, readVars, workVars, relayVars, controlVars, eventVars, silent, run>>

-------------------------------------------------------------------------------
(* The manager's own view: every chunk it has not handled is still to come, *)
(* and so is every ack, whether it is an event already or not.             *)

B == INSTANCE BlockManager WITH chunks <- ChunkIds \ handled, ack_relay <- control_open

ChunkEvent(c) == [tag |-> "CHUNK", chunk |-> c]

(* The next of acks that the manager has not handled. *)
AckEvent == [tag |-> "ACK"]

(* How many of acks, the first ones, are events already. *)
Relayed == Count(events, AckEvent)

SpInit ==
  /\ reader = "run"
  /\ read_pos = 0
  /\ read_queue = <<>>
  /\ worker = [w \in Workers |-> "recv"]
  /\ job = [w \in Workers |-> {}]
  /\ send_queue = <<>>
  /\ chunk_relay = TRUE
  /\ ack_relay = TRUE
  /\ control_open = TRUE
  /\ events = <<>>
  /\ handled = {}
  /\ silent \in SUBSET BlockIds
  /\ run = "reader"
  /\ B!MgrInit

-------------------------------------------------------------------------------
(* reader_thread: one chunk read and sent.  The send blocks while the      *)
(* channel is full, and does not fail: send_file keeps a receiver of it,   *)
(* read_rx, until it returns.                                              *)

(* Mutant: unbounded instead of bounded. *)
ReadChunk_unbounded ==
  /\ reader = "run"
  /\ read_pos < TotalChunks
  /\ read_queue' = Append(read_queue, read_pos)
  /\ read_pos' = read_pos + 1
  /\ UNCHANGED <<managerVars, reader, workVars, relayVars, controlVars, eventVars, silent, run>>

ReadChunk ==
  /\ reader = "run"
  /\ read_pos < TotalChunks
  /\ Len(read_queue) < ChannelCapacity
  /\ read_queue' = Append(read_queue, read_pos)
  /\ read_pos' = read_pos + 1
  /\ UNCHANGED <<managerVars, reader, workVars, relayVars, controlVars, eventVars, silent, run>>

ReaderLeaves ==
  /\ reader = "run"
  /\ read_pos = TotalChunks
  /\ reader' = "ok"
  /\ UNCHANGED <<managerVars, read_pos, read_queue, workVars, relayVars, controlVars, eventVars,
                 silent, run>>

(* File::open or read fails. *)
ReaderFails ==
  /\ reader = "run"
  /\ reader' = "err"
  /\ UNCHANGED <<managerVars, read_pos, read_queue, workVars, relayVars, controlVars, eventVars,
                 silent, run>>

-------------------------------------------------------------------------------
(* worker_thread. *)

TakeChunk(w) ==
  /\ worker[w] = "recv"
  /\ read_queue # <<>>
  /\ read_queue' = Tail(read_queue)
  /\ worker' = [worker EXCEPT ![w] = "send"]
  /\ job' = [job EXCEPT ![w] = {Head(read_queue)}]
  /\ UNCHANGED <<managerVars, reader, read_pos, send_queue, relayVars, controlVars, eventVars,
                 silent, run>>

(* read_queue is empty and its sender, the reader, is gone. *)
WorkerLeaves(w) ==
  /\ worker[w] = "recv"
  /\ read_queue = <<>>
  /\ reader # "run"
  /\ worker' = [worker EXCEPT ![w] = "ok"]
  /\ UNCHANGED <<managerVars, readVars, job, send_queue, relayVars, controlVars, eventVars, silent,
                 run>>

SendPacket(w) ==
  /\ worker[w] = "send"
  /\ chunk_relay
  /\ Len(send_queue) < ChannelCapacity
  /\ \E c \in job[w] : send_queue' = Append(send_queue, c)
  /\ worker' = [worker EXCEPT ![w] = "recv"]
  /\ job' = [job EXCEPT ![w] = {}]
  /\ UNCHANGED <<managerVars, readVars, relayVars, controlVars, eventVars, silent, run>>

(* Mutant: the worker gives up when the channel is full. *)
SendFails_full(w) ==
  /\ worker[w] = "send"
  /\ ~chunk_relay \/ Len(send_queue) >= ChannelCapacity
  /\ worker' = [worker EXCEPT ![w] = "err"]
  /\ job' = [job EXCEPT ![w] = {}]
  /\ UNCHANGED <<managerVars, readVars, send_queue, relayVars, controlVars, eventVars, silent, run>>

(* The chunk relay has left, and the receiving end of the channel with it. *)
SendFails(w) ==
  /\ worker[w] = "send"
  /\ ~chunk_relay
  /\ worker' = [worker EXCEPT ![w] = "err"]
  /\ job' = [job EXCEPT ![w] = {}]
  /\ UNCHANGED <<managerVars, readVars, send_queue, relayVars, controlVars, eventVars, silent, run>>

Gone(w) == worker[w] \in {"ok", "err"}

-------------------------------------------------------------------------------
(* chunk_relay and ack_relay.  A relay leaves when it has nothing left to  *)
(* read, or when the manager is gone and with it the receiver of events.   *)

RelayChunk ==
  /\ chunk_relay
  /\ send_queue # <<>>
  /\ mgr = "running"
  /\ events' = Append(events, ChunkEvent(Head(send_queue)))
  /\ send_queue' = Tail(send_queue)
  /\ UNCHANGED <<managerVars, readVars, worker, job, relayVars, controlVars, handled, silent, run>>

ChunkRelayLeaves ==
  /\ chunk_relay
  /\ IF send_queue = <<>> THEN \A w \in Workers : Gone(w) ELSE mgr # "running"
  /\ chunk_relay' = FALSE
  /\ UNCHANGED <<managerVars, readVars, workVars, ack_relay, controlVars, eventVars, silent, run>>

(* Mutant: an ack is dropped when chunks are queued before it. *)
RelayAck_drops ==
  /\ ack_relay
  /\ Relayed < Len(acks)
  /\ mgr = "running"
  /\ IF events = <<>>
     THEN events' = <<AckEvent>> /\ UNCHANGED acks
     ELSE acks' = SubSeq(acks, 1, Len(acks) - 1) /\ UNCHANGED events
  /\ UNCHANGED <<managerVars, readVars, workVars, relayVars, control_open, handled, silent, run>>

RelayAck ==
  /\ ack_relay
  /\ Relayed < Len(acks)
  /\ mgr = "running"
  /\ events' = Append(events, AckEvent)
  /\ UNCHANGED <<managerVars, readVars, workVars, relayVars, controlVars, handled, silent, run>>

AckRelayLeaves ==
  /\ ack_relay
  /\ IF Relayed = Len(acks) THEN ~control_open ELSE mgr # "running"
  /\ ack_relay' = FALSE
  /\ UNCHANGED <<managerVars, readVars, workVars, chunk_relay, controlVars, eventVars, silent, run>>

-------------------------------------------------------------------------------
(* block_manager_loop, the sole reader of events. *)

restVars == <<readVars, workVars, relayVars, control_open, silent, run>>

HandleChunk ==
  /\ events # <<>>
  /\ Head(events).tag = "CHUNK"
  /\ events' = Tail(events)
  /\ handled' = handled \cup {Head(events).chunk}
  /\ UNCHANGED restVars
  /\ B!AdmitOrBuffer(Head(events).chunk)

HandleAck ==
  /\ events # <<>>
  /\ Head(events) = AckEvent
  /\ events' = Tail(events)
  /\ UNCHANGED <<restVars, handled>>
  /\ B!OnMissing \/ B!OnComplete

(* recv_timeout: nothing came for the check interval. *)
HandleTimeout ==
  /\ events = <<>>
  /\ UNCHANGED <<restVars, eventVars>>
  /\ B!RetransmitStale

(* recv_timeout: both senders of events are gone and it is empty. *)
HandleDisconnected ==
  /\ events = <<>>
  /\ ~chunk_relay
  /\ ~ack_relay
  /\ UNCHANGED <<restVars, eventVars>>
  /\ B!Disconnected

(* Draining, returning, and the time that passes between events. *)
ManagerAlone ==
  /\ UNCHANGED <<restVars, eventVars>>
  /\ B!DrainPending \/ B!Return

Clock ==
  /\ UNCHANGED <<restVars, eventVars>>
  /\ B!SndTick

-------------------------------------------------------------------------------
(* send_file: the joins, in the order of the code; an error of the thread  *)
(* that is joined is returned at once.                                     *)

JoinReader ==
  /\ run = "reader"
  /\ \/ reader = "ok"  /\ run' = "workers"
     \/ reader = "err" /\ run' = "err"
  /\ UNCHANGED <<managerVars, readVars, workVars, relayVars, controlVars, eventVars, silent>>

JoinWorkers ==
  /\ run = "workers"
  /\ \/ /\ \A w \in Workers : worker[w] = "ok"
        /\ run' = "manager"
     \/ /\ \E w \in Workers :
             /\ worker[w] = "err"
             /\ \A v \in 1 .. w - 1 : worker[v] = "ok"
        /\ run' = "err"
  /\ UNCHANGED <<managerVars, readVars, workVars, relayVars, controlVars, eventVars, silent>>

(* Mutant: the control stream is not shut down. *)
JoinManager_open ==
  /\ run = "manager"
  /\ \/ /\ mgr = "ok"
        /\ run' = "ack_relay"
     \/ /\ mgr = "err"
        /\ run' = "err"
  /\ UNCHANGED <<managerVars, readVars, workVars, relayVars, controlVars, eventVars, silent>>

(* The control stream is shut down, to wake the ack relay up. *)
JoinManager ==
  /\ run = "manager"
  /\ \/ /\ mgr = "ok"
        /\ control_open' = FALSE
        /\ run' = "ack_relay"
     \/ /\ mgr = "err"
        /\ run' = "err"
        /\ UNCHANGED control_open
  /\ UNCHANGED <<managerVars, readVars, workVars, relayVars, acks, eventVars, silent>>

JoinAckRelay ==
  /\ run = "ack_relay"
  /\ ~ack_relay
  /\ run' = "chunk_relay"
  /\ UNCHANGED <<managerVars, readVars, workVars, relayVars, controlVars, eventVars, silent>>

JoinChunkRelay ==
  /\ run = "chunk_relay"
  /\ ~chunk_relay
  /\ run' = "ok"
  /\ UNCHANGED <<managerVars, readVars, workVars, relayVars, controlVars, eventVars, silent>>

-------------------------------------------------------------------------------
(* The receiver, as far as the pipeline depends on it: it answers for open *)
(* blocks only (Transport's AcksWelcome), once with Complete, and nothing  *)
(* of a block that did not reach it at all until the fallback was sent.    *)

PeerAck(ack) ==
  /\ ack.block_id \in B!OpenBlocks
  /\ ack.block_id \in silent => blk[ack.block_id].fallback_sent
  /\ \A i \in DOMAIN acks : acks[i] # Complete(ack.block_id)
  /\ UNCHANGED <<restVars, eventVars>>
  /\ B!PeerAck(ack)

(* The connection breaks: the ack relay still reads some of what had come. *)
ControlLost ==
  /\ control_open
  /\ control_open' = FALSE
  /\ \E n \in Relayed .. Len(acks) : acks' = SubSeq(acks, 1, n)
  /\ UNCHANGED <<managerVars, readVars, workVars, relayVars, eventVars, silent, run>>

-------------------------------------------------------------------------------
Returned == run \in {"ok", "err"}

Reader == ReadChunk \/ ReaderLeaves

WorkerThread(w) == TakeChunk(w) \/ WorkerLeaves(w) \/ SendPacket(w) \/ SendFails(w)

ChunkRelay == RelayChunk \/ ChunkRelayLeaves

AckRelay == RelayAck \/ AckRelayLeaves

Manager ==
  HandleChunk \/ HandleAck \/ HandleTimeout \/ HandleDisconnected \/ ManagerAlone

Joins == JoinReader \/ JoinWorkers \/ JoinManager \/ JoinAckRelay \/ JoinChunkRelay

SpNext ==
  /\ ~Returned
  /\ \/ Reader
     \/ ReaderFails
     \/ \E w \in Workers : WorkerThread(w)
     \/ ChunkRelay
     \/ AckRelay
     \/ Manager
     \/ Joins
     \/ Clock
     \/ \E ack \in BlockAcks : PeerAck(ack)
     \/ ControlLost

SpSpec == SpInit /\ [][SpNext]_spVars

(* Threads run, unless they wait for a channel or a socket; time passes;   *)
(* and the receiver completes a block it has heard of.                     *)
SpFairness ==
  /\ WF_spVars(~Returned /\ Reader)
  /\ \A w \in Workers : WF_spVars(~Returned /\ WorkerThread(w))
  /\ WF_spVars(~Returned /\ ChunkRelay)
  /\ WF_spVars(~Returned /\ AckRelay)
  /\ WF_spVars(~Returned /\ Manager)
  /\ WF_spVars(~Returned /\ Joins)
  /\ WF_spVars(~Returned /\ Clock)
  /\ \A b \in BlockIds :
       SF_spVars(~Returned /\ blk[b].end_emitted /\ PeerAck(Complete(b)))

SpFairSpec == SpSpec /\ SpFairness

-------------------------------------------------------------------------------
(* Properties. *)

(* Types of the threads and channels. *)
SpTypeOK ==
  /\ reader \in {"run", "ok", "err"}
  /\ read_pos \in 0 .. TotalChunks
  /\ read_queue \in Seq(ChunkIds) /\ Len(read_queue) <= ChannelCapacity
  /\ worker \in [Workers -> {"recv", "send", "ok", "err"}]
  /\ job \in [Workers -> SUBSET ChunkIds]
  /\ send_queue \in Seq(ChunkIds) /\ Len(send_queue) <= ChannelCapacity
  /\ chunk_relay \in BOOLEAN /\ ack_relay \in BOOLEAN /\ control_open \in BOOLEAN
  /\ events \in Seq({ChunkEvent(c) : c \in ChunkIds} \cup {AckEvent}) /\ Relayed <= Len(acks)
  /\ handled \subseteq ChunkIds
  /\ run \in {"reader", "workers", "manager", "ack_relay", "chunk_relay", "ok", "err"}

(* How often chunk c is on its way from the reader to the manager. *)
OnItsWay(c) ==
  Count(read_queue, c) + InHand(job, c) + Count(send_queue, c) + Count(events, ChunkEvent(c))

(* While the manager runs, every chunk that was read is in exactly one     *)
(* place, in a channel or in the hands of one worker, or has been handled: *)
(* place_chunk counts packets and would end a block too early if one came  *)
(* twice, never if one were lost.                                          *)
ReadIsKept ==
  mgr = "running" =>
    \A c \in ChunkIds :
      OnItsWay(c) + Cardinality({c} \cap handled) = IF c < read_pos THEN 1 ELSE 0

(* send_file returns Ok only for a file that was read to its end and whose *)
(* blocks are all resolved; and Err only if reading failed, if the control *)
(* connection broke with blocks unresolved, or if the receiver completed a *)
(* block, as it does when it gives up on it, before all its packets were   *)
(* handed to the manager.                                                  *)
ResultIsHonest ==
  /\ run = "ok" => read_pos = TotalChunks /\ B!ResolvedBlocks = BlockIds
  /\ run = "err" =>
       \/ reader = "err"
       \/ ~control_open /\ B!ResolvedBlocks # BlockIds
       \/ B!ResolvedBlocks = BlockIds /\ handled # ChunkIds

(* The threads implement the manager as BlockManager has it: the channels, *)
(* the relays and the joins add no behaviour to it.                        *)
ImplementsBlockManager == B!MgrSpec

(* send_file always returns: the queues, the relays that leave early and   *)
(* the joins never wait for each other in a circle, and a block of which   *)
(* nothing arrived is repeated, though the traffic of the others may       *)
(* postpone that.                                                          *)
SendFileReturns == <>Returned
===============================================================================
